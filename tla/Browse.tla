------------------------------- MODULE Browse -------------------------------
(***************************************************************************)
(* The pages of the application, their keyboard focus, the help dialog and *)
(* the poller of the main page: pkg/ui/navigation.go, the key bindings and *)
(* callbacks of pkg/ui/app.go, pkg/ui/views/main_view.go.                  *)
(*                                                                         *)
(* Every key passes the capture function of the application first, which   *)
(* goes by the page on top of the navigator's history, not by what is on   *)
(* screen: the help dialog is on screen and not in the history.            *)
(*                                                                         *)
(* The poller refreshes the active tab every 3 s in its own goroutine.  At *)
(* the end StopAutoRefresh offers it the stop without waiting; if it is in *)
(* a refresh then, the offer is lost and only the context ends it.         *)
(***************************************************************************)
EXTENDS Sequences, Naturals

VARIABLES
    history,            \* Navigator.history
    front,              \* the page tview shows below a dialog
    help,               \* the dialog: not there, on screen, or hidden
    tab,                \* MainView.activeTab
    focus,              \* what the focused primitive is of
    poller,             \* where the poller is, and the tab it refreshes
    cancelled,          \* MainView.ctx is done
    stopped             \* App.Stop: not called, in it, past it

pageVars == <<history, front, help, focus>>
vars     == <<pageVars, tab, poller, cancelled, stopped>>

Tab    == {"containers", "images", "pods"}
Detail == {"container_detail", "image_detail"}
Page   == {"main"} \cup Detail

\* A mutant: (activeTab + 1) is not taken modulo 3.
NextTabUnwrapped(t) == CASE t = "containers" -> "images" [] t = "images" -> "pods"
                         [] OTHER -> "none"

\* (activeTab + 1) % 3.
NextTab(t) == CASE t = "containers" -> "images" [] t = "images" -> "pods"
                [] t = "pods" -> "containers"

TypeOK ==
    /\ history \in Seq(Page) /\ history # <<>> /\ front \in Page
    /\ help \in {"none", "shown", "hidden"}
    /\ tab \in Tab /\ focus \in Tab \cup Detail \cup {"help"}
    /\ poller \in [at : {"none", "select", "lock", "refresh", "gone"}, tab : Tab]
    /\ cancelled \in BOOLEAN /\ stopped \in {"no", "offering", "yes"}

\* setupUI navigates to the main page, whose first tab is active.
Init ==
    /\ history = <<"main">> /\ front = "main" /\ help = "none"
    /\ tab = "containers" /\ focus = "containers"
    /\ poller = [at |-> "none", tab |-> "containers"]
    /\ cancelled = FALSE /\ stopped = "no"

CurrentPage == history[Len(history)]

\* MainView.GetFocusPrimitive.
GetFocusPrimitive == tab

\* What Pages focuses by itself: the widget of the page it shows.
OwnFocus(page) == IF page = "main" THEN tab ELSE page

\* SwitchToPage hides every other page, a dialog too.
SwitchToPage(page) == front' = page /\ help' = IF help = "shown" THEN "hidden" ELSE help

-----------------------------------------------------------------------------
(***************************************************************************)
(* Keys, as App.setupKeybindings routes them.                              *)
(***************************************************************************)

\* The event loop runs once the poller has been started.  Its own end is in
\* AppLifecycle; a signal may have called Stop before.
Running == poller.at # "none"

\* Enter reaches a list when it has the focus.
OpenDetail ==
    /\ Running /\ focus \in {"containers", "images"} /\ CurrentPage = "main"
    /\ LET page == IF focus = "containers" THEN "container_detail" ELSE "image_detail"
       IN  /\ history' = Append(history, page)
           /\ SwitchToPage(page)
           /\ focus' = page
    /\ UNCHANGED <<tab, poller, cancelled, stopped>>

\* A mutant: the page is switched and stays in the history.
NavigateBackUnpopped(over) ==
    /\ Running /\ CurrentPage \in Detail
    /\ SwitchToPage("main") /\ focus' = over
    /\ UNCHANGED <<history, tab, poller, cancelled, stopped>>

\* Navigator.Back, to the page below and its registered focus, if any.
NavigateBack(over) ==
    /\ Running /\ CurrentPage \in Detail
    /\ IF Len(history) <= 1
       THEN UNCHANGED <<history, front, help>> /\ focus' = over
       ELSE /\ history' = SubSeq(history, 1, Len(history) - 1)
            /\ SwitchToPage(history[Len(history) - 1])
            /\ focus' = over
    /\ UNCHANGED <<tab, poller, cancelled, stopped>>

\* A mutant: the focus is the one registered for the page when it was set up.
BackToRegistered == NavigateBack("containers")

\* Esc or q on a detail page: the back callbacks set the focus anew.
Back == NavigateBack(GetFocusPrimitive)

\* The tabs of a detail page focus a widget of theirs.
DetailKey ==
    /\ Running /\ CurrentPage \in Detail /\ focus # CurrentPage
    /\ focus' = CurrentPage
    /\ UNCHANGED <<history, front, help, tab, poller, cancelled, stopped>>

\* A mutant: the page of the tab is shown and the focus stays.
SwitchTabUnfocused(t) ==
    /\ Running /\ CurrentPage = "main"
    /\ tab' = t
    /\ UNCHANGED <<history, front, help, focus, poller, cancelled, stopped>>

\* 1, 2, 3, Tab, Shift+Tab on the main page.
SwitchTab(t) ==
    /\ Running /\ CurrentPage = "main"
    /\ tab' = t /\ focus' = t
    /\ UNCHANGED <<history, front, help, poller, cancelled, stopped>>

SwitchTabs ==
    \/ \E t \in Tab : SwitchTab(t)
    \/ SwitchTab(NextTab(tab)) \/ SwitchTab(NextTab(NextTab(tab)))

\* ?: the dialog is added again if it is there, on top of the page shown.
ShowHelp ==
    /\ Running
    /\ help' = "shown" /\ focus' = "help"
    /\ UNCHANGED <<history, front, tab, poller, cancelled, stopped>>

\* Enter, and on the main page Esc, reaches the dialog if it has the focus.
CloseHelp ==
    /\ Running /\ help = "shown" /\ focus = "help"
    /\ help' = "none" /\ focus' = OwnFocus(front)
    /\ UNCHANGED <<history, front, tab, poller, cancelled, stopped>>

-----------------------------------------------------------------------------
(***************************************************************************)
(* The poller and its end.                                                 *)
(***************************************************************************)

\* App.Run has seen no stop, but one may have come since.
StartAutoRefresh ==
    /\ poller.at = "none"
    /\ poller' = [poller EXCEPT !.at = "select"]
    /\ UNCHANGED <<pageVars, tab, cancelled, stopped>>

Tick ==
    /\ poller.at = "select"
    /\ poller' = [poller EXCEPT !.at = "lock"]
    /\ UNCHANGED <<pageVars, tab, cancelled, stopped>>

\* refreshCurrentTab reads the tab under the mutex and refreshes that one.
ReadTab ==
    /\ poller.at = "lock"
    /\ poller' = [at |-> "refresh", tab |-> tab]
    /\ UNCHANGED <<pageVars, tab, cancelled, stopped>>

\* Listing ends, by an error at the latest: the context is passed down.
RefreshReturns ==
    /\ poller.at = "refresh"
    /\ poller' = [poller EXCEPT !.at = "select"]
    /\ UNCHANGED <<pageVars, tab, cancelled, stopped>>

ObserveDone ==
    /\ poller.at = "select" /\ cancelled
    /\ poller' = [poller EXCEPT !.at = "gone"]
    /\ UNCHANGED <<pageVars, tab, cancelled, stopped>>

\* App.Stop; the offer is taken only by a poller that waits in its select.
OfferStop ==
    /\ stopped = "no"
    /\ stopped' = "offering"
    /\ poller' = IF poller.at = "select" THEN [poller EXCEPT !.at = "gone"] ELSE poller
    /\ UNCHANGED <<pageVars, tab, cancelled>>

\* A mutant: the offer is trusted.
OfferOnly ==
    /\ stopped = "offering" /\ stopped' = "yes"
    /\ UNCHANGED <<pageVars, tab, poller, cancelled>>

\* refreshCancel, and App.cancel.
RefreshCancel ==
    /\ stopped = "offering"
    /\ cancelled' = TRUE /\ stopped' = "yes"
    /\ UNCHANGED <<pageVars, tab, poller>>

Keys == OpenDetail \/ Back \/ DetailKey \/ SwitchTabs \/ ShowHelp \/ CloseHelp
Poll == StartAutoRefresh \/ Tick \/ ReadTab \/ RefreshReturns \/ ObserveDone
Next == Keys \/ Poll \/ OfferStop \/ RefreshCancel

\* A goroutine that can run does; a select with a ready context and a tick
\* now and then takes the context sooner or later (Go picks at random).
Fairness == /\ WF_vars(ReadTab) /\ WF_vars(RefreshReturns)
            /\ WF_vars(RefreshCancel) /\ SF_vars(ObserveDone)

Spec == Init /\ [][Next]_vars /\ Fairness

-----------------------------------------------------------------------------
(***************************************************************************)
(* Properties.                                                             *)
(***************************************************************************)

\* The capture function goes by CurrentPage: it is the page on screen, and
\* the main page lies below every other one.
RoutedToShownPage ==
    front = CurrentPage /\ history[1] = "main" /\ Len(history) <= 2

\* "Re-resolve focus dynamically: the registered focus for PageMain is a
\* static snapshot captured at startup": the keys go to the dialog while it is
\* on screen or else to what the page shows, on the main page to the list of
\* the active tab, whatever pages and dialogs were open meanwhile.
FocusOnScreen ==
    IF focus = "help" THEN help = "shown" ELSE focus = OwnFocus(front)

\* After App.Stop there is no poller for good, also when it missed the offer
\* or was started after it.
PollerEnds == <>[](stopped # "no" => poller.at \in {"none", "gone"})

\* "Press Esc or Enter to close": no key takes the user from a detail page
\* while the help is on screen.
HelpKeepsPage == [][help = "shown" /\ front \in Detail => front' = front]_vars
=============================================================================
