------------------------------- MODULE HexViewer -------------------------------
(***************************************************************************)
(* The Hex Viewer: HexViewerProvider, its MemoryService and the browser side *)
(* (assets/hex-viewer.js).  The webview asks for the range it shows; the     *)
(* host reads that range, one read at a time with one range pending, on       *)
(* request, each second while the program runs, and whenever the session     *)
(* changes, each time after (re)loading the debug symbols from disk.         *)
(* Messages to the webview are delivered at once, those of the webview wait. *)
(***************************************************************************)
EXTENDS ViewLink

CONSTANTS Ranges,     \* the ranges that can be scrolled to: <<memory space, place>>
          Main,       \* the space of the program's symbols
          MaxInbox    \* bound: messages of the webview on their way

ASSUME HexAssumption ==
    /\ Main \in {r[1] : r \in Ranges} /\ MaxInbox \in Nat
    /\ \A r \in Ranges : \E q \in Ranges : q[1] = r[1] /\ \A p \in Ranges : p[1] = r[1] => q[2] <= p[2]

Spaces == {r[1] : r \in Ranges}
SpaceOf(r) == r[1]
\* A space is opened at its first range.
TopOf(s) == CHOOSE r \in Ranges : SpaceOf(r) = s /\ \A q \in Ranges : SpaceOf(q) = s => r[2] <= q[2]

VARIABLES
    ready,       \* webviewReady
    supported,   \* MemoryService has the session's capabilities
    stored,      \* the memory space kept in workspaceState
    selected,    \* selectedSpace
    range,       \* visibleRange
    pending,     \* pendingRefresh
    active,      \* refreshActive
    timer,       \* refreshTimer is set
    query,       \* queryTimer is set
    navigation,  \* pendingNavigation: a range to go to
    loads,       \* symbol loads under way: what follows, and whether it began with 'ready'
    page,        \* the range the webview shows
    empty,       \* the webview's session-empty class: it shows and asks for nothing
    shown        \* the version of each range in the webview's cache, 0 when not valid

host == <<ready, supported, stored, selected, range, pending, active, timer, query, navigation, loads>>
webview == <<inbox, status, page, empty, shown, unheard>>
hexVars == <<ready, supported, stored, selected, range, pending, active, timer, query, navigation,
             loads, page, empty, shown>>

Load(then, opening) == [then |-> then, opening |-> opening]
NothingShown == [r \in Ranges |-> 0]
----------------------------------------------------------------------------
(***************************************************************************)
(* Parts of the handlers.                                                   *)
(***************************************************************************)
\* render(): what the webview posts when it shows r.
Asks(r, nothing) == IF nothing THEN <<>> ELSE <<Says("visibleRange", r)>>

\* The 'navigate' message: the webview persists its selection and shows r.
GoTo(r) ==
    /\ page' = r
    /\ inbox' = inbox \o <<Says("persist", r)>> \o Asks(r, empty)

\* refreshVisible: read r, or make it the one that follows the read under way.
ReadRange(r, opening) ==
    IF ~(visible /\ Connected /\ supported) THEN UNCHANGED <<active, pending, wire>>
    ELSE IF active THEN pending' = r /\ UNCHANGED <<active, wire>>
    ELSE /\ active' = TRUE /\ UNCHANGED pending
         /\ wire' = Append(wire, Request("read", r, opening))

\* applyPendingNavigation.
Navigate ==
    IF navigation # None /\ ready
    THEN navigation' = None /\ GoTo(navigation)
    ELSE UNCHANGED <<navigation, page, inbox>>

\* syncSession without a session, and the webview's resetSession.
Reset ==
    /\ supported' = FALSE /\ timer' = FALSE /\ query' = FALSE /\ navigation' = None
    /\ pending' = None /\ range' = None /\ selected' = Main
    /\ empty' = TRUE /\ shown' = NothingShown
    /\ UNCHANGED loads

SyncUnchanged ==
    UNCHANGED <<timer, query, navigation, pending, range, selected, empty, shown>>

\* Mutant: a hidden panel is not told that its session is gone.
SyncWhenVisible(opening, over) ==
    IF ~visible' THEN UNCHANGED <<supported, loads, status>> /\ SyncUnchanged
    ELSE IF state' = "stopped" THEN Reset /\ status' = over
    ELSE /\ supported' = TRUE /\ loads' = loads \cup {Load("sync", opening)}
         /\ SyncUnchanged /\ UNCHANGED status

\* syncSession up to its await: the session's capabilities, then the symbols.
\* Without a session the panel's last word is "over".
SyncSession(opening, over) ==
    IF state' = "stopped" THEN Reset /\ status' = over
    ELSE /\ supported' = (supported \/ visible')
         /\ loads' = IF visible' THEN loads \cup {Load("sync", opening)} ELSE loads
         /\ SyncUnchanged /\ UNCHANGED status
----------------------------------------------------------------------------
(***************************************************************************)
(* The session and the panel.                                               *)
(***************************************************************************)
\* A read that a message began reports its rejection after the panel was reset.
HexStateChange ==
    /\ StateChange
    /\ SyncSession("no", IF \E i \in DOMAIN wire : wire[i].tag = "message" THEN "error" ELSE "noSession")
    /\ IF state' = "stopped" THEN wire' = <<>> /\ active' = FALSE ELSE UNCHANGED <<wire, active>>
    /\ UNCHANGED <<ready, stored, inbox, page, unheard>>

HexShownOrHidden ==
    /\ ShownOrHidden
    /\ IF visible' THEN SyncSession("no", "noSession")
       ELSE /\ timer' = FALSE /\ pending' = None
            /\ UNCHANGED <<supported, query, navigation, range, selected, empty, shown, loads, status>>
    /\ UNCHANGED <<ready, stored, active, inbox, page, unheard, wire>>

\* syncSession after its await: spaces, state, configureRefreshTimer and refresh();
\* the handler of 'ready' then applies the pending navigation.
SyncGoesOn(l) ==
    LET refresh == range # None /\ visible
        goes == l.opening = "ready" /\ ~refresh /\ navigation # None
        top == IF SpaceOf(page) = selected THEN page ELSE TopOf(selected)
    IN  /\ l.then = "sync" /\ Connected /\ supported
        /\ page' = IF goes THEN navigation ELSE top
        /\ inbox' = inbox \o Asks(top, FALSE)
                          \o (IF goes THEN <<Says("persist", navigation)>> \o Asks(navigation, FALSE) ELSE <<>>)
        /\ navigation' = IF goes THEN None ELSE navigation
        /\ status' = state /\ empty' = FALSE
        /\ timer' = (state = "running" /\ visible)
        /\ pending' = None
        /\ loads' = (loads \ {l}) \cup (IF refresh THEN {Load("refresh", l.opening)} ELSE {})
        /\ UNCHANGED <<active, wire>>

NavigateAfter(opening) ==
    IF opening = "ready" THEN Navigate ELSE UNCHANGED <<navigation, page, inbox>>

SyncIsOver(l) ==
    /\ l.then = "sync" /\ ~(Connected /\ supported)
    /\ loads' = loads \ {l}
    /\ NavigateAfter(l.opening)
    /\ UNCHANGED <<empty, status, timer, pending, active, wire>>

\* refresh() after its await, with the range of now: it may have been withdrawn meanwhile.
RefreshGoesOn(l) ==
    /\ l.then = "refresh"
    /\ loads' = loads \ {l}
    /\ ReadRange(range, l.opening)
    /\ NavigateAfter(IF wire' = wire THEN l.opening ELSE "no")
    /\ UNCHANGED <<empty, status, timer>>

LoadEnds(l) == SyncGoesOn(l) \/ SyncIsOver(l) \/ RefreshGoesOn(l)
LoadLeaves == UNCHANGED <<ready, supported, stored, selected, range, query, shown, unheard, link>>
SymbolsLoaded == (\E l \in loads : LoadEnds(l)) /\ LoadLeaves

HexPoll ==
    /\ timer /\ range # None /\ visible
    /\ loads' = loads \cup {Load("refresh", "no")}
    /\ UNCHANGED <<ready, supported, stored, selected, range, pending, active, timer, query, navigation>>
    /\ UNCHANGED <<webview, wire, link>>
----------------------------------------------------------------------------
(***************************************************************************)
(* Reads and byte edits.                                                    *)
(***************************************************************************)
HexExecute == Execute(now) /\ UNCHANGED <<link, host, webview>>

\* Mutant: the range asked for meanwhile is forgotten.
ReadEndsAlone ==
    active' = FALSE /\ pending' = None /\ wire' = Tail(wire)

\* The finally clause of refreshVisible: the range asked for meanwhile is read next.
ReadEnds ==
    LET next == pending # None /\ visible
    IN  /\ active' = next /\ pending' = None
        /\ wire' = IF next THEN Append(Tail(wire), Request("read", pending, "no")) ELSE Tail(wire)

\* A withdrawn range cannot be read, and fails before it is sent.
HexReceive ==
    LET r == Head(wire)
        kept == r.arg = None \/ SpaceOf(r.arg) # SpaceOf(page) \/ empty
    IN  /\ Arrived
        /\ \/ /\ r.kind = "read" /\ ReadEnds /\ unheard' = FALSE
              /\ shown' = IF kept THEN shown ELSE [shown EXCEPT ![r.arg] = r.value]
              /\ NavigateAfter(r.tag)
           \/ /\ r.kind = "edit" /\ wire' = Tail(wire)
              /\ UNCHANGED <<active, pending, navigation, page, inbox, shown, unheard>>
        /\ UNCHANGED <<ready, supported, stored, selected, range, timer, query, loads, empty, status, link>>

\* A read or an edit fails: the range asked for meanwhile is read all the same.
HexFails ==
    /\ Waits /\ Event
    /\ unheard' = (Head(wire).tag = "no" \/ (unheard /\ Head(wire).kind = "edit"))
    /\ IF Head(wire).kind = "read"
       THEN ReadEnds /\ status' = IF Head(wire).tag = "no" THEN status ELSE "error"
       ELSE wire' = Tail(wire) /\ UNCHANGED <<active, pending, status>>
    /\ UNCHANGED <<ready, supported, stored, selected, range, timer, query, navigation, loads>>
    /\ UNCHANGED <<session, inbox, page, empty, shown>>
----------------------------------------------------------------------------
(***************************************************************************)
(* The webview, and the host's handling of its messages.                    *)
(***************************************************************************)
UserActs == Event /\ Len(inbox) < MaxInbox /\ visible /\ ~empty

Scroll ==
    /\ UserActs
    /\ \E r \in Ranges \ {page} :
        SpaceOf(r) = SpaceOf(page) /\ page' = r /\ inbox' = inbox \o Asks(r, empty)
    /\ UNCHANGED <<session, wire, host, empty, shown, unheard, status>>

\* The webview's selection changes at once, the host learns of it later.
SelectSpace ==
    /\ UserActs
    /\ \E s \in Spaces \ {SpaceOf(page)} :
        /\ page' = TopOf(s)
        /\ inbox' = inbox \o <<Says("selectSpace", TopOf(s)), Says("persist", TopOf(s))>> \o Asks(page', empty)
    /\ UNCHANGED <<session, wire, host, empty, shown, unheard, status>>

EditOrQuery ==
    /\ UserActs
    /\ \/ shown[page] # 0 /\ inbox' = Append(inbox, Says("editByte", page))
       \/ inbox' = Append(inbox, Says("query", page))
    /\ UNCHANGED <<session, wire, host, page, empty, shown, unheard, status>>

\* What the text of a query may name: a place in the space that the webview shows.
Queried == {r \in Ranges : SpaceOf(r) = SpaceOf(page)}

\* queryTimer: the place, or none such.
QueryFires ==
    /\ query /\ query' = FALSE
    /\ \/ \E r \in Queried : GoTo(r)
       \/ UNCHANGED <<page, inbox>>
    /\ UNCHANGED <<ready, supported, stored, selected, range, pending, active, timer, navigation, loads>>
    /\ UNCHANGED <<status, empty, shown, unheard, wire, link>>

\* revealSymbol: another panel asks for a range of main memory.
RevealSymbol ==
    /\ Event /\ Len(inbox) < MaxInbox
    /\ \E r \in Ranges :
        /\ SpaceOf(r) = Main /\ selected' = Main
        /\ IF ready THEN GoTo(r) /\ navigation' = None
           ELSE navigation' = r /\ UNCHANGED <<page, inbox>>
    /\ UNCHANGED <<ready, supported, stored, range, pending, active, timer, query, loads>>
    /\ UNCHANGED <<session, wire, empty, shown, unheard, status>>

Others == UNCHANGED <<supported, pending, timer, navigation, loads, empty, shown, unheard, status, page>>

\* 'ready': restore() also shows the stored space in the webview, then syncSession.
OnReady ==
    /\ Head(inbox).type = "ready"
    /\ ready' = TRUE /\ inbox' = Tail(inbox) /\ page' = TopOf(stored)
    /\ IF state = "stopped" THEN Reset /\ status' = "noSession"
       ELSE /\ selected' = stored
            /\ supported' = (supported \/ visible)
            /\ loads' = IF visible THEN loads \cup {Load("sync", "ready")} ELSE loads
            /\ UNCHANGED <<timer, query, navigation, pending, range, empty, shown, status>>
    /\ UNCHANGED <<stored, active, unheard, wire>>

OnVisibleRange ==
    /\ Head(inbox).type = "visibleRange" /\ inbox' = Tail(inbox)
    /\ IF supported THEN range' = Head(inbox).arg /\ ReadRange(range', "message")
       ELSE UNCHANGED <<range, active, pending, wire>>
    /\ UNCHANGED <<ready, supported, stored, selected, timer, query, navigation, loads>>
    /\ UNCHANGED <<page, empty, shown, unheard, status>>

OnSelectSpace ==
    /\ Head(inbox).type = "selectSpace" /\ inbox' = Tail(inbox)
    /\ IF supported THEN selected' = SpaceOf(Head(inbox).arg) /\ range' = None
       ELSE UNCHANGED <<selected, range>>
    /\ UNCHANGED <<ready, stored, active, query, wire>> /\ Others

OnPersist ==
    /\ Head(inbox).type = "persist" /\ inbox' = Tail(inbox)
    /\ stored' = SpaceOf(Head(inbox).arg)
    /\ UNCHANGED <<ready, selected, range, active, query, wire>> /\ Others

OnQuery ==
    /\ Head(inbox).type = "query" /\ inbox' = Tail(inbox)
    /\ query' = TRUE
    /\ UNCHANGED <<ready, stored, selected, range, active, wire>> /\ Others

\* editByte: an edit of a space that is not the host's selection is dropped without an answer.
OnEditByte ==
    /\ Head(inbox).type = "editByte" /\ inbox' = Tail(inbox)
    /\ wire' = IF SpaceOf(Head(inbox).arg) = selected /\ Connected
               THEN Append(wire, Request("edit", Head(inbox).arg, "edit")) ELSE wire
    /\ UNCHANGED <<ready, stored, selected, range, active, query>> /\ Others

HexMessage ==
    /\ inbox # <<>>
    /\ OnReady \/ OnVisibleRange \/ OnSelectSpace \/ OnPersist \/ OnQuery \/ OnEditByte
    /\ UNCHANGED link
----------------------------------------------------------------------------
HexInit ==
    /\ ready = FALSE /\ supported = FALSE /\ stored \in (IF view = "hex" THEN Spaces ELSE {Main}) /\ selected = Main /\ range = None
    /\ pending = None /\ active = FALSE /\ timer = FALSE /\ query = FALSE /\ navigation = None
    /\ loads = {} /\ page = TopOf(Main) /\ empty = TRUE /\ shown = NothingShown

HexNext ==
    \/ HexStateChange \/ HexShownOrHidden \/ SymbolsLoaded \/ HexPoll
    \/ HexExecute \/ HexReceive \/ HexFails
    \/ Scroll \/ SelectSpace \/ EditOrQuery \/ QueryFires \/ RevealSymbol \/ HexMessage

hexAll == <<link, wire, host, webview>>

\* Loads end, messages and answers arrive, however often the timer polls.
HexFairness ==
    /\ \A then \in {"sync", "refresh"} :
        WF_hexAll(view = "hex" /\ (\E l \in loads : l.then = then /\ LoadEnds(l)) /\ LoadLeaves)
    /\ WF_hexAll(view = "hex" /\ (HexExecute \/ HexReceive))
    /\ WF_hexAll(view = "hex" /\ HexMessage)

HexTypeOK ==
    /\ {ready, supported, active, timer, query, empty} \subseteq BOOLEAN
    /\ {stored, selected} \subseteq Spaces /\ page \in Ranges
    /\ {range, pending, navigation} \subseteq Ranges \cup {None}
    /\ loads \subseteq [then : {"sync", "refresh"}, opening : {"no", "ready", "message"}]
    /\ shown \in [Ranges -> 0..now]

\* Whatever the panel went through, it shows no memory of an earlier session.
HexIsCurrent == \A r \in Ranges : shown[r] # 0 => Connected /\ shown[r] >= since

\* The range on the screen was read at the last stop, unless the panel says that
\* something failed, or a read that nothing waits for did.
HexIsUpToDate == shown[page] = now \/ status = "error" \/ unheard
=============================================================================
