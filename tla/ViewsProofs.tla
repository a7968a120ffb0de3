------------------------------ MODULE ViewsProofs ------------------------------
(***************************************************************************)
(* The live views, for every memory layout, set of queries, images, scripts   *)
(* and artifacts and every number of events: what a view shows is of the       *)
(* session that is open, an action is about the row that was seen, and no     *)
(* write to a disk is lost that the user has not given up.  A behaviour is    *)
(* about one view; the variables of the others stay as they began.           *)
(***************************************************************************)
EXTENDS MCViews, SequenceTheorems, TLAPS

(***************************************************************************)
(* The session as the views observe it.                                     *)
(***************************************************************************)
Kinds == {"noSession", "connected", "running", "starting", "error"}
LinkOK ==
    /\ view \in Views /\ state \in {"stopped", "connected", "running"} /\ visible \in BOOLEAN
    /\ now \in Nat /\ since \in 0..now /\ events \in 0..MaxEvents[view]
    /\ unheard \in BOOLEAN /\ status \in Kinds
    /\ Connected => since # 0
    /\ ~Connected => wire = <<>>

\* An answer on the wire is of this session.
Fresh(v) == v \in 0..now /\ (v # 0 => v >= since)

\* What a listener of the session leaves true of it.
LEMMA SessionMoves ==
  ASSUME LinkOK, StateChange \/ ShownOrHidden \/ UNCHANGED link \/ (Event /\ UNCHANGED session)
  PROVE  /\ view' = view /\ view' \in Views /\ state' \in {"stopped", "connected", "running"} /\ visible' \in BOOLEAN
         /\ now' \in Nat /\ since' \in 0..now' /\ events' \in 0..MaxEvents[view]'
         /\ Connected' => since' # 0
         /\ now <= now' /\ since <= since'
         /\ Connected /\ Connected' => since' = since
<1>1. MaxEvents[view] \in Nat /\ events \in Nat
  BY ViewAssumption DEF LinkOK
<1>2. CASE UNCHANGED link
  BY <1>2 DEF LinkOK, link, session, Connected
<1>3. CASE Event /\ UNCHANGED session
  BY <1>1, <1>3 DEF LinkOK, session, Connected, Event
<1>4. CASE ShownOrHidden
  BY <1>1, <1>4 DEF LinkOK, Connected, Event, ShownOrHidden
<1>5. CASE SessionOpens
  BY <1>1, <1>5 DEF LinkOK, Connected, SessionOpens
<1>6. CASE SessionLost
  BY <1>1, <1>6 DEF LinkOK, Connected, SessionLost, Event
<1>7. CASE Runs
  BY <1>1, <1>7 DEF LinkOK, Connected, Runs, Event
<1>8. CASE Stops
  BY <1>1, <1>8 DEF LinkOK, Connected, Stops
<1> QED
  BY <1>2, <1>3, <1>4, <1>5, <1>6, <1>7, <1>8 DEF StateChange

LEMMA StaysFresh ==
  ASSUME LinkOK, NEW v, Fresh(v), now' \in Nat, now <= now', since' = since
  PROVE  Fresh(v)'
BY DEF LinkOK, Fresh

\* A step that leaves the session alone, but for the count of events.
LEMMA WithinSession ==
  ASSUME LinkOK, UNCHANGED link \/ (Event /\ UNCHANGED session), UNCHANGED unheard \/ unheard' \in BOOLEAN,
         status' \in Kinds, ~Connected => wire' = <<>>
  PROVE  LinkOK' /\ UNCHANGED <<now, since, visible, state>> /\ Connected' = Connected
<1>1. UNCHANGED session
  BY DEF link
<1> QED
  BY <1>1, SessionMoves DEF LinkOK, session, Connected
--------------------------------------------------------------------------------
(***************************************************************************)
(* The hex viewer.                                                          *)
(***************************************************************************)
HexRequests ==
    {q \in [kind : {"read", "edit"}, arg : Ranges \cup {None}, tag : {"no", "ready", "message", "edit"}, value : Nat] :
        Fresh(q.value)}
HexMessages == [type : {"ready", "visibleRange", "selectSpace", "persist", "query", "editByte"}, arg : Ranges]
HexInv ==
    /\ HexTypeOK /\ HexIsCurrent
    /\ wire \in Seq(HexRequests) /\ inbox \in Seq(HexMessages)
HexIdle == HexTypeOK /\ shown = NothingShown


LEMMA TopIsARange ==
  ASSUME NEW s \in Spaces
  PROVE  TopOf(s) \in Ranges /\ SpaceOf(TopOf(s)) = s
<1>1. PICK r \in Ranges : r[1] = s
  BY DEF Spaces
<1>2. \E q \in Ranges : SpaceOf(q) = s /\ \A p \in Ranges : SpaceOf(p) = s => q[2] <= p[2]
  BY <1>1, HexAssumption DEF SpaceOf
<1> QED
  BY <1>2 DEF TopOf

LEMMA SpacesOfRanges ==
  /\ Main \in Spaces
  /\ \A r \in Ranges : SpaceOf(r) \in Spaces
BY HexAssumption DEF Spaces, SpaceOf

\* Between sessions nothing is shown and no request is under way; within one, what is
\* shown and what was answered stays of it.
LEMMA HexStaysCurrent ==
  ASSUME LinkOK, HexInv, StateChange, state' # "stopped"
  PROVE  /\ wire \in Seq(HexRequests') /\ shown \in [Ranges -> 0..now']
         /\ \A r \in Ranges : shown[r] # 0 => Connected' /\ shown[r] >= since'
<1>1. now \in Nat /\ now' \in Nat /\ now <= now' /\ Connected'
  BY SessionMoves DEF LinkOK, Connected
<1>2. CASE state = "stopped"
  <2>1. wire = <<>> /\ \A r \in Ranges : shown[r] = 0
    BY <1>2 DEF LinkOK, HexInv, HexIsCurrent, Connected
  <2>2. shown \in [Ranges -> 0..now']
    BY <1>1, <2>1 DEF HexInv, HexTypeOK
  <2> QED
    BY <2>1, <2>2
<1>3. CASE state # "stopped"
  <2>1. since' = since
    BY <1>3, SessionMoves DEF Connected
  <2>2. HexRequests \subseteq HexRequests'
    BY <1>1, <2>1 DEF HexRequests, Fresh, LinkOK
  <2>3. wire \in Seq(HexRequests')
    BY <2>2 DEF HexInv
  <2>4. shown \in [Ranges -> 0..now']
    BY <1>1 DEF HexInv, HexTypeOK
  <2> QED
    BY <1>1, <2>1, <2>3, <2>4 DEF HexInv, HexIsCurrent
<1> QED
  BY <1>2, <1>3

LEMMA HexSays ==
  ASSUME NEW r \in Ranges
  PROVE  \A t \in {"ready", "visibleRange", "selectSpace", "persist", "query", "editByte"} :
              Says(t, r) \in HexMessages
  BY DEF Says, HexMessages

\* The part of the invariant that the handlers of the viewer can disturb.
HexParts ==
    /\ HexTypeOK /\ wire \in Seq(HexRequests) /\ inbox \in Seq(HexMessages)
    /\ (~Connected => wire = <<>>) /\ unheard \in BOOLEAN /\ status \in Kinds

LEMMA HexGoesTo ==
  ASSUME HexInv, NEW r \in Ranges, GoTo(r)
  PROVE  page' \in Ranges /\ inbox' \in Seq(HexMessages)
<1>2. Asks(r, empty) \in Seq(HexMessages) /\ <<Says("persist", r)>> \in Seq(HexMessages)
  BY HexSays DEF Asks
<1> QED
  BY <1>2 DEF GoTo, HexInv

LEMMA HexNavigates ==
  ASSUME HexInv, NEW opening, NavigateAfter(opening)
  PROVE  page' \in Ranges /\ inbox' \in Seq(HexMessages) /\ navigation' \in Ranges \cup {None}
<1>1. CASE navigation # None /\ GoTo(navigation) /\ navigation' = None
  <2>1. navigation \in Ranges
    BY <1>1 DEF HexInv, HexTypeOK
  <2> QED
    BY <1>1, <2>1, HexGoesTo
<1>2. CASE UNCHANGED <<navigation, page, inbox>>
  BY <1>2 DEF HexInv, HexTypeOK
<1> QED
  BY <1>1, <1>2 DEF NavigateAfter, Navigate

LEMMA HexReads ==
  ASSUME LinkOK, HexInv, NEW r \in Ranges \cup {None}, NEW opening \in {"no", "ready", "message"}, ReadRange(r, opening)
  PROVE  /\ wire' \in Seq(HexRequests) /\ (~Connected => wire' = <<>>)
         /\ active' \in BOOLEAN /\ pending' \in Ranges \cup {None}
<1>1. Request("read", r, opening) \in HexRequests
  BY DEF Request, HexRequests, Fresh, LinkOK
<1>2. CASE UNCHANGED <<active, pending, wire>>
  BY <1>2 DEF HexInv, HexTypeOK, LinkOK
<1>3. CASE Connected /\ pending' = r /\ UNCHANGED <<active, wire>>
  BY <1>3 DEF HexInv, HexTypeOK, LinkOK
<1>4. CASE Connected /\ active' = TRUE /\ UNCHANGED pending /\ wire' = Append(wire, Request("read", r, opening))
  <2>1. wire' \in Seq(HexRequests)
    BY <1>1, <1>4, AppendProperties DEF HexInv
  <2> QED
    BY <1>4, <2>1 DEF HexInv, HexTypeOK
<1> QED
  BY <1>2, <1>3, <1>4 DEF ReadRange

\* A step that leaves the session alone, but for the count of events.
LEMMA HexWithinSession ==
  ASSUME LinkOK, HexInv, UNCHANGED link \/ (Event /\ UNCHANGED session),
         HexParts', shown' = shown
  PROVE  LinkOK' /\ HexInv'
<1>1. UNCHANGED session
  BY DEF link
<1>2. LinkOK'
  BY <1>1, SessionMoves DEF LinkOK, HexParts, session, Connected
<1>3. HexIsCurrent'
  BY <1>1 DEF HexInv, HexIsCurrent, session, Connected
<1> QED
  BY <1>2, <1>3 DEF HexInv, HexParts

\* The handlers that leave the session alone.
LEMMA HexLoadsEnd == LinkOK /\ HexInv /\ SymbolsLoaded => HexParts' /\ shown' = shown
<1> SUFFICES ASSUME LinkOK, HexInv, NEW l \in loads, LoadEnds(l), LoadLeaves PROVE HexParts' /\ shown' = shown
  BY DEF SymbolsLoaded
<1>1. UNCHANGED <<ready, supported, stored, selected, range, query, shown, unheard, link, now, since, state>>
  BY DEF LoadLeaves, link, session
<1>2. l.opening \in {"no", "ready", "message"} /\ l.then \in {"sync", "refresh"}
  BY DEF HexInv, HexTypeOK
<1>3. HexRequests' = HexRequests /\ Connected' = Connected
  BY <1>1 DEF HexRequests, Fresh, Connected
<1>4. CASE SyncGoesOn(l)
  <2> DEFINE refresh == range # None /\ visible
             goes == l.opening = "ready" /\ ~refresh /\ navigation # None
             top_ == IF SpaceOf(page) = selected THEN page ELSE TopOf(selected)
  <2>1. top_ \in Ranges /\ (goes => navigation \in Ranges)
    BY TopIsARange DEF HexInv, HexTypeOK
  <2>2. /\ page' = IF goes THEN navigation ELSE top_
        /\ inbox' = inbox \o Asks(top_, FALSE)
                          \o (IF goes THEN <<Says("persist", navigation)>> \o Asks(navigation, FALSE) ELSE <<>>)
        /\ navigation' = IF goes THEN None ELSE navigation
        /\ status' = state /\ empty' = FALSE
        /\ timer' = (state = "running" /\ visible)
        /\ pending' = None
        /\ loads' = (loads \ {l}) \cup (IF refresh THEN {Load("refresh", l.opening)} ELSE {})
        /\ Connected /\ UNCHANGED <<active, wire>>
    BY <1>4 DEF SyncGoesOn
  <2> DEFINE also == IF goes THEN <<Says("persist", navigation)>> \o Asks(navigation, FALSE) ELSE <<>>
  <2> HIDE DEF top_, goes
  <2>3. Asks(top_, FALSE) \in Seq(HexMessages)
    BY <2>1, HexSays DEF Asks
  <2>4. also \in Seq(HexMessages)
    <3>1. CASE goes
      <4>1. <<Says("persist", navigation)>> \in Seq(HexMessages) /\ Asks(navigation, FALSE) \in Seq(HexMessages)
        BY <2>1, <3>1, HexSays DEF Asks
      <4>2. <<Says("persist", navigation)>> \o Asks(navigation, FALSE) \in Seq(HexMessages)
        BY <4>1, ConcatProperties
      <4> QED
        BY <3>1, <4>2
    <3>2. CASE ~goes
      BY <3>2, EmptySeq
    <3> QED
      BY <3>1, <3>2
  <2>5. inbox' \in Seq(HexMessages)
    <3>1. inbox' = (inbox \o Asks(top_, FALSE)) \o also
      BY <2>2
    <3> HIDE DEF also
    <3> QED
      BY <2>3, <2>4, <3>1, ConcatProperties DEF HexInv
  <2>6. page' \in Ranges /\ navigation' \in Ranges \cup {None}
    BY <2>1, <2>2 DEF HexInv, HexTypeOK
  <2>7. loads' \subseteq [then : {"sync", "refresh"}, opening : {"no", "ready", "message"}]
    BY <1>2, <2>2 DEF HexInv, HexTypeOK, Load
  <2>8. status' \in Kinds /\ timer' \in BOOLEAN
    BY <2>2 DEF LinkOK, Kinds, Connected
  <2>9. HexTypeOK'
    BY <1>1, <2>2, <2>6, <2>7, <2>8 DEF HexInv, HexTypeOK
  <2> QED
    BY <1>1, <1>3, <2>2, <2>5, <2>8, <2>9 DEF HexInv, HexParts, LinkOK
<1>5. CASE SyncIsOver(l)
  <2>1. page' \in Ranges /\ inbox' \in Seq(HexMessages) /\ navigation' \in Ranges \cup {None}
    BY <1>5, HexNavigates DEF SyncIsOver
  <2> QED
    BY <1>1, <1>3, <1>5, <2>1 DEF SyncIsOver, HexInv, HexTypeOK, HexParts, LinkOK
<1>6. CASE RefreshGoesOn(l)
  <2>1. page' \in Ranges /\ inbox' \in Seq(HexMessages) /\ navigation' \in Ranges \cup {None}
    BY <1>6, HexNavigates DEF RefreshGoesOn
  <2>2. range \in Ranges \cup {None}
    BY DEF HexInv, HexTypeOK
  <2>3. ReadRange(range, l.opening) /\ loads' = loads \ {l} /\ UNCHANGED <<empty, status, timer>>
    BY <1>6 DEF RefreshGoesOn
  <2>4. /\ wire' \in Seq(HexRequests) /\ (~Connected => wire' = <<>>)
        /\ active' \in BOOLEAN /\ pending' \in Ranges \cup {None}
    BY <1>2, <2>2, <2>3, HexReads
  <2> QED
    BY <1>1, <1>3, <2>1, <2>3, <2>4 DEF HexInv, HexTypeOK, HexParts, LinkOK
<1> QED
  BY <1>1, <1>4, <1>5, <1>6 DEF LoadEnds

LEMMA HexUserSays == LinkOK /\ HexInv /\ (Scroll \/ SelectSpace \/ EditOrQuery \/ QueryFires \/ RevealSymbol)
                        => HexParts' /\ shown' = shown
<1> SUFFICES ASSUME LinkOK, HexInv, Scroll \/ SelectSpace \/ EditOrQuery \/ QueryFires \/ RevealSymbol
             PROVE  HexParts' /\ shown' = shown
  OBVIOUS
<1>1. UNCHANGED <<ready, supported, stored, range, pending, active, timer, loads, wire, shown, status, unheard, empty, now, since, state>>
  BY DEF Scroll, SelectSpace, EditOrQuery, QueryFires, RevealSymbol, host, session, link
<1>2. HexRequests' = HexRequests /\ Connected' = Connected
  BY <1>1 DEF HexRequests, Fresh, Connected
<1>3. empty \in BOOLEAN /\ inbox \in Seq(HexMessages)
  BY DEF HexInv, HexTypeOK
<1>4. page' \in Ranges /\ inbox' \in Seq(HexMessages)
  <2>1. CASE Scroll
    BY <1>3, <2>1, HexSays DEF Scroll, Asks
  <2>2. CASE SelectSpace
    <3>1. PICK s \in Spaces :
            /\ page' = TopOf(s)
            /\ inbox' = inbox \o <<Says("selectSpace", TopOf(s)), Says("persist", TopOf(s))>> \o Asks(page', empty)
      BY <2>2 DEF SelectSpace
    <3>2. TopOf(s) \in Ranges
      BY TopIsARange
    <3>3. <<Says("selectSpace", TopOf(s)), Says("persist", TopOf(s))>> \in Seq(HexMessages)
          /\ Asks(TopOf(s), empty) \in Seq(HexMessages)
      BY <1>3, <3>2, HexSays DEF Asks
    <3> QED
      BY <1>3, <3>1, <3>2, <3>3
  <2>3. CASE EditOrQuery
    <3>1. page \in Ranges
      BY DEF HexInv, HexTypeOK
    <3> QED
      BY <1>3, <2>3, <3>1, HexSays DEF EditOrQuery, Asks
  <2>4. CASE \E r \in Ranges : GoTo(r)
    BY <2>4, HexGoesTo
  <2>5. CASE UNCHANGED <<page, inbox>>
    BY <2>5 DEF HexInv, HexTypeOK
  <2> QED
    BY <2>1, <2>2, <2>3, <2>4, <2>5 DEF QueryFires, Queried, RevealSymbol
<1>5. selected' \in Spaces /\ query' \in BOOLEAN /\ navigation' \in Ranges \cup {None}
  <2>1. CASE Scroll \/ SelectSpace \/ EditOrQuery
    BY <2>1 DEF Scroll, SelectSpace, EditOrQuery, host, HexInv, HexTypeOK
  <2>2. CASE QueryFires
    BY <2>2 DEF QueryFires, HexInv, HexTypeOK
  <2>3. CASE RevealSymbol
    BY <2>3, SpacesOfRanges DEF RevealSymbol, HexInv, HexTypeOK
  <2> QED
    BY <2>1, <2>2, <2>3
<1> QED
  BY <1>1, <1>2, <1>4, <1>5 DEF HexInv, HexTypeOK, HexParts, LinkOK

LEMMA HexEditsAndReads == LinkOK /\ HexInv /\ (HexPoll \/ HexExecute) => HexParts' /\ shown' = shown
<1> SUFFICES ASSUME LinkOK, HexInv, HexPoll \/ HexExecute PROVE HexParts' /\ shown' = shown
  OBVIOUS
<1>1. UNCHANGED <<ready, supported, stored, selected, range, pending, active, timer, query, navigation, page, empty, shown,
                  inbox, status, unheard, link, now, since, state>>
  BY DEF HexPoll, HexExecute, host, webview, link, session
<1>2. HexRequests' = HexRequests /\ Connected' = Connected
  BY <1>1 DEF HexRequests, Fresh, Connected
<1>3. wire' \in Seq(HexRequests) /\ (~Connected => wire' = <<>>)
  <2>1. CASE HexPoll
    BY <2>1 DEF HexPoll, HexInv, LinkOK
  <2>2. CASE HexExecute
    <3>1. /\ wire # <<>> /\ wire' = [wire EXCEPT ![1].value = now]
          /\ Connected
      BY <2>2 DEF HexExecute, Execute, Waits, LinkOK
    <3>2. wire[1] \in HexRequests /\ 1 \in 1..Len(wire)
      BY <3>1 DEF HexInv
    <3>3. [wire[1] EXCEPT !.value = now] \in HexRequests
      BY <3>1, <3>2 DEF HexRequests, Fresh, LinkOK
    <3>4. wire' = [wire EXCEPT ![1] = [wire[1] EXCEPT !.value = now]]
      BY <3>1
    <3> QED
      BY <3>1, <3>2, <3>3, <3>4, ExceptSeq DEF HexInv
  <2> QED
    BY <2>1, <2>2
<1>4. loads' \subseteq [then : {"sync", "refresh"}, opening : {"no", "ready", "message"}]
  BY DEF HexPoll, HexExecute, host, HexInv, HexTypeOK, Load
<1> QED
  BY <1>1, <1>2, <1>3, <1>4 DEF HexInv, HexTypeOK, HexParts, LinkOK

\* A read that ends is followed by the one that waits for it.
LEMMA HexReadEnds ==
  ASSUME LinkOK, HexInv, wire # <<>>, ReadEnds
  PROVE  /\ wire' \in Seq(HexRequests) /\ (~Connected => wire' = <<>>)
         /\ active' \in BOOLEAN /\ pending' \in Ranges \cup {None}
<1>1. Connected /\ Tail(wire) \in Seq(HexRequests)
  BY DEF LinkOK, HexInv
<1>2. Request("read", pending, "no") \in HexRequests
  BY DEF Request, HexRequests, Fresh, LinkOK, HexInv, HexTypeOK
<1>3. Append(Tail(wire), Request("read", pending, "no")) \in Seq(HexRequests)
  BY <1>1, <1>2, AppendProperties
<1> QED
  BY <1>1, <1>3 DEF ReadEnds, HexInv, HexTypeOK, LinkOK

LEMMA HexReadFails == LinkOK /\ HexInv /\ HexFails => HexParts' /\ shown' = shown
<1> SUFFICES ASSUME LinkOK, HexInv, HexFails PROVE HexParts' /\ shown' = shown
  OBVIOUS
<1>1. UNCHANGED <<ready, supported, stored, selected, range, timer, query, navigation, loads,
                  now, since, state, inbox, page, empty, shown>> /\ wire # <<>>
  BY DEF HexFails, session, Waits
<1>2. HexRequests' = HexRequests /\ Connected' = Connected
  BY <1>1 DEF HexRequests, Fresh, Connected
<1>3. /\ wire' \in Seq(HexRequests) /\ (~Connected => wire' = <<>>)
      /\ active' \in BOOLEAN /\ pending' \in Ranges \cup {None} /\ status' \in Kinds
  <2>1. CASE ReadEnds /\ status' = IF Head(wire).tag = "no" THEN status ELSE "error"
    BY <1>1, <2>1, HexReadEnds DEF LinkOK, Kinds
  <2>2. CASE wire' = Tail(wire) /\ UNCHANGED <<active, pending, status>>
    BY <1>1, <2>2 DEF LinkOK, HexInv, HexTypeOK
  <2> QED
    BY <2>1, <2>2 DEF HexFails
<1>4. unheard' \in BOOLEAN
  BY DEF HexFails, LinkOK
<1> QED
  BY <1>1, <1>2, <1>3, <1>4 DEF HexInv, HexTypeOK, HexParts

LEMMA HexAnswered == LinkOK /\ HexInv /\ HexReceive => LinkOK' /\ HexInv'
<1> SUFFICES ASSUME LinkOK, HexInv, HexReceive PROVE LinkOK' /\ HexInv'
  OBVIOUS
<1> DEFINE r == Head(wire)
<1>1. UNCHANGED <<ready, supported, stored, selected, range, timer, query, loads, empty, status, link, now, since, state>> /\ wire # <<>>
  BY DEF HexReceive, link, session, Arrived
<1>2. r \in HexRequests /\ r.value # 0 /\ Connected
  BY <1>1 DEF HexReceive, Arrived, HexInv, LinkOK
<1>3. HexRequests' = HexRequests /\ Connected' = Connected
  BY <1>1 DEF HexRequests, Fresh, Connected
<1>4. shown' = shown \/ (r.arg # None /\ shown' = [shown EXCEPT ![r.arg] = r.value])
  BY DEF HexReceive
<1>5. shown' \in [Ranges -> 0..now] /\ HexIsCurrent'
  <2>1. CASE shown' = shown
    BY <1>1, <1>3, <2>1 DEF HexInv, HexTypeOK, HexIsCurrent
  <2>2. CASE r.arg # None /\ shown' = [shown EXCEPT ![r.arg] = r.value]
    <3>1. r.arg \in Ranges /\ r.value \in 0..now /\ r.value >= since
      BY <1>2, <2>2 DEF HexRequests, Fresh
    <3>2. \A q \in Ranges : shown'[q] = shown[q] \/ shown'[q] = r.value
      BY <2>2, <3>1 DEF HexInv, HexTypeOK
    <3> QED
      BY <1>1, <1>2, <1>3, <2>2, <3>1, <3>2 DEF HexInv, HexTypeOK, HexIsCurrent
  <2> QED
    BY <1>4, <2>1, <2>2
<1>6. /\ wire' \in Seq(HexRequests) /\ (~Connected => wire' = <<>>)
      /\ active' \in BOOLEAN /\ pending' \in Ranges \cup {None} /\ unheard' \in BOOLEAN
      /\ page' \in Ranges /\ inbox' \in Seq(HexMessages) /\ navigation' \in Ranges \cup {None}
  <2>1. CASE ReadEnds /\ unheard' = FALSE /\ NavigateAfter(r.tag)
    BY <1>1, <2>1, HexReadEnds, HexNavigates
  <2>2. CASE wire' = Tail(wire) /\ UNCHANGED <<active, pending, navigation, page, inbox, shown, unheard>>
    BY <1>1, <1>2, <2>2 DEF HexInv, HexTypeOK, LinkOK
  <2> QED
    BY <2>1, <2>2 DEF HexReceive
<1>7. LinkOK'
  BY <1>1, <1>3, <1>6, SessionMoves DEF LinkOK
<1>8. HexTypeOK'
  BY <1>1, <1>5, <1>6 DEF HexInv, HexTypeOK
<1> QED
  BY <1>3, <1>5, <1>6, <1>7, <1>8 DEF HexInv

\* What the host makes of a message.
LEMMA HexHears == LinkOK /\ HexInv /\ HexMessage => LinkOK' /\ HexInv'
<1> SUFFICES ASSUME LinkOK, HexInv, HexMessage PROVE LinkOK' /\ HexInv'
  OBVIOUS
<1> DEFINE m == Head(inbox)
<1>1. UNCHANGED <<link, view, visible, now, since, state>> /\ inbox # <<>>
  BY DEF HexMessage, link, session
<1>2. m \in HexMessages /\ m.arg \in Ranges /\ Tail(inbox) \in Seq(HexMessages)
  <2>1. m \in HexMessages /\ Tail(inbox) \in Seq(HexMessages)
    BY <1>1 DEF HexInv
  <2> QED
    BY <2>1 DEF HexMessages
<1>3. HexRequests' = HexRequests /\ Connected' = Connected
  BY <1>1 DEF HexRequests, Fresh, Connected
<1>4. SpaceOf(m.arg) \in Spaces /\ TopOf(stored) \in Ranges /\ Main \in Spaces
  BY <1>2, SpacesOfRanges, TopIsARange DEF HexInv, HexTypeOK
<1>5. CASE OnReady
  <2>1. /\ inbox' = Tail(inbox) /\ page' = TopOf(stored) /\ ready' = TRUE
        /\ UNCHANGED <<stored, active, unheard, wire>>
    BY <1>5 DEF OnReady
  <2>2. CASE Reset /\ status' = "noSession" /\ state = "stopped"
    <3>1. /\ supported' = FALSE /\ timer' = FALSE /\ query' = FALSE /\ navigation' = None
          /\ pending' = None /\ range' = None /\ selected' = Main /\ empty' = TRUE
          /\ shown' = NothingShown /\ loads' = loads
      BY <2>2 DEF Reset
    <3>2. shown' \in [Ranges -> 0..now] /\ HexIsCurrent'
      BY <3>1, <1>1 DEF NothingShown, HexIsCurrent, LinkOK
    <3>3. HexTypeOK'
      BY <1>1, <1>4, <2>1, <3>1, <3>2 DEF HexInv, HexTypeOK
    <3>4. LinkOK'
      BY <1>1, <1>3, <2>1, <2>2, SessionMoves DEF LinkOK, Kinds
    <3> QED
      BY <1>2, <1>3, <2>1, <3>2, <3>3, <3>4 DEF HexInv
  <2>3. CASE /\ selected' = stored
             /\ supported' = (supported \/ visible)
             /\ loads' = IF visible THEN loads \cup {Load("sync", "ready")} ELSE loads
             /\ UNCHANGED <<timer, query, navigation, pending, range, empty, shown, status>>
    <3>1. loads' \subseteq [then : {"sync", "refresh"}, opening : {"no", "ready", "message"}]
      BY <2>3 DEF HexInv, HexTypeOK, Load
    <3>2. HexTypeOK'
      BY <1>1, <1>4, <2>1, <2>3, <3>1 DEF HexInv, HexTypeOK, LinkOK
    <3>3. HexParts'
      BY <1>2, <1>3, <2>1, <2>3, <3>2 DEF HexInv, HexParts, LinkOK
    <3> QED
      BY <1>1, <2>3, <3>3, HexWithinSession
  <2> QED
    BY <1>5, <2>2, <2>3 DEF OnReady
<1>6. CASE OnVisibleRange
  <2>1. /\ inbox' = Tail(inbox) /\ range' \in Ranges \cup {None}
        /\ UNCHANGED <<ready, supported, stored, selected, timer, query, navigation, loads>>
        /\ UNCHANGED <<page, empty, shown, unheard, status>>
    BY <1>2, <1>6 DEF OnVisibleRange, HexInv, HexTypeOK
  <2>2. /\ wire' \in Seq(HexRequests) /\ (~Connected => wire' = <<>>)
        /\ active' \in BOOLEAN /\ pending' \in Ranges \cup {None}
    <3>1. CASE UNCHANGED <<range, active, pending, wire>>
      BY <3>1 DEF HexInv, HexTypeOK, LinkOK
    <3>2. CASE ReadRange(range', "message")
      BY <2>1, <3>2, HexReads
    <3> QED
      BY <1>6, <3>1, <3>2 DEF OnVisibleRange
  <2>3. HexTypeOK'
    BY <1>1, <2>1, <2>2 DEF HexInv, HexTypeOK
  <2>4. HexParts'
    BY <1>2, <1>3, <2>1, <2>2, <2>3 DEF HexParts, LinkOK
  <2> QED
    BY <1>1, <2>1, <2>4, HexWithinSession
<1>7. CASE OnSelectSpace \/ OnPersist \/ OnQuery \/ OnEditByte
  <2>1. /\ inbox' = Tail(inbox) /\ UNCHANGED <<ready, active>>
        /\ UNCHANGED <<supported, pending, timer, navigation, loads, empty, shown, unheard, status, page>>
    BY <1>7 DEF OnSelectSpace, OnPersist, OnQuery, OnEditByte, Others
  <2>2. stored' \in Spaces /\ selected' \in Spaces /\ range' \in Ranges \cup {None} /\ query' \in BOOLEAN
    BY <1>4, <1>7 DEF OnSelectSpace, OnPersist, OnQuery, OnEditByte, Others, HexInv, HexTypeOK
  <2>3. wire' \in Seq(HexRequests) /\ (~Connected => wire' = <<>>)
    <3>1. CASE wire' = wire
      BY <3>1 DEF HexInv, LinkOK
    <3>2. CASE Connected /\ wire' = Append(wire, Request("edit", m.arg, "edit"))
      <4>1. Request("edit", m.arg, "edit") \in HexRequests
        BY <1>2 DEF Request, HexRequests, Fresh, LinkOK
      <4> QED
        BY <3>2, <4>1, AppendProperties DEF HexInv
    <3> QED
      BY <1>7, <3>1, <3>2 DEF OnSelectSpace, OnPersist, OnQuery, OnEditByte
  <2>4. HexTypeOK'
    BY <1>1, <2>1, <2>2 DEF HexInv, HexTypeOK
  <2>5. HexParts'
    BY <1>2, <1>3, <2>1, <2>3, <2>4 DEF HexParts, LinkOK
  <2> QED
    BY <1>1, <2>1, <2>5, HexWithinSession
<1> QED
  BY <1>5, <1>6, <1>7 DEF HexMessage

\* The end of a session empties the panel, and its other changes leave what is shown.
LEMMA HexFollows == LinkOK /\ HexInv /\ (HexStateChange \/ HexShownOrHidden) => LinkOK' /\ HexInv'
<1> SUFFICES ASSUME LinkOK, HexInv, HexStateChange \/ HexShownOrHidden PROVE LinkOK' /\ HexInv'
  OBVIOUS
<1>1. UNCHANGED <<ready, stored, inbox, page, unheard>> /\ (StateChange \/ ShownOrHidden)
  BY DEF HexStateChange, HexShownOrHidden
<1>2. /\ view' \in Views /\ state' \in {"stopped", "connected", "running"} /\ visible' \in BOOLEAN
      /\ now' \in Nat /\ since' \in 0..now' /\ events' \in 0..MaxEvents[view]'
      /\ (Connected' => since' # 0) /\ now <= now'
  BY <1>1, SessionMoves
<1>3. CASE state' = "stopped"
  <2>1. wire' = <<>> /\ HexIsCurrent' /\ shown' \in [Ranges -> 0..now'] /\ status' \in Kinds
    <3>1. CASE Reset /\ status' \in {"error", "noSession"}
      <4>1. wire' = <<>>
        BY <1>3, <3>1 DEF HexStateChange, HexShownOrHidden, ShownOrHidden, LinkOK, Connected
      <4>2. shown' = NothingShown
        BY <3>1 DEF Reset
      <4> QED
        BY <1>2, <3>1, <4>1, <4>2 DEF NothingShown, HexIsCurrent, Kinds
    <3>2. CASE HexShownOrHidden /\ UNCHANGED <<shown, status, wire, now, since, state>>
      BY <1>3, <3>2 DEF HexInv, HexTypeOK, HexIsCurrent, LinkOK, Connected
    <3> QED
      BY <1>3, <3>1, <3>2 DEF HexStateChange, HexShownOrHidden, ShownOrHidden, SyncSession
  <2>2. /\ {supported', active', timer', query', empty'} \subseteq BOOLEAN /\ selected' \in Spaces
        /\ {range', pending', navigation'} \subseteq Ranges \cup {None} /\ loads' = loads
    <3>1. CASE Reset
      BY <1>3, <3>1, SpacesOfRanges DEF Reset, HexStateChange, HexShownOrHidden, HexInv, HexTypeOK
    <3>2. CASE HexShownOrHidden /\ ~Reset
      BY <1>3, <3>2 DEF HexShownOrHidden, SyncSession, HexInv, HexTypeOK
    <3> QED
      BY <1>3, <3>1, <3>2 DEF HexStateChange, SyncSession
  <2>3. HexTypeOK'
    BY <1>1, <2>1, <2>2 DEF HexInv, HexTypeOK
  <2>4. LinkOK'
    BY <1>1, <1>2, <2>1 DEF LinkOK
  <2>5. wire' \in Seq(HexRequests') /\ inbox' \in Seq(HexMessages)
    BY <1>1, <2>1, EmptySeq DEF HexInv
  <2> QED
    BY <2>1, <2>3, <2>4, <2>5 DEF HexInv
<1>4. CASE state' # "stopped"
  <2>1. /\ UNCHANGED <<status, wire, active, shown, empty, range, selected, query, navigation>>
        /\ pending' \in {pending, None} /\ supported' \in BOOLEAN /\ timer' \in BOOLEAN
        /\ loads' \subseteq loads \cup {Load("sync", "no")}
    <3>1. CASE HexStateChange
      BY <1>2, <1>4, <3>1 DEF HexStateChange, SyncSession, SyncUnchanged, HexInv, HexTypeOK
    <3>2. CASE HexShownOrHidden
      BY <1>2, <1>4, <3>2 DEF HexShownOrHidden, SyncSession, SyncUnchanged, HexInv, HexTypeOK
    <3> QED
      BY <3>1, <3>2
  <2>2. wire' \in Seq(HexRequests') /\ shown' \in [Ranges -> 0..now'] /\ HexIsCurrent' /\ Connected'
    <3>1. CASE StateChange
      <4>1. /\ wire \in Seq(HexRequests') /\ shown \in [Ranges -> 0..now']
            /\ \A r \in Ranges : shown[r] # 0 => Connected' /\ shown[r] >= since'
        BY <1>4, <3>1, HexStaysCurrent
      <4>2. wire' = wire /\ shown' = shown /\ Connected'
        BY <1>4, <2>1 DEF Connected
      <4> QED
        BY <4>1, <4>2 DEF HexIsCurrent
    <3>2. CASE UNCHANGED <<now, since, state>>
      <4>1. HexRequests' = HexRequests
        BY <3>2 DEF HexRequests, Fresh
      <4> QED
        BY <1>4, <2>1, <3>2, <4>1 DEF HexInv, HexTypeOK, HexIsCurrent, Connected
    <3> QED
      BY <1>1, <3>1, <3>2 DEF ShownOrHidden
  <2>3. loads' \subseteq [then : {"sync", "refresh"}, opening : {"no", "ready", "message"}]
    BY <2>1 DEF HexInv, HexTypeOK, Load
  <2>4. HexTypeOK'
    BY <1>1, <2>1, <2>2, <2>3 DEF HexInv, HexTypeOK
  <2>5. LinkOK'
    BY <1>1, <1>2, <2>1, <2>2 DEF LinkOK
  <2> QED
    BY <1>1, <2>2, <2>4, <2>5 DEF HexInv
<1> QED
  BY <1>3, <1>4

LEMMA HexStep == LinkOK /\ HexInv /\ HexNext => LinkOK' /\ HexInv'
<1> SUFFICES ASSUME LinkOK, HexInv, HexNext PROVE LinkOK' /\ HexInv'
  OBVIOUS
<1>1. CASE HexStateChange \/ HexShownOrHidden
  BY <1>1, HexFollows
<1>2. CASE SymbolsLoaded \/ Scroll \/ SelectSpace \/ EditOrQuery \/ QueryFires \/ RevealSymbol \/ HexPoll \/ HexExecute \/ HexFails
  <2>1. UNCHANGED link \/ (Event /\ UNCHANGED session)
    BY <1>2 DEF SymbolsLoaded, LoadLeaves, Scroll, SelectSpace, EditOrQuery, QueryFires, RevealSymbol, UserActs,
                HexPoll, HexExecute, HexFails
  <2>2. HexParts' /\ shown' = shown
    BY <1>2, HexLoadsEnd, HexUserSays, HexEditsAndReads, HexReadFails
  <2> QED
    BY <2>1, <2>2, HexWithinSession
<1>3. CASE HexReceive
  BY <1>3, HexAnswered
<1>4. CASE HexMessage
  BY <1>4, HexHears
<1> QED
  BY <1>1, <1>2, <1>3, <1>4 DEF HexNext

\* The viewer keeps still while another view is looked at.
LEMMA HexKeepsStill == LinkOK /\ HexIdle /\ UNCHANGED hexVars /\ now' \in Nat /\ now <= now' => HexIdle'
<1> SUFFICES ASSUME LinkOK, HexIdle, UNCHANGED hexVars, now' \in Nat, now <= now' PROVE HexIdle'
  OBVIOUS
<1>1. shown' \in [Ranges -> 0..now'] /\ shown' = shown
  BY DEF hexVars, HexIdle, HexTypeOK, LinkOK
<1> QED
  BY <1>1 DEF hexVars, HexIdle, HexTypeOK
--------------------------------------------------------------------------------
(***************************************************************************)
(* The trace log.                                                           *)
(***************************************************************************)
\* A result that rows may still name: that of now, if it has the number of now.
TraceRecords ==
    {f \in [gen : 0..generation, query : Queries, at : 0..now] : f.gen = generation => filter = f}
FilterRequests == {q \in [kind : {"filter"}, arg : Queries, tag : 0..generation, value : Nat] : Fresh(q.value)}
WindowRequests == [kind : {"window"}, arg : Blocks, tag : TraceRecords, value : 0..now]
TraceRequests == FilterRequests \cup WindowRequests
Actions == {a \in [gen : Nat, block : Blocks, seen : TraceRecords] : a.seen.gen = a.gen}
TraceMessages ==
    [type : {"ready"}, arg : Ranges] \cup [type : {"visibleRange"}, arg : [gen : Nat, row : Tops]]
      \cup [type : {"query"}, arg : Queries] \cup [type : {"action"}, arg : Actions]
HeldBlocks == [Blocks -> TraceRecords \cup {None}]

TraceData ==
    /\ wire \in Seq(TraceRequests) /\ inbox \in Seq(TraceMessages)
    /\ windows \in HeldBlocks /\ rows \in HeldBlocks /\ blocks \in HeldBlocks
    /\ preparing \subseteq Blocks \X TraceRecords

\* What is in force is of this session, what the host acts upon is of it, and the
\* webview shows one result.
OneResult ==
    /\ filter # None => filter.gen = generation /\ filter.at >= since /\ Connected
    /\ \A b \in Blocks : /\ rows[b] # None => visible /\ rows[b] = filter
                         /\ blocks[b] # None => blocks[b].gen = result

\* The request for the result that is being made.
IsLatest(i) == i \in DOMAIN wire /\ wire[i].kind = "filter" /\ wire[i].tag = generation
OneLatest ==
    /\ \A i \in DOMAIN wire : IsLatest(i) => filter = None
    /\ \A i, j \in DOMAIN wire : IsLatest(i) /\ IsLatest(j) => i = j

TraceInv == TraceTypeOK /\ TraceIsCurrent /\ TraceData /\ OneResult /\ OneLatest
TraceIdle == TraceTypeOK /\ filter = None /\ blocks = NoBlocks

LEMMA RowsHaveBlocks ==
  ASSUME NEW t \in Tops, NEW r \in t..t + Lines
  PROVE  Block(r) \in Blocks
<1> DEFINE last == CHOOSE u \in Tops : \A v \in Tops : v <= u
<1>1. last \in Tops /\ \A v \in Tops : v <= last
  BY TraceAssumption
<1> HIDE DEF last
<1>2. BlockSize \in Nat \ {0} /\ Lines \in Nat \ {0} /\ last \in Nat /\ t \in Nat /\ r \in Nat /\ r <= last + Lines
  BY <1>1, TraceAssumption
<1> DEFINE end == last + Lines
<1>3. end \in Nat /\ r <= end
  BY <1>2
<1> HIDE DEF end
<1> DEFINE q == r \div BlockSize
           p == end \div BlockSize
<1>4. q \in Nat /\ p \in Nat /\ BlockSize * q <= r /\ end < BlockSize * (p + 1)
  BY <1>2, <1>3
<1> HIDE DEF q, p
<1>5. q <= p
  <2>1. CASE q >= p + 1
    <3>1. PICK d \in Nat : q = (p + 1) + d
      <4>1. q - (p + 1) \in Nat /\ q = (p + 1) + (q - (p + 1))
        BY <1>4, <2>1
      <4> QED
        BY <4>1
    <3>2. BlockSize * q = BlockSize * (p + 1) + BlockSize * d
      BY <1>2, <1>4, <3>1
    <3>3. BlockSize * d >= 0 /\ BlockSize * d \in Nat /\ BlockSize * (p + 1) \in Nat /\ BlockSize * q \in Nat
      BY <1>2, <1>4, <3>1
    <3>4. BlockSize * q >= BlockSize * (p + 1)
      BY <3>2, <3>3
    <3> QED
      BY <1>2, <1>3, <1>4, <3>3, <3>4
  <2> QED
    BY <1>4, <2>1
<1>6. Blocks = 0..p /\ Block(r) = q
  BY DEF Blocks, Block, q, p, end, last
<1> QED
  BY <1>4, <1>5, <1>6

LEMMA TrimmedBlocks ==
  ASSUME NEW held, NEW at, NEW b \in Blocks
  PROVE  Trim(held, at)[b] \in {held[b], None}
BY DEF Trim

\* A record stays one as time goes on, and when a new result is asked for.
LEMMA RecordsStay ==
  ASSUME LinkOK, TraceInv, now' \in Nat, now <= now',
         (generation' = generation /\ filter' = filter) \/ generation' = generation + 1
  PROVE  /\ TraceRecords \subseteq TraceRecords' /\ Actions \subseteq Actions'
         /\ TraceMessages \subseteq TraceMessages' /\ HeldBlocks \subseteq HeldBlocks'
         /\ WindowRequests \subseteq WindowRequests'
         /\ since' = since => FilterRequests \subseteq FilterRequests' /\ TraceRequests \subseteq TraceRequests'
<1>1. generation \in Nat /\ now \in Nat
  BY DEF TraceInv, TraceTypeOK, LinkOK
<1>2. TraceRecords \subseteq TraceRecords'
  BY <1>1 DEF TraceRecords
<1>3. Actions \subseteq Actions'
  BY <1>2 DEF Actions
<1>4. TraceMessages \subseteq TraceMessages'
  BY <1>3 DEF TraceMessages
<1>5. HeldBlocks \subseteq HeldBlocks'
  BY <1>2 DEF HeldBlocks
<1>6. WindowRequests \subseteq WindowRequests'
  BY <1>1, <1>2 DEF WindowRequests
<1>7. since' = since => FilterRequests \subseteq FilterRequests'
  BY <1>1 DEF FilterRequests, Fresh
<1> QED
  BY <1>2, <1>3, <1>4, <1>5, <1>6, <1>7 DEF TraceRequests

PanelOK == {opened, syncing, asking} \subseteq BOOLEAN /\ kept \in Queries /\ typed \in Queries \cup {None}

\* A step that makes a new result: nothing on its way is of it, but the request for it.
LEMMA TraceStartsOver ==
  ASSUME LinkOK, TraceInv, PanelOK', UNCHANGED <<now, since, preparing, top>>, inbox' \in Seq(TraceMessages),
         generation' = generation + 1, filter' = None, windows' = NoBlocks, requested' = {}, rows' = NoBlocks,
         UNCHANGED <<blocks, result>> \/ (blocks' = NoBlocks /\ result' = 0),
         Connected' = Connected \/ (blocks' = NoBlocks /\ wire' = <<>>),
         \/ wire' \in {wire, <<>>}
         \/ \E q \in Queries : wire' = Append(wire, Request("filter", q, generation')) /\ Connected'
  PROVE  TraceInv' /\ (~Connected' => wire' = <<>>)
<1>1. /\ TraceRecords \subseteq TraceRecords' /\ TraceMessages \subseteq TraceMessages'
      /\ HeldBlocks \subseteq HeldBlocks' /\ TraceRequests \subseteq TraceRequests'
  BY RecordsStay DEF LinkOK
<1>2. generation \in Nat /\ NoBlocks \in HeldBlocks /\ \A b \in Blocks : NoBlocks[b] = None
  BY DEF TraceInv, TraceTypeOK, NoBlocks, HeldBlocks
<1>3. TraceTypeOK'
  BY <1>2 DEF TraceInv, TraceTypeOK, PanelOK
<1>4. TraceIsCurrent'
  BY <1>2 DEF TraceInv, TraceIsCurrent
<1>5. OneResult'
  BY <1>2 DEF TraceInv, OneResult
<1>6. wire' \in Seq(TraceRequests') /\ OneLatest' /\ (~Connected' => wire' = <<>>)
  <2>1. wire \in Seq(TraceRequests) /\ \A i \in DOMAIN wire : wire[i].kind = "filter" => wire[i].tag # generation'
    <3>1. wire \in Seq(TraceRequests) /\ \A i \in DOMAIN wire : wire[i] \in TraceRequests
      BY DEF TraceInv, TraceData
    <3>2. \A q \in TraceRequests : q.kind = "filter" => q.tag \in 0..generation
      BY DEF TraceRequests, FilterRequests, WindowRequests
    <3> QED
      BY <1>2, <3>1, <3>2
  <2>2. wire \in Seq(TraceRequests') /\ <<>> \in Seq(TraceRequests')
    BY <1>1, <2>1, EmptySeq
  <2>3. CASE wire' \in {wire, <<>>}
    <3>1. \A i \in DOMAIN wire' : ~IsLatest(i)'
      BY <2>1, <2>3 DEF IsLatest
    <3> QED
      BY <2>2, <2>3, <3>1 DEF OneLatest, IsLatest, LinkOK
  <2>4. CASE \E q \in Queries : wire' = Append(wire, Request("filter", q, generation')) /\ Connected'
    <3>1. PICK q \in Queries : wire' = Append(wire, Request("filter", q, generation')) /\ Connected'
      BY <2>4
    <3>2. Request("filter", q, generation') \in TraceRequests'
      BY <1>2 DEF Request, TraceRequests, FilterRequests, Fresh, LinkOK
    <3>3. /\ wire' \in Seq(TraceRequests') /\ Len(wire') = Len(wire) + 1
          /\ \A i \in 1..Len(wire) : wire'[i] = wire[i]
      BY <2>2, <3>1, <3>2, AppendProperties
    <3>4. \A i \in DOMAIN wire' : IsLatest(i)' => i = Len(wire) + 1
      <4>1. \A i \in DOMAIN wire' : i \in DOMAIN wire \/ i = Len(wire) + 1
        BY <2>1, <3>3
      <4> QED
        BY <2>1, <3>3, <4>1 DEF IsLatest
    <3> QED
      BY <3>1, <3>3, <3>4 DEF OneLatest
  <2> QED
    BY <2>3, <2>4
<1>7. TraceData'
  BY <1>1, <1>2, <1>6 DEF TraceInv, TraceData
<1> QED
  BY <1>3, <1>4, <1>5, <1>6, <1>7 DEF TraceInv

\* A step that leaves the result in force and what is on its way.
LEMMA TraceGoesOn ==
  ASSUME LinkOK, TraceInv, PanelOK', now' \in Nat, now <= now', since' = since \/ ~Connected, Connected => Connected',
         visible => visible', UNCHANGED <<service, preparing, rows, blocks, result, wire>>,
         top' \in Tops, inbox' \in Seq(TraceMessages')
  PROVE  TraceInv' /\ (~Connected' => wire' = <<>>)
<1>1. UNCHANGED <<generation, filter, windows, requested, preparing, rows, blocks, result, wire>>
  BY DEF service
<1>2. /\ TraceRecords \subseteq TraceRecords' /\ HeldBlocks \subseteq HeldBlocks'
      /\ since' = since => TraceRequests \subseteq TraceRequests'
  BY <1>1, RecordsStay
<1>3. ~Connected => wire = <<>> /\ filter = None /\ \A b \in Blocks : rows[b] = None /\ blocks[b] = None
  BY DEF LinkOK, TraceInv, OneResult, TraceIsCurrent
<1>4. TraceTypeOK'
  BY <1>1 DEF TraceInv, TraceTypeOK, PanelOK, LinkOK
<1>5. TraceIsCurrent'
  BY <1>1, <1>3 DEF TraceInv, TraceIsCurrent
<1>6. OneResult'
  BY <1>1, <1>3 DEF TraceInv, OneResult
<1>7. OneLatest'
  BY <1>1 DEF TraceInv, OneLatest, IsLatest
<1>8. wire' \in Seq(TraceRequests')
  BY <1>1, <1>2, <1>3, EmptySeq DEF TraceInv, TraceData
<1>9. TraceData'
  BY <1>1, <1>2, <1>8 DEF TraceInv, TraceData
<1> QED
  BY <1>1, <1>3, <1>4, <1>5, <1>6, <1>7, <1>9 DEF TraceInv

\* What a session or the panel does to the log: syncSession.
LEMMA TraceSyncs ==
  ASSUME LinkOK, TraceInv, StateChange \/ ShownOrHidden \/ UNCHANGED link, SyncTrace, visible => visible',
         wire' = IF state' = "stopped" THEN <<>> ELSE wire,
         opened' \in BOOLEAN, UNCHANGED <<kept, preparing, unheard>>, inbox' \in Seq(TraceMessages)
  PROVE  LinkOK' /\ TraceInv'
<1>1. /\ view' \in Views /\ state' \in {"stopped", "connected", "running"} /\ visible' \in BOOLEAN
      /\ now' \in Nat /\ since' \in 0..now' /\ events' \in 0..MaxEvents[view]'
      /\ (Connected' => since' # 0) /\ now <= now' /\ (Connected /\ Connected' => since' = since)
  BY SessionMoves
<1>2. state' # "connected" => UNCHANGED <<now, since>> /\ (Connected' = Connected \/ state' = "stopped")
  BY DEF StateChange, SessionOpens, SessionLost, Runs, Stops, ShownOrHidden, link, session, Connected
<1>3. status' \in Kinds /\ unheard' \in BOOLEAN
  BY DEF SyncTrace, Clear, LinkOK, Kinds
<1>4. /\ syncing \in BOOLEAN /\ asking \in BOOLEAN /\ kept \in Queries /\ typed \in Queries \cup {None}
      /\ top \in Tops
  BY DEF TraceInv, TraceTypeOK
<1>5. CASE state' # "connected" /\ Clear(IF state' = "stopped" THEN "noSession" ELSE "running")
  <2>1. /\ generation' = generation + 1 /\ filter' = None /\ windows' = NoBlocks /\ requested' = {}
        /\ rows' = NoBlocks /\ blocks' = NoBlocks /\ result' = 0 /\ syncing' = FALSE /\ typed' = None
        /\ asking' = FALSE /\ top' = top
    BY <1>5 DEF Clear, Invalidate, ResetResult
  <2>2. PanelOK'
    BY <1>4, <2>1 DEF PanelOK
  <2>3. UNCHANGED <<now, since, preparing, top>> /\ (Connected' = Connected \/ (blocks' = NoBlocks /\ wire' = <<>>))
        /\ wire' \in {wire, <<>>}
    BY <1>2, <1>5, <2>1
  <2>4. TraceInv' /\ (~Connected' => wire' = <<>>)
    BY <2>1, <2>2, <2>3, TraceStartsOver
  <2> QED
    BY <1>1, <1>3, <2>4 DEF LinkOK
<1>6. CASE state' = "running" /\ ~visible' /\ Invalidate /\ UNCHANGED <<syncing, typed, rows, browser, status>>
  <2>1. /\ generation' = generation + 1 /\ filter' = None /\ windows' = NoBlocks /\ requested' = {}
        /\ UNCHANGED <<syncing, typed, asking, top, blocks, result, rows, status>>
    BY <1>6 DEF Invalidate, browser
  <2>2. rows' = NoBlocks
    BY <1>6, <2>1 DEF TraceInv, TraceData, OneResult, HeldBlocks, NoBlocks
  <2>3. PanelOK'
    BY <1>4, <2>1 DEF PanelOK
  <2>4. UNCHANGED <<now, since, preparing, top>> /\ Connected' = Connected /\ wire' \in {wire, <<>>}
    BY <1>2, <1>6, <2>1
  <2>5. TraceInv' /\ (~Connected' => wire' = <<>>)
    BY <2>1, <2>2, <2>3, <2>4, TraceStartsOver
  <2> QED
    BY <1>1, <1>3, <2>5 DEF LinkOK
<1>7. CASE state' = "connected" /\ syncing' \in BOOLEAN /\ UNCHANGED <<service, typed, rows, browser, status>>
  <2>1. UNCHANGED <<service, rows, blocks, result, wire, typed, asking, top, status, preparing>>
    BY <1>7 DEF browser
  <2>2. PanelOK'
    BY <1>4, <1>7, <2>1 DEF PanelOK
  <2>3. Connected' /\ (since' = since \/ ~Connected)
    BY <1>1, <1>7 DEF Connected
  <2>4. inbox' \in Seq(TraceMessages')
    <3>1. TraceMessages \subseteq TraceMessages'
      BY <1>1, <2>1, RecordsStay DEF service
    <3> QED
      BY <3>1
  <2>5. TraceInv' /\ (~Connected' => wire' = <<>>)
    BY <1>1, <1>4, <2>1, <2>2, <2>3, <2>4, TraceGoesOn
  <2> QED
    BY <1>1, <1>3, <2>5 DEF LinkOK
<1>8. \/ state' # "connected" /\ Clear(IF state' = "stopped" THEN "noSession" ELSE "running")
      \/ state' = "running" /\ ~visible' /\ Invalidate /\ UNCHANGED <<syncing, typed, rows, browser, status>>
      \/ state' = "connected" /\ syncing' \in BOOLEAN /\ UNCHANGED <<service, typed, rows, browser, status>>
  BY <1>1, <1>4 DEF SyncTrace
<1> QED
  BY <1>5, <1>6, <1>7, <1>8

\* applyQuery: the timer of the box, and the source context that has been loaded.
LEMMA TraceApplies ==
  ASSUME LinkOK, TraceInv, NEW q \in Queries, ApplyQuery(q), PanelOK',
         UNCHANGED <<preparing, browser, inbox, link, unheard>>
  PROVE  LinkOK' /\ TraceInv'
<1>1. UNCHANGED <<preparing, blocks, result, top, inbox, now, since, unheard>> /\ Connected' = Connected
  BY DEF browser, link, session, Connected
<1>2. top \in Tops /\ inbox \in Seq(TraceMessages)
  BY DEF TraceInv, TraceTypeOK, TraceData
<1>3. status' \in Kinds
  BY DEF ApplyQuery, LinkOK, Kinds
<1>4. TraceInv' /\ (~Connected' => wire' = <<>>)
  <2>1. CASE UNCHANGED <<service, rows, status, wire>>
    <3>1. inbox' \in Seq(TraceMessages')
      <4>1. TraceMessages \subseteq TraceMessages'
        BY <1>1, <2>1, RecordsStay DEF service, LinkOK
      <4> QED
        BY <1>1, <1>2, <4>1
    <3>2. now' \in Nat /\ now <= now' /\ visible' = visible
      BY <1>1 DEF LinkOK, link, session
    <3> QED
      BY <1>1, <1>2, <2>1, <3>1, <3>2, TraceGoesOn
  <2>2. CASE /\ Paused /\ rows' = NoBlocks /\ Invalidate
             /\ wire' = Append(wire, Request("filter", q, generation'))
    <3>1. /\ generation' = generation + 1 /\ filter' = None /\ windows' = NoBlocks /\ requested' = {}
          /\ Connected'
      BY <1>1, <2>2 DEF Invalidate, Paused, Connected
    <3> QED
      BY <1>1, <1>2, <2>2, <3>1, TraceStartsOver
  <2> QED
    BY <2>1, <2>2 DEF ApplyQuery
<1>5. LinkOK'
  BY <1>1, <1>3, <1>4, SessionMoves DEF LinkOK
<1> QED
  BY <1>4, <1>5

\* An answer is taken off the wire.
LEMMA TraceTail ==
  ASSUME TraceInv, wire # <<>>
  PROVE  /\ Tail(wire) \in Seq(TraceRequests) /\ Head(wire) = wire[1] /\ wire[1] \in TraceRequests
         /\ \A i \in DOMAIN Tail(wire) : i + 1 \in DOMAIN wire /\ i + 1 # 1 /\ Tail(wire)[i] = wire[i + 1]
BY DEF TraceInv, TraceData

LEMMA LatestInTail ==
  ASSUME TraceInv, wire # <<>>, wire' = Tail(wire), generation' = generation, filter' = filter
  PROVE  OneLatest'
<1>1. \A i \in DOMAIN wire' : IsLatest(i)' => IsLatest(i + 1) /\ i \in Int
  BY TraceTail DEF IsLatest, TraceInv, TraceData
<1>2. \A i, j \in DOMAIN wire' : IsLatest(i)' /\ IsLatest(j)' => i = j
  <2>1. \A i, j \in DOMAIN wire' : IsLatest(i)' /\ IsLatest(j)' => i + 1 = j + 1 /\ i \in Int /\ j \in Int
    BY <1>1 DEF TraceInv, OneLatest, IsLatest
  <2> QED
    BY <2>1
<1> QED
  BY <1>1, <1>2 DEF TraceInv, OneLatest, IsLatest

LEMMA TraceExecutes == LinkOK /\ TraceInv /\ TraceExecute /\ UNCHANGED unheard => LinkOK' /\ TraceInv'
<1> SUFFICES ASSUME LinkOK, TraceInv, TraceExecute, UNCHANGED unheard PROVE LinkOK' /\ TraceInv'
  OBVIOUS
<1>1. /\ UNCHANGED <<link, inbox, status, service, panel, browser>> /\ wire # <<>>
      /\ \/ Head(wire).kind = "filter" /\ wire' = [wire EXCEPT ![1].value = now]
         \/ Head(wire).kind = "window" /\ wire' = [wire EXCEPT ![1].value = Head(wire).tag.at]
  BY DEF TraceExecute, Execute, Waits, traceVars
<1>2. Connected
  BY <1>1 DEF LinkOK
<1>3. LinkOK' /\ UNCHANGED <<now, since, visible, state>> /\ Connected' = Connected
  BY <1>1, <1>2, WithinSession DEF LinkOK
<1>4. UNCHANGED <<generation, filter, windows, requested, opened, syncing, typed, kept, preparing, rows,
                  result, blocks, top, asking, lastRequest>>
  BY <1>1 DEF service, panel, browser
<1>5. TraceRecords' = TraceRecords
  BY <1>3, <1>4 DEF TraceRecords
<1>6. TraceRequests' = TraceRequests /\ TraceMessages' = TraceMessages /\ HeldBlocks' = HeldBlocks
  BY <1>3, <1>4, <1>5 DEF TraceRequests, FilterRequests, WindowRequests, Fresh, TraceMessages, Actions, HeldBlocks
<1>7. PICK v \in 0..now : wire' = [wire EXCEPT ![1] = [wire[1] EXCEPT !.value = v]] /\ [wire[1] EXCEPT !.value = v] \in TraceRequests
  <2>1. wire[1] \in TraceRequests /\ Head(wire) = wire[1]
    BY <1>1, TraceTail
  <2>2. CASE wire[1].kind = "filter" /\ wire' = [wire EXCEPT ![1].value = now]
    <3>1. wire[1] \in FilterRequests
      BY <2>1, <2>2 DEF TraceRequests, WindowRequests
    <3>2. [wire[1] EXCEPT !.value = now] \in FilterRequests
      BY <3>1 DEF FilterRequests, Fresh, LinkOK
    <3>3. now \in 0..now
      BY DEF LinkOK
    <3> QED
      BY <2>2, <3>2, <3>3 DEF TraceRequests
  <2>3. CASE wire[1].kind = "window" /\ wire' = [wire EXCEPT ![1].value = wire[1].tag.at]
    <3>1. wire[1] \in WindowRequests
      BY <2>1, <2>3 DEF TraceRequests, FilterRequests
    <3>2. wire[1].tag.at \in 0..now
      BY <3>1 DEF WindowRequests, TraceRecords
    <3>3. [wire[1] EXCEPT !.value = wire[1].tag.at] \in WindowRequests
      BY <3>1, <3>2 DEF WindowRequests
    <3> QED
      BY <2>3, <3>2, <3>3 DEF TraceRequests
  <2> QED
    BY <1>1, <2>1, <2>2, <2>3
<1>8. /\ wire' \in Seq(TraceRequests) /\ DOMAIN wire' = DOMAIN wire
      /\ \A i \in DOMAIN wire : wire'[i].kind = wire[i].kind /\ wire'[i].tag = wire[i].tag
  <2>1. wire \in Seq(TraceRequests) /\ 1 \in 1..Len(wire)
    BY <1>1 DEF TraceInv, TraceData
  <2>2. wire[1] \in TraceRequests
    BY <2>1
  <2>3. [wire[1] EXCEPT !.value = v].kind = wire[1].kind /\ [wire[1] EXCEPT !.value = v].tag = wire[1].tag
    BY <2>2 DEF TraceRequests, FilterRequests, WindowRequests
  <2> QED
    BY <1>7, <2>1, <2>3, ExceptSeq
<1>9. OneLatest'
  BY <1>4, <1>8 DEF TraceInv, OneLatest, IsLatest
<1>10. TraceData' /\ OneResult' /\ TraceIsCurrent'
  <2>1. TraceData'
    BY <1>1, <1>4, <1>5, <1>6, <1>8 DEF TraceInv, TraceData
  <2>2. OneResult' /\ TraceIsCurrent'
    BY <1>3, <1>4 DEF TraceInv, OneResult, TraceIsCurrent
  <2> QED
    BY <2>1, <2>2
<1>11. TraceTypeOK'
  BY <1>3, <1>4 DEF TraceInv, TraceTypeOK
<1> QED
  BY <1>3, <1>9, <1>10, <1>11 DEF TraceInv

\* The filter's answer is in force if its request is the latest; then no other one is.
LEMMA TraceFilters == LinkOK /\ TraceInv /\ FilterAnswered /\ UNCHANGED unheard => LinkOK' /\ TraceInv'
<1> SUFFICES ASSUME LinkOK, TraceInv, FilterAnswered, UNCHANGED unheard PROVE LinkOK' /\ TraceInv'
  OBVIOUS
<1> DEFINE r == Head(wire)
<1>1. /\ wire # <<>> /\ r.kind = "filter" /\ wire' = Tail(wire) /\ r.value # 0
      /\ UNCHANGED <<generation, windows, requested, opened, syncing, typed, kept, preparing, rows, inbox, link>>
      /\ \/ /\ r.tag = generation /\ Paused
            /\ filter' = Filter(generation, r.arg, r.value)
            /\ result' = generation /\ blocks' = NoBlocks /\ lastRequest' = None /\ top' = 0
            /\ asking' = TRUE /\ status' = "connected"
         \/ UNCHANGED <<filter, result, blocks, top, asking, lastRequest, status>>
  BY DEF FilterAnswered, Arrived, panel, browser
<1>2. Connected /\ status' \in Kinds
  BY <1>1 DEF LinkOK, Kinds
<1>3. LinkOK' /\ UNCHANGED <<now, since, visible, state>> /\ Connected' = Connected
  BY <1>1, <1>2, WithinSession
<1>4. Tail(wire) \in Seq(TraceRequests) /\ r = wire[1] /\ r \in FilterRequests
  BY <1>1, TraceTail DEF TraceRequests, WindowRequests
<1>5. CASE /\ r.tag = generation
           /\ filter' = Filter(generation, r.arg, r.value)
           /\ result' = generation /\ blocks' = NoBlocks /\ lastRequest' = None /\ top' = 0
           /\ asking' = TRUE
  <2>1. filter = None /\ \A i \in DOMAIN wire : IsLatest(i) => i = 1
    <3>1. 1 \in DOMAIN wire /\ IsLatest(1)
      BY <1>1, <1>4, <1>5 DEF IsLatest, TraceInv, TraceData
    <3> QED
      BY <3>1 DEF TraceInv, OneLatest, IsLatest
  <2>2. filter' \in [gen : 0..generation, query : Queries, at : 0..now] /\ filter'.gen = generation /\ filter'.at >= since
    BY <1>1, <1>4, <1>5 DEF Filter, FilterRequests, Fresh, TraceInv, TraceTypeOK
  <2>3. TraceRecords \subseteq TraceRecords'
    <3>1. None \notin TraceRecords
      <4>1. None \notin [gen : Nat, query : Queries, at : Nat] /\ generation \in Nat /\ now \in Nat
        BY TraceAssumption DEF TraceInv, TraceTypeOK, LinkOK
      <4> QED
        BY <4>1 DEF TraceRecords
    <3> QED
      BY <1>1, <1>3, <2>1, <3>1 DEF TraceRecords
  <2>4. TraceRequests \subseteq TraceRequests' /\ TraceMessages \subseteq TraceMessages' /\ HeldBlocks \subseteq HeldBlocks'
    <3>1. Actions \subseteq Actions' /\ WindowRequests \subseteq WindowRequests' /\ FilterRequests \subseteq FilterRequests'
      BY <1>1, <1>3, <2>3 DEF Actions, WindowRequests, FilterRequests, Fresh
    <3> QED
      BY <2>3, <3>1 DEF TraceRequests, TraceMessages, HeldBlocks
  <2>5. OneLatest'
    <3>1. \A i \in DOMAIN wire' : ~IsLatest(i)'
      <4>1. \A i \in DOMAIN Tail(wire) : i + 1 \in DOMAIN wire /\ i + 1 # 1 /\ Tail(wire)[i] = wire[i + 1]
        BY <1>1, TraceTail
      <4> QED
        BY <1>1, <2>1, <4>1 DEF IsLatest
    <3> QED
      BY <3>1 DEF OneLatest, IsLatest
  <2>6. \A b \in Blocks : NoBlocks[b] = None /\ rows[b] = None
    BY <2>1 DEF NoBlocks, TraceInv, OneResult
  <2>7. OneResult' /\ TraceIsCurrent'
    BY <1>1, <1>2, <1>3, <1>5, <2>2, <2>6 DEF OneResult, TraceIsCurrent
  <2>8. TraceTypeOK'
    BY <1>1, <1>3, <1>5, <2>2, TraceAssumption DEF TraceInv, TraceTypeOK
  <2>9. TraceData'
    BY <1>1, <1>4, <1>5, <2>3, <2>4 DEF TraceInv, TraceData, NoBlocks, HeldBlocks
  <2> QED
    BY <1>3, <2>5, <2>7, <2>8, <2>9 DEF TraceInv
<1>6. CASE UNCHANGED <<filter, result, blocks, top, asking, lastRequest>>
  <2>1. TraceRecords' = TraceRecords
    BY <1>1, <1>3, <1>6 DEF TraceRecords
  <2>2. TraceRequests' = TraceRequests /\ TraceMessages' = TraceMessages /\ HeldBlocks' = HeldBlocks
    BY <1>1, <1>3, <1>6, <2>1 DEF TraceRequests, FilterRequests, WindowRequests, Fresh, TraceMessages, Actions, HeldBlocks
  <2>3. OneLatest'
    BY <1>1, <1>6, LatestInTail
  <2>4. TraceData' /\ OneResult' /\ TraceIsCurrent'
    BY <1>1, <1>3, <1>4, <1>6, <2>1, <2>2 DEF TraceInv, TraceData, OneResult, TraceIsCurrent
  <2>5. TraceTypeOK'
    BY <1>1, <1>3, <1>6 DEF TraceInv, TraceTypeOK
  <2> QED
    BY <1>3, <2>3, <2>4, <2>5 DEF TraceInv
<1> QED
  BY <1>1, <1>5, <1>6

\* The blocks that a step may change, of the result in force.
LEMMA TraceSetsAreSame ==
  ASSUME LinkOK, TraceInv, UNCHANGED <<generation, filter, now, since>>
  PROVE  /\ TraceRecords' = TraceRecords /\ TraceRequests' = TraceRequests
         /\ TraceMessages' = TraceMessages /\ HeldBlocks' = HeldBlocks
<1>1. TraceRecords' = TraceRecords
  BY DEF TraceRecords
<1> QED
  BY <1>1 DEF TraceRequests, FilterRequests, WindowRequests, Fresh, TraceMessages, Actions, HeldBlocks

LEMMA TraceReadsWindows == LinkOK /\ TraceInv /\ (WindowAnswered \/ TraceFails) /\ UNCHANGED unheard => LinkOK' /\ TraceInv'
<1> SUFFICES ASSUME LinkOK, TraceInv, WindowAnswered \/ TraceFails, UNCHANGED unheard PROVE LinkOK' /\ TraceInv'
  OBVIOUS
<1> DEFINE r == Head(wire)
<1>1. /\ wire # <<>> /\ wire' = Tail(wire)
      /\ UNCHANGED <<generation, filter, opened, syncing, typed, kept, rows, result, blocks, top, asking, inbox>>
      /\ UNCHANGED link \/ (Event /\ UNCHANGED session)
  BY DEF WindowAnswered, TraceFails, Arrived, Waits, panel, browser
<1>2. Connected /\ status' \in Kinds
  BY <1>1 DEF WindowAnswered, TraceFails, LinkOK, Kinds
<1>3. LinkOK' /\ UNCHANGED <<now, since, visible, state>> /\ Connected' = Connected
  BY <1>1, <1>2, WithinSession
<1>4. /\ TraceRecords' = TraceRecords /\ TraceRequests' = TraceRequests
      /\ TraceMessages' = TraceMessages /\ HeldBlocks' = HeldBlocks
  BY <1>1, <1>3, TraceSetsAreSame
<1>5. windows' \in HeldBlocks /\ requested' \subseteq Blocks /\ preparing' \subseteq Blocks \X TraceRecords
  <2>1. CASE r.kind = "window" /\ windows' = Trim([windows EXCEPT ![r.arg] = r.tag], r.arg)
             /\ requested' = requested \ {r.arg} /\ preparing' = preparing \cup {<<r.arg, r.tag>>}
    <3>1. r.arg \in Blocks /\ r.tag \in TraceRecords
      BY <1>1, <2>1, TraceTail DEF TraceRequests, FilterRequests, WindowRequests
    <3>2. \A b \in Blocks : [windows EXCEPT ![r.arg] = r.tag][b] \in TraceRecords \cup {None}
      BY <3>1 DEF TraceInv, TraceData, HeldBlocks
    <3> DEFINE held == [windows EXCEPT ![r.arg] = r.tag]
    <3> HIDE DEF held
    <3>3. \A b \in Blocks : Trim(held, r.arg)[b] \in TraceRecords \cup {None}
      <4>1. \A b \in Blocks : held[b] \in TraceRecords \cup {None}
        BY <3>2 DEF held
      <4> QED
        BY <4>1, TrimmedBlocks
    <3>4. Trim(held, r.arg) \in HeldBlocks
      BY <3>3 DEF Trim, HeldBlocks
    <3> QED
      BY <2>1, <3>1, <3>4 DEF held, TraceInv, TraceTypeOK, TraceData
  <2>2. CASE UNCHANGED <<windows, preparing>> /\ requested' \subseteq requested
    BY <2>2 DEF TraceInv, TraceTypeOK, TraceData
  <2> QED
    BY <2>1, <2>2 DEF WindowAnswered, TraceFails, panel
<1>6. OneLatest'
  BY <1>1, LatestInTail
<1>7. TraceData'
  BY <1>1, <1>4, <1>5, TraceTail DEF TraceInv, TraceData
<1>8. OneResult' /\ TraceIsCurrent'
  BY <1>1, <1>3 DEF TraceInv, OneResult, TraceIsCurrent
<1>9. TraceTypeOK'
  BY <1>1, <1>3, <1>5 DEF TraceInv, TraceTypeOK
<1> QED
  BY <1>3, <1>6, <1>7, <1>8, <1>9 DEF TraceInv

\* Rows that are ready are kept if their result is the one in force.
LEMMA TracePrepares == LinkOK /\ TraceInv /\ Prepared /\ UNCHANGED unheard => LinkOK' /\ TraceInv'
<1> SUFFICES ASSUME LinkOK, TraceInv, Prepared, UNCHANGED unheard PROVE LinkOK' /\ TraceInv'
  OBVIOUS
<1>1. /\ UNCHANGED <<generation, filter, windows, requested, opened, syncing, typed, kept, result, top, inbox, status, wire, link>>
      /\ asking' \in BOOLEAN /\ preparing' \subseteq preparing
  BY DEF Prepared, service, TraceInv, TraceTypeOK
<1>2. ~Connected => wire' = <<>>
  BY <1>1 DEF LinkOK
<1>3. LinkOK' /\ UNCHANGED <<now, since, visible, state>> /\ Connected' = Connected
  BY <1>1, <1>2, WithinSession DEF LinkOK
<1>4. /\ TraceRecords' = TraceRecords /\ TraceRequests' = TraceRequests
      /\ TraceMessages' = TraceMessages /\ HeldBlocks' = HeldBlocks
  BY <1>1, <1>3, TraceSetsAreSame
<1>5. rows' \in HeldBlocks /\ blocks' \in HeldBlocks /\ OneResult' /\ TraceIsCurrent'
  <2>1. PICK p \in preparing :
          IF StillCurrent(p[2].gen)
          THEN /\ rows' = [b \in Blocks |-> IF b = p[1] THEN p[2] ELSE IF Near(b, p[1]) <= 1 THEN rows[b] ELSE None]
               /\ IF p[2].gen = result
                  THEN /\ blocks' = Trim([blocks EXCEPT ![p[1]] = p[2]],
                                         IF lastRequest = None THEN 0 ELSE Block(lastRequest[2]))
                       /\ lastRequest' = None /\ asking' = TRUE
                  ELSE UNCHANGED <<blocks, lastRequest, asking>>
          ELSE UNCHANGED <<rows, blocks, lastRequest, asking>>
    BY DEF Prepared
  <2>2. p[1] \in Blocks /\ p[2] \in TraceRecords
    BY DEF TraceInv, TraceData
  <2>3. CASE ~StillCurrent(p[2].gen)
    BY <1>1, <1>3, <2>1, <2>3 DEF TraceInv, TraceData, OneResult, TraceIsCurrent
  <2>4. CASE StillCurrent(p[2].gen)
    <3>1. p[2] = filter /\ filter # None /\ visible /\ filter.gen = generation /\ filter.at >= since /\ Connected
      BY <2>2, <2>4 DEF StillCurrent, Current, TraceRecords, TraceInv, OneResult
    <3>2. /\ rows' \in HeldBlocks
          /\ \A b \in Blocks : rows'[b] = p[2] \/ rows'[b] = rows[b] \/ rows'[b] = None
      BY <2>1, <2>2, <2>4 DEF HeldBlocks, TraceInv, TraceData
    <3>3. /\ blocks' \in HeldBlocks
          /\ \A b \in Blocks : (blocks'[b] = p[2] /\ p[2].gen = result) \/ blocks'[b] = blocks[b] \/ blocks'[b] = None
      <4>1. CASE blocks' = blocks
        BY <4>1 DEF TraceInv, TraceData
      <4>2. CASE p[2].gen = result /\ blocks' = Trim([blocks EXCEPT ![p[1]] = p[2]],
                                                     IF lastRequest = None THEN 0 ELSE Block(lastRequest[2]))
        <5> DEFINE held == [blocks EXCEPT ![p[1]] = p[2]]
        <5>1. \A b \in Blocks : held[b] = p[2] \/ held[b] = blocks[b]
          BY <2>2 DEF TraceInv, TraceData, HeldBlocks
        <5> HIDE DEF held
        <5>2. PICK at : blocks' = Trim(held, at)
          BY <4>2 DEF held
        <5>3. \A b \in Blocks : blocks'[b] \in {held[b], None}
          BY <5>2, TrimmedBlocks
        <5>4. \A b \in Blocks : blocks[b] \in TraceRecords \cup {None}
          BY DEF TraceInv, TraceData, HeldBlocks
        <5>5. blocks' = [b \in Blocks |-> blocks'[b]]
          BY <5>2 DEF Trim
        <5>6. \A b \in Blocks : blocks'[b] \in TraceRecords \cup {None}
          BY <2>2, <5>1, <5>3, <5>4
        <5>7. blocks' \in HeldBlocks
          BY <5>5, <5>6 DEF HeldBlocks
        <5> QED
          BY <4>2, <5>1, <5>3, <5>7
      <4> QED
        BY <2>1, <2>4, <4>1, <4>2
    <3>4. OneResult'
      BY <1>1, <1>3, <3>1, <3>2, <3>3 DEF TraceInv, OneResult
    <3>5. TraceIsCurrent'
      BY <1>1, <1>3, <3>1, <3>3 DEF TraceInv, TraceIsCurrent
    <3> QED
      BY <3>2, <3>3, <3>4, <3>5
  <2> QED
    BY <2>3, <2>4
<1>6. OneLatest'
  BY <1>1 DEF TraceInv, OneLatest, IsLatest
<1>7. TraceData'
  BY <1>1, <1>4, <1>5 DEF TraceInv, TraceData
<1>8. TraceTypeOK'
  BY <1>1, <1>3 DEF TraceInv, TraceTypeOK
<1> QED
  BY <1>3, <1>5, <1>6, <1>7, <1>8 DEF TraceInv

\* The messages of the webview, on their way and as they are handled.
LEMMA TraceSpeaks ==
  ASSUME LinkOK, TraceInv, PanelOK',
         UNCHANGED <<service, preparing, rows, blocks, result, wire, unheard, status>>,
         UNCHANGED link \/ (Event /\ UNCHANGED session),
         top' \in Tops, inbox' \in Seq(TraceMessages)
  PROVE  LinkOK' /\ TraceInv'
<1>1. ~Connected => wire' = <<>>
  BY DEF LinkOK
<1>2. LinkOK' /\ UNCHANGED <<now, since, visible, state>> /\ Connected' = Connected
  BY <1>1, WithinSession DEF LinkOK
<1>3. TraceMessages' = TraceMessages
  BY <1>2, TraceSetsAreSame DEF service
<1>4. now' \in Nat /\ now <= now' /\ inbox' \in Seq(TraceMessages')
  BY <1>2, <1>3 DEF LinkOK
<1> QED
  BY <1>2, <1>4, TraceGoesOn

LEMMA TraceUserSays ==
  LinkOK /\ TraceInv /\ (Ask \/ ScrollTrace \/ ClickRow \/ TypeQuery) /\ UNCHANGED unheard => LinkOK' /\ TraceInv'
<1> SUFFICES ASSUME LinkOK, TraceInv, Ask \/ ScrollTrace \/ ClickRow \/ TypeQuery, UNCHANGED unheard
             PROVE  LinkOK' /\ TraceInv'
  OBVIOUS
<1>1. /\ UNCHANGED <<service, panel, result, blocks, status, wire>>
      /\ UNCHANGED link \/ (Event /\ UNCHANGED session)
  BY DEF Ask, ScrollTrace, ClickRow, TypeQuery, browser
<1>2. asking' \in BOOLEAN /\ top' \in Tops
  BY DEF Ask, ScrollTrace, ClickRow, TypeQuery, browser, TraceInv, TraceTypeOK
<1>3. PanelOK' /\ UNCHANGED <<preparing, rows>>
  BY <1>1, <1>2 DEF PanelOK, panel, TraceInv, TraceTypeOK
<1>4. inbox' \in Seq(TraceMessages)
  <2>1. inbox \in Seq(TraceMessages) /\ result \in Nat /\ top \in Tops
    BY DEF TraceInv, TraceData, TraceTypeOK
  <2>2. CASE UNCHANGED inbox
    BY <2>1, <2>2
  <2>3. CASE inbox' = Append(inbox, Says("visibleRange", [gen |-> result, row |-> top]))
    <3>1. Says("visibleRange", [gen |-> result, row |-> top]) \in TraceMessages
      BY <2>1 DEF Says, TraceMessages
    <3> QED
      BY <2>1, <2>3, <3>1, AppendProperties
  <2>4. CASE ClickRow
    <3>1. PICK b \in Shown(top) :
            /\ blocks[b] # None
            /\ inbox' = Append(inbox, Says("action", [gen |-> result, block |-> b, seen |-> blocks[b]]))
      BY <2>4 DEF ClickRow
    <3>2. PICK row \in top..top + Lines - 1 : b = Block(row)
      BY <3>1 DEF Shown
    <3>3. row \in top..top + Lines
      BY <2>1, TraceAssumption
    <3>4. b \in Blocks
      BY <2>1, <3>2, <3>3, RowsHaveBlocks
    <3>5. blocks[b] \in TraceRecords /\ blocks[b].gen = result
      BY <3>1, <3>4 DEF TraceInv, TraceData, OneResult, HeldBlocks
    <3>6. Says("action", [gen |-> result, block |-> b, seen |-> blocks[b]]) \in TraceMessages
      BY <2>1, <3>4, <3>5 DEF Says, TraceMessages, Actions
    <3> QED
      BY <2>1, <3>1, <3>6, AppendProperties
  <2>5. CASE \E q \in Queries : inbox' = Append(inbox, Says("query", q))
    <3>1. PICK q \in Queries : inbox' = Append(inbox, Says("query", q))
      BY <2>5
    <3>2. Says("query", q) \in TraceMessages
      BY DEF Says, TraceMessages
    <3> QED
      BY <2>1, <3>1, <3>2, AppendProperties
  <2> QED
    BY <2>2, <2>3, <2>4, <2>5 DEF Ask, ScrollTrace, TypeQuery
<1> QED
  BY <1>1, <1>2, <1>3, <1>4, TraceSpeaks

LEMMA TraceHears == LinkOK /\ TraceInv /\ TraceMessage /\ UNCHANGED unheard => LinkOK' /\ TraceInv'
<1> SUFFICES ASSUME LinkOK, TraceInv, TraceMessage, UNCHANGED unheard PROVE LinkOK' /\ TraceInv'
  OBVIOUS
<1> DEFINE m == Head(inbox)
<1>1. inbox # <<>> /\ inbox' = Tail(inbox) /\ UNCHANGED link
  BY DEF TraceMessage
<1>2. m \in TraceMessages /\ inbox' \in Seq(TraceMessages)
  BY <1>1 DEF TraceInv, TraceData
<1>3. CASE OnTraceReady
  <2>1. /\ SyncTrace /\ visible' = visible /\ opened' \in BOOLEAN /\ state' = state
        /\ UNCHANGED <<kept, preparing, wire>>
    BY <1>3 DEF OnTraceReady
  <2>2. wire' = IF state' = "stopped" THEN <<>> ELSE wire
    BY <2>1 DEF LinkOK, Connected
  <2> QED
    BY <1>1, <1>2, <2>1, <2>2, TraceSyncs
<1>4. CASE OnTraceRange
  <2> DEFINE b == Block(m.arg.row)
  <2>1. /\ UNCHANGED <<generation, filter, windows, opened, syncing, typed, kept, rows, result, blocks, top, asking, status>>
        /\ \/ windows[b] # None /\ preparing' = preparing \cup {<<b, windows[b]>>} /\ UNCHANGED <<requested, wire>>
           \/ /\ Current(m.arg.gen) /\ requested' = requested \cup {b} /\ UNCHANGED preparing
              /\ wire' = Append(wire, Request("window", b, filter))
           \/ UNCHANGED <<preparing, requested, wire>>
    BY <1>4 DEF OnTraceRange, browser
  <2>2. m.arg.row \in Tops
    BY <1>2, <1>4 DEF OnTraceRange, TraceMessages
  <2>3. b \in Blocks
    <3> DEFINE row == m.arg.row
    <3>1. row \in Nat /\ Lines \in Nat
      BY <2>2, TraceAssumption
    <3> HIDE DEF row
    <3>2. row \in row..row + Lines
      BY <3>1
    <3>3. m.arg.row \in m.arg.row..m.arg.row + Lines
      BY <3>2 DEF row
    <3> QED
      BY <2>2, <3>3, RowsHaveBlocks
  <2>4. Current(m.arg.gen) => filter \in TraceRecords /\ Connected
    BY DEF Current, TraceInv, TraceTypeOK, OneResult, TraceRecords
  <2>5. /\ requested' \subseteq Blocks /\ preparing' \subseteq Blocks \X TraceRecords
        /\ wire' \in Seq(TraceRequests) /\ OneLatest' /\ (~Connected => wire' = <<>>)
    <3>1. CASE windows[b] # None /\ preparing' = preparing \cup {<<b, windows[b]>>} /\ UNCHANGED <<requested, wire>>
      <4>1. windows[b] \in TraceRecords
        BY <2>3, <3>1 DEF TraceInv, TraceData, HeldBlocks
      <4> QED
        BY <2>1, <2>3, <3>1, <4>1 DEF TraceInv, TraceTypeOK, TraceData, OneLatest, IsLatest, LinkOK
    <3>2. CASE /\ Current(m.arg.gen) /\ requested' = requested \cup {b} /\ UNCHANGED preparing
               /\ wire' = Append(wire, Request("window", b, filter))
      <4>1. Request("window", b, filter) \in TraceRequests
        BY <2>3, <2>4, <3>2 DEF Request, TraceRequests, WindowRequests, LinkOK
      <4>2. /\ wire' \in Seq(TraceRequests) /\ Len(wire') = Len(wire) + 1
            /\ wire'[Len(wire) + 1].kind = "window"
            /\ \A i \in 1..Len(wire) : wire'[i] = wire[i]
        BY <3>2, <4>1, AppendProperties DEF TraceInv, TraceData, Request
      <4>3. \A i \in DOMAIN wire' : IsLatest(i)' => IsLatest(i)
        <5>1. wire \in Seq(TraceRequests)
          BY DEF TraceInv, TraceData
        <5>2. \A i \in DOMAIN wire' : i \in DOMAIN wire \/ i = Len(wire) + 1
          BY <4>2, <5>1
        <5> QED
          BY <2>1, <4>2, <5>1, <5>2 DEF IsLatest
      <4>4. OneLatest'
        BY <2>1, <4>3 DEF TraceInv, OneLatest, IsLatest
      <4> QED
        BY <2>3, <2>4, <3>2, <4>2, <4>4 DEF TraceInv, TraceTypeOK, TraceData
    <3>3. CASE UNCHANGED <<preparing, requested, wire>>
      BY <2>1, <3>3 DEF TraceInv, TraceTypeOK, TraceData, OneLatest, IsLatest, LinkOK
    <3> QED
      BY <2>1, <3>1, <3>2, <3>3
  <2>6. LinkOK' /\ UNCHANGED <<now, since, visible, state>> /\ Connected' = Connected
    BY <1>1, <2>1, <2>5, WithinSession DEF LinkOK
  <2>7. /\ TraceRecords' = TraceRecords /\ TraceRequests' = TraceRequests
        /\ TraceMessages' = TraceMessages /\ HeldBlocks' = HeldBlocks
    BY <2>1, <2>6, TraceSetsAreSame
  <2>8. TraceData'
    BY <1>2, <2>1, <2>5, <2>7 DEF TraceInv, TraceData
  <2>9. OneResult' /\ TraceIsCurrent'
    BY <2>1, <2>6 DEF TraceInv, OneResult, TraceIsCurrent
  <2>10. TraceTypeOK'
    BY <2>1, <2>5, <2>6 DEF TraceInv, TraceTypeOK
  <2> QED
    BY <2>5, <2>6, <2>8, <2>9, <2>10 DEF TraceInv
<1>5. CASE OnQueryTyped
  <2>1. m.arg \in Queries
    BY <1>2, <1>5 DEF OnQueryTyped, TraceMessages
  <2>2. PanelOK' /\ top' \in Tops /\ UNCHANGED <<service, preparing, rows, blocks, result, wire, status>>
    BY <1>5, <2>1 DEF OnQueryTyped, PanelOK, browser, TraceInv, TraceTypeOK
  <2> QED
    BY <1>1, <1>2, <2>2, TraceSpeaks
<1>6. CASE OnAction
  <2>1. PanelOK' /\ top' \in Tops /\ UNCHANGED <<service, preparing, rows, blocks, result, wire, status>>
    BY <1>6 DEF OnAction, PanelOK, traceVars, panel, browser, TraceInv, TraceTypeOK
  <2> QED
    BY <1>1, <1>2, <2>1, TraceSpeaks
<1> QED
  BY <1>3, <1>4, <1>5, <1>6 DEF TraceMessage

LEMMA TraceFollows ==
  LinkOK /\ TraceInv /\ (TraceStateChange \/ TraceShownOrHidden) /\ UNCHANGED unheard => LinkOK' /\ TraceInv'
<1> SUFFICES ASSUME LinkOK, TraceInv, TraceStateChange \/ TraceShownOrHidden, UNCHANGED unheard
             PROVE  LinkOK' /\ TraceInv'
  OBVIOUS
<1>1. UNCHANGED <<opened, kept, preparing, inbox>> /\ inbox' \in Seq(TraceMessages) /\ opened' \in BOOLEAN
  BY DEF TraceStateChange, TraceShownOrHidden, TraceInv, TraceData, TraceTypeOK
<1>2. CASE TraceStateChange
  <2>1. visible' = visible
    BY <1>2 DEF TraceStateChange, StateChange, SessionOpens, SessionLost, Runs, Stops
  <2> QED
    BY <1>1, <1>2, <2>1, TraceSyncs DEF TraceStateChange
<1>3. CASE TraceShownOrHidden /\ visible' /\ SyncTrace
  <2>1. wire' = IF state' = "stopped" THEN <<>> ELSE wire
    BY <1>3 DEF TraceShownOrHidden, ShownOrHidden, LinkOK, Connected
  <2> QED
    BY <1>1, <1>3, <2>1, TraceSyncs DEF TraceShownOrHidden
<1>4. CASE /\ TraceShownOrHidden /\ Invalidate /\ typed' = None /\ rows' = NoBlocks
           /\ UNCHANGED <<syncing, browser, status>>
  <2>1. /\ generation' = generation + 1 /\ filter' = None /\ windows' = NoBlocks /\ requested' = {}
        /\ UNCHANGED <<now, since, state, top, asking, blocks, result, wire, status>>
    BY <1>4 DEF Invalidate, browser, TraceShownOrHidden, ShownOrHidden
  <2>2. PanelOK' /\ Connected' = Connected
    BY <1>1, <1>4, <2>1 DEF PanelOK, TraceInv, TraceTypeOK, Connected
  <2>3. TraceInv' /\ (~Connected' => wire' = <<>>)
    BY <1>1, <1>4, <2>1, <2>2, TraceStartsOver
  <2>4. LinkOK'
    BY <1>4, <2>1, <2>3, SessionMoves DEF LinkOK, TraceShownOrHidden
  <2> QED
    BY <2>3, <2>4
<1> QED
  BY <1>2, <1>3, <1>4 DEF TraceShownOrHidden

LEMMA TraceStep == LinkOK /\ TraceInv /\ TraceNext /\ UNCHANGED unheard => LinkOK' /\ TraceInv'
<1> SUFFICES ASSUME LinkOK, TraceInv, TraceNext, UNCHANGED unheard PROVE LinkOK' /\ TraceInv'
  OBVIOUS
<1>1. CASE SourceContextLoaded \/ QueryTimer
  <2>1. PICK q \in Queries : ApplyQuery(q)
    BY <1>1 DEF SourceContextLoaded, QueryTimer, TraceInv, TraceTypeOK
  <2>2. PanelOK' /\ UNCHANGED <<preparing, browser, inbox, link>>
    BY <1>1 DEF SourceContextLoaded, QueryTimer, TraceInv, TraceTypeOK, PanelOK, browser
  <2> QED
    BY <2>1, <2>2, TraceApplies
<1> QED
  BY <1>1, TraceFollows, TraceExecutes, TraceFilters, TraceReadsWindows, TracePrepares, TraceUserSays, TraceHears DEF TraceNext

LEMMA TraceKeepsStill == LinkOK /\ TraceIdle /\ UNCHANGED traceVars => TraceIdle'
BY DEF TraceIdle, TraceTypeOK, traceVars, service, panel, browser

\* The row that an action names is the row that is in force, or there is none.
LEMMA TraceActionIsSeen == TraceInv => TraceActsOnTheRow
<1> SUFFICES ASSUME TraceInv, inbox # <<>>, Acts(Head(inbox))
             PROVE  rows[Head(inbox).arg.block] = Head(inbox).arg.seen
  BY DEF TraceActsOnTheRow
<1>1. Head(inbox) \in TraceMessages /\ Head(inbox).type = "action"
  BY DEF TraceInv, TraceData, Acts
<1>2. Head(inbox).arg \in Actions
  BY <1>1 DEF TraceMessages
<1> QED
  BY <1>2 DEF Acts, Current, Actions, TraceRecords, TraceInv, OneResult
--------------------------------------------------------------------------------
(***************************************************************************)
(* Hardware statistics and ports.                                           *)
(***************************************************************************)
Drives == [image : Images \cup {None}, updated : BOOLEAN, wrote : 0..now + 1]
Snapshots == [at : 1..now, image : Images \cup {None}, updated : BOOLEAN]
Changes == {"mount", "dismount", "palette"}
Phases == {"idle", "choosing", "asking", "queued", "info", "image", "reset", "mutating", "verifying"}
Operations ==
    {o \in [kind : {None} \cup Changes, image : Images \cup {None}, updated : BOOLEAN,
            agreed : BOOLEAN, true : BOOLEAN, phase : Phases] :
        /\ o.phase # "idle" => o.kind \in Changes
        /\ o.phase = "choosing" => o.kind = "mount"
        /\ o.kind # "mount" => o.image = None}

\* A snapshot of this session, which does not hide an update if it is of the present stop.
Tells(s) == s.at >= since /\ (state = "connected" /\ s.at = now /\ drive.updated => s.updated)

PortReads == {q \in [kind : {"ports"}, arg : Directions, tag : Nat, value : Nat] : Fresh(q.value)}
StatisticsReads ==
    {q \in [kind : {"stats", "verify", "info"}, arg : {None} \cup Snapshots, tag : Nat \cup {None}, value : 0..now] :
        q.value # 0 => q.arg \in Snapshots /\ Tells(q.arg)}
Commands == [kind : {"image", "reset", "palette", "dismount"}, arg : {None}, tag : Nat \cup {None}, value : 0..now + 1]
Mounts == [kind : {"mount"}, arg : Images \cup {None}, tag : {None}, value : 0..now]
HwRequests == PortReads \cup StatisticsReads \cup Commands \cup Mounts
HwMessages == [type : {"ready"}, arg : Ranges] \cup [type : Changes, arg : Nat]

HwData ==
    /\ drive \in Drives /\ (drive.updated => drive.image # None) /\ op \in Operations
    /\ wire \in Seq(HwRequests) /\ inbox \in Seq(HwMessages)
    /\ mirror # None => Tells(mirror)

\* One request of the operation is on the wire, the one that its phase awaits.
PhaseOf(kind) ==
    IF kind \in {"info", "image", "reset"} THEN kind ELSE IF kind = "verify" THEN "verifying" ELSE "mutating"
OfOperation(q) == q.kind \in {"info", "image", "reset", "verify"} \cup Changes
Awaited(q) == OfOperation(q) => op.phase = PhaseOf(q.kind) /\ (q.kind \in Changes => op.kind = q.kind)
OneOperation ==
    /\ \A i \in DOMAIN wire : Awaited(wire[i])
    /\ \A i, j \in DOMAIN wire : OfOperation(wire[i]) /\ OfOperation(wire[j]) => i = j

\* What was answered is what the drive holds, as long as the operation's snapshot is true.
Reported(q) ==
    q.value # 0 => /\ q.kind = "info" => q.arg.updated = drive.updated /\ q.arg.image = drive.image
                   /\ q.kind = "image" => q.value = drive.wrote
                   /\ q.kind = "reset" => ~drive.updated
StillTrue ==
    op.true => /\ state # "running"
               /\ drive.updated => op.updated
               /\ op.phase \in {"queued", "mutating"} /\ op.kind # "palette" /\ drive.updated => op.agreed
               /\ op.phase = "reset" => saved = drive.wrote
               /\ \A i \in DOMAIN wire : Reported(wire[i])

HwInv == HwTypeOK /\ HardwareIsCurrent /\ DriveIsKept /\ HwData /\ OneOperation /\ StillTrue
HwIdle == HwTypeOK /\ mirror = None /\ ports = NoPorts /\ DriveIsKept

LEMMA RequestsStay ==
  ASSUME LinkOK, now' \in Nat, now <= now', since' = since,
         state' = "connected" => (drive'.updated => drive.updated) /\ (state = "connected" \/ now < now')
  PROVE  /\ \A s \in Snapshots : Tells(s) => Tells(s)'
         /\ Snapshots \subseteq Snapshots' /\ HwRequests \subseteq HwRequests'
<1>1. now \in Nat
  BY DEF LinkOK
<1>2. \A s \in Snapshots : Tells(s) => Tells(s)'
  BY <1>1 DEF Tells, Snapshots
<1>3. Snapshots \subseteq Snapshots'
  BY <1>1 DEF Snapshots
<1>4. StatisticsReads \subseteq StatisticsReads'
  BY <1>1, <1>2, <1>3 DEF StatisticsReads
<1>5. PortReads \subseteq PortReads' /\ Commands \subseteq Commands' /\ Mounts \subseteq Mounts'
  BY <1>1 DEF PortReads, Fresh, Commands, Mounts
<1> QED
  BY <1>2, <1>3, <1>4, <1>5 DEF HwRequests

\* A refresh adds requests that belong to no operation, and none of them is answered.
LEMMA Refreshes ==
  ASSUME LinkOK, HwInv, now' \in Nat, hwGeneration \in Nat, wire \in Seq(HwRequests'), Connected' \/ wire' = wire,
         wire' = wire \/ wire' = wire \o Reads, HwTypeOK
  PROVE  /\ wire' \in Seq(HwRequests')
         /\ \A i \in DOMAIN wire' : \/ i \in DOMAIN wire /\ wire'[i] = wire[i]
                                    \/ wire'[i].kind \in {"stats", "ports"} /\ wire'[i].value = 0
<1>1. CASE wire' = wire
  BY <1>1
<1>2. CASE wire' = wire \o Reads
  <2>1. Request("stats", None, hwGeneration) \in HwRequests'
    BY DEF Request, HwRequests, StatisticsReads
  <2>2. Request("ports", "in", hwGeneration) \in HwRequests' /\ Request("ports", "out", hwGeneration) \in HwRequests'
    BY DEF Request, HwRequests, PortReads, Fresh, Directions
  <2>3. /\ Reads \in Seq(HwRequests')
        /\ \A i \in DOMAIN Reads : Reads[i].kind \in {"stats", "ports"} /\ Reads[i].value = 0
    <3>1. CASE Reads = ReadStatistics
      BY <2>1, <3>1 DEF ReadStatistics, Request
    <3>2. CASE Reads = ReadPorts
      BY <2>2, <3>2 DEF ReadPorts, Request
    <3> QED
      BY <3>1, <3>2 DEF Reads
  <2> HIDE DEF Reads
  <2>4. /\ wire' \in Seq(HwRequests') /\ Len(wire') = Len(wire) + Len(Reads)
        /\ \A i \in 1..Len(wire') : wire'[i] = IF i <= Len(wire) THEN wire[i] ELSE Reads[i - Len(wire)]
    BY <1>2, <2>3, ConcatProperties
  <2>5. \A i \in DOMAIN wire' : i <= Len(wire) \/ i - Len(wire) \in DOMAIN Reads
    BY <2>3, <2>4
  <2> QED
    BY <2>3, <2>4, <2>5
<1> QED
  BY <1>1, <1>2

\* Answers, and requests that are no operation's, come and go without a change to it.
LEMMA OperationStays ==
  ASSUME OneOperation, op'.phase = op.phase, op'.kind = op.kind,
         \A i \in DOMAIN wire' : \/ i \in DOMAIN wire /\ wire'[i] = wire[i]
                                 \/ wire'[i].kind \in {"stats", "ports"} /\ wire'[i].value = 0
  PROVE  OneOperation'
<1>1. \A i \in DOMAIN wire' : OfOperation(wire'[i]) => i \in DOMAIN wire /\ wire'[i] = wire[i]
  BY DEF OfOperation, Changes
<1>2. \A i, j \in DOMAIN wire' : OfOperation(wire'[i]) /\ OfOperation(wire'[j]) => i = j
  BY <1>1 DEF OneOperation
<1>3. \A i \in DOMAIN wire' :
        OfOperation(wire'[i]) => op'.phase = PhaseOf(wire'[i].kind) /\ (wire'[i].kind \in Changes => op'.kind = wire'[i].kind)
  BY <1>1 DEF OneOperation, Awaited
<1> QED
  BY <1>2, <1>3 DEF OneOperation, Awaited, OfOperation

LEMMA TruthStays ==
  ASSUME StillTrue, UNCHANGED <<drive, saved>>, op'.true => op.true /\ state' # "running",
         op'.phase = op.phase, op'.kind = op.kind, op'.updated = op.updated, op'.agreed = op.agreed,
         \A i \in DOMAIN wire' : \/ i \in DOMAIN wire /\ wire'[i] = wire[i]
                                 \/ wire'[i].kind \in {"stats", "ports"} /\ wire'[i].value = 0
  PROVE  StillTrue'
<1> SUFFICES ASSUME op'.true PROVE StillTrue'
  BY DEF StillTrue
<1>1. ASSUME NEW i \in DOMAIN wire'
      PROVE  wire'[i].value # 0 => /\ wire'[i].kind = "info" => wire'[i].arg.updated = drive.updated /\ wire'[i].arg.image = drive.image
                                   /\ wire'[i].kind = "image" => wire'[i].value = drive.wrote
                                   /\ wire'[i].kind = "reset" => ~drive.updated
  BY DEF StillTrue, Reported
<1> QED
  BY <1>1 DEF StillTrue, Reported

\* The step of a refresh, whatever made it: of the session, the panel or a message.
LEMMA HwRefreshes ==
  ASSUME LinkOK, HwInv, Refresh(Reads), now' \in Nat, now <= now', since' = since \/ ~Connected,
         Connected => Connected', state' = "connected" => state = "connected" \/ now < now',
         op' = [op EXCEPT !.true = @ /\ state' # "running"] \/ (op' = op /\ state' = state),
         UNCHANGED <<hwGeneration, mirror, ports, portErrors, drive, saved, careless>>, inbox' \in Seq(HwMessages)
  PROVE  HwInv' /\ (~Connected' => wire' = <<>>) /\ unheard' \in BOOLEAN
<1>1. /\ wire' = wire \/ (wire' = wire \o Reads /\ Connected')
      /\ refreshing' \in BOOLEAN /\ unheard' \in BOOLEAN
  BY DEF Refresh, CanRead, Connected, LinkOK, HwInv, HwTypeOK
<1>2. /\ ~Connected => wire = <<>> /\ mirror = None /\ \A d \in Directions : ports[d] = 0
      /\ op \in Operations /\ op.true \in BOOLEAN /\ now \in Nat
  BY DEF LinkOK, HwInv, HardwareIsCurrent, HwData, Operations
<1>3. wire \in Seq(HwRequests') /\ (mirror # None => Tells(mirror)' /\ Connected' /\ mirror.at >= since')
  <2>1. CASE ~Connected
    BY <1>2, <2>1, EmptySeq
  <2>2. CASE Connected
    <3>1. mirror # None => mirror \in Snapshots /\ Tells(mirror)
      BY DEF HwInv, HwTypeOK, HwData, Snapshots
    <3>2. HwRequests \subseteq HwRequests' /\ \A s \in Snapshots : Tells(s) => Tells(s)'
      BY <2>2, RequestsStay
    <3>3. mirror # None => Tells(mirror)'
      BY <3>1, <3>2 DEF Tells
    <3> QED
      BY <2>2, <3>1, <3>2, <3>3 DEF HwInv, HwData, HardwareIsCurrent
  <2> QED
    BY <2>1, <2>2
<1>4. /\ wire' \in Seq(HwRequests')
      /\ \A i \in DOMAIN wire' : \/ i \in DOMAIN wire /\ wire'[i] = wire[i]
                                 \/ wire'[i].kind \in {"stats", "ports"} /\ wire'[i].value = 0
  BY <1>1, <1>3, Refreshes DEF HwInv, HwTypeOK
<1>5. /\ op' \in Operations /\ (op'.true => op.true /\ state' # "running")
      /\ op'.phase = op.phase /\ op'.kind = op.kind /\ op'.updated = op.updated /\ op'.agreed = op.agreed
  <2>1. CASE op' = op /\ state' = state
    BY <1>2, <2>1 DEF HwInv, StillTrue
  <2>2. CASE op' = [op EXCEPT !.true = @ /\ state' # "running"]
    BY <1>2, <2>2 DEF Operations
  <2> QED
    BY <2>1, <2>2
<1>6. OneOperation'
  BY <1>4, <1>5, OperationStays DEF HwInv
<1>7. StillTrue'
  BY <1>4, <1>5, TruthStays DEF HwInv
<1>8. HwTypeOK' /\ drive' \in Drives'
  BY <1>1, <1>2 DEF HwInv, HwTypeOK, HwData, Drives
<1>9. HwData'
  BY <1>3, <1>4, <1>5, <1>8 DEF HwInv, HwData, Tells
<1>10. HardwareIsCurrent' /\ DriveIsKept'
  BY <1>2, <1>3 DEF HwInv, HardwareIsCurrent, DriveIsKept
<1> QED
  BY <1>1, <1>2, <1>6, <1>7, <1>8, <1>9, <1>10 DEF HwInv

LEMMA HwFollows == LinkOK /\ HwInv /\ (HwStateChange \/ HwShownOrHidden) => LinkOK' /\ HwInv'
<1> SUFFICES ASSUME LinkOK, HwInv, HwStateChange \/ HwShownOrHidden PROVE LinkOK' /\ HwInv'
  OBVIOUS
<1>1. /\ view' \in Views /\ state' \in {"stopped", "connected", "running"} /\ visible' \in BOOLEAN
      /\ now' \in Nat /\ since' \in 0..now' /\ events' \in 0..MaxEvents[view]'
      /\ (Connected' => since' # 0) /\ now <= now' /\ (Connected /\ Connected' => since' = since)
  BY SessionMoves DEF HwStateChange, HwShownOrHidden, StateChange
<1>2. status' \in Kinds /\ inbox' = inbox /\ inbox \in Seq(HwMessages)
  <2>1. status \in Kinds /\ state \in {"stopped", "connected", "running"}
    BY DEF LinkOK
  <2>2. status' \in Kinds
    <3>1. CASE HwStateChange
      BY <1>1, <2>1, <3>1 DEF HwStateChange, Kinds
    <3>2. CASE HwShownOrHidden
      BY <2>1, <3>2 DEF HwShownOrHidden, Kinds, Connected
    <3> QED
      BY <3>1, <3>2
  <2>3. inbox' = inbox
    BY DEF HwStateChange, HwShownOrHidden
  <2> QED
    BY <2>2, <2>3 DEF HwInv, HwData
<1>3. CASE HwStateChange /\ state' = "stopped"
  <2>1. /\ hwGeneration' = hwGeneration + 1 /\ mirror' = None /\ ports' = NoPorts /\ portErrors' = {}
        /\ wire' = <<>> /\ refreshing' = FALSE /\ unheard' = FALSE
        /\ op' = IF Interrupted THEN NoOp ELSE op
        /\ UNCHANGED <<inbox, drive, saved, careless, now, since>>
    BY <1>3 DEF HwStateChange, ClearSnapshots, SessionOpens, SessionLost, Stops, Runs
  <2>2. HwTypeOK' /\ HardwareIsCurrent' /\ DriveIsKept'
    <3>1. HardwareIsCurrent' /\ DriveIsKept'
      BY <2>1 DEF HwInv, HardwareIsCurrent, DriveIsKept, NoPorts
    <3>2. ports' \in [Directions -> 0..now'] /\ hwGeneration' \in Nat
      BY <1>1, <2>1 DEF HwInv, HwTypeOK, NoPorts
    <3> QED
      BY <2>1, <3>1, <3>2 DEF HwInv, HwTypeOK
  <2>3. NoOp \in Operations
    BY DEF NoOp, Operations, Phases
  <2>4. HwData'
    BY <1>2, <2>1, <2>3, EmptySeq DEF HwInv, HwData, Drives, Operations
  <2>5. OneOperation'
    BY <2>1 DEF OneOperation
  <2>6. StillTrue'
    <3>1. CASE op' = NoOp
      BY <3>1 DEF StillTrue, NoOp
    <3>2. CASE op' = op /\ ~Interrupted
      BY <1>3, <2>1, <3>2 DEF HwInv, StillTrue
    <3> QED
      BY <2>1, <3>1, <3>2
  <2> QED
    BY <1>1, <1>2, <2>1, <2>2, <2>4, <2>5, <2>6 DEF HwInv, LinkOK
<1>4. CASE HwShownOrHidden \/ state' # "stopped"
  <2>1. /\ Refresh(Reads) /\ UNCHANGED <<hwGeneration, mirror, ports, portErrors, drive, saved, careless>>
        /\ op' = [op EXCEPT !.true = @ /\ state' # "running"] \/ (op' = op /\ state' = state)
    BY <1>4 DEF HwStateChange, HwShownOrHidden, ShownOrHidden
  <2>2. (since' = since \/ ~Connected) /\ (Connected => Connected') /\ (state' = "connected" => state = "connected" \/ now < now')
    <3>1. CASE HwShownOrHidden
      BY <3>1 DEF HwShownOrHidden, ShownOrHidden, Connected
    <3>2. CASE HwStateChange /\ state' # "stopped"
      BY <1>1, <3>2 DEF HwStateChange, SessionOpens, SessionLost, Stops, Runs, Connected, LinkOK
    <3> QED
      BY <1>4, <3>1, <3>2
  <2>3. HwInv' /\ (~Connected' => wire' = <<>>) /\ unheard' \in BOOLEAN
    BY <1>1, <1>2, <2>1, <2>2, HwRefreshes
  <2> QED
    BY <1>1, <1>2, <2>3 DEF LinkOK
<1> QED
  BY <1>3, <1>4

LEMMA HwSetsAreSame ==
  ASSUME UNCHANGED <<now, since, state, drive>>
  PROVE  HwRequests' = HwRequests /\ Snapshots' = Snapshots /\ Drives' = Drives /\ \A s : Tells(s)' = Tells(s)
<1>1. Snapshots' = Snapshots /\ Drives' = Drives
  BY DEF Snapshots, Drives
<1>2. \A s : Tells(s)' = Tells(s)
  BY DEF Tells
<1>3. StatisticsReads' = StatisticsReads
  BY <1>1, <1>2 DEF StatisticsReads
<1> QED
  BY <1>1, <1>2, <1>3 DEF HwRequests, PortReads, Fresh, Commands, Mounts

LEMMA HwTail ==
  ASSUME HwInv, wire # <<>>
  PROVE  /\ Tail(wire) \in Seq(HwRequests) /\ Head(wire) = wire[1] /\ wire[1] \in HwRequests /\ 1 \in DOMAIN wire
         /\ \A i \in DOMAIN Tail(wire) : i \in Nat /\ i + 1 \in DOMAIN wire /\ i + 1 # 1 /\ Tail(wire)[i] = wire[i + 1]
         /\ OfOperation(wire[1]) => \A i \in DOMAIN Tail(wire) : ~OfOperation(Tail(wire)[i])
<1>1. wire \in Seq(HwRequests)
  BY DEF HwInv, HwData
<1>2. /\ Tail(wire) \in Seq(HwRequests) /\ Head(wire) = wire[1] /\ wire[1] \in HwRequests /\ 1 \in DOMAIN wire
      /\ \A i \in DOMAIN Tail(wire) : i \in Nat /\ i + 1 \in DOMAIN wire /\ i + 1 # 1 /\ Tail(wire)[i] = wire[i + 1]
  BY <1>1
<1> QED
  BY <1>2 DEF HwInv, OneOperation

\* A request is answered or fails, and the operation goes on as it was.
LEMMA HwTailStays ==
  ASSUME HwInv, wire # <<>>, wire' = Tail(wire), UNCHANGED <<op, drive, saved, state>>
  PROVE  OneOperation' /\ StillTrue'
<1>1. \A i \in DOMAIN wire' : i \in Nat /\ i + 1 \in DOMAIN wire /\ wire'[i] = wire[i + 1]
  BY HwTail
<1>2. \A i, j \in DOMAIN wire' : OfOperation(wire'[i]) /\ OfOperation(wire'[j]) => i = j
  <2>1. \A i, j \in DOMAIN wire' : OfOperation(wire'[i]) /\ OfOperation(wire'[j]) => i + 1 = j + 1
    BY <1>1 DEF HwInv, OneOperation
  <2> QED
    BY <1>1, <2>1
<1>3. \A i \in DOMAIN wire' :
        OfOperation(wire'[i]) => op.phase = PhaseOf(wire'[i].kind) /\ (wire'[i].kind \in Changes => op.kind = wire'[i].kind)
  BY <1>1 DEF HwInv, OneOperation, Awaited
<1>4. OneOperation'
  BY <1>2, <1>3 DEF OneOperation, Awaited, OfOperation
<1>5. StillTrue'
  BY <1>1 DEF HwInv, StillTrue, Reported
<1> QED
  BY <1>4, <1>5

\* The first request of an operation, or of its next phase, on a wire without one.
LEMMA OperationBegins ==
  ASSUME NEW S, NEW w \in Seq(S), \A i \in DOMAIN w : ~OfOperation(w[i]),
         \/ wire' = w
         \/ \E q \in S : /\ wire' = Append(w, q) /\ q.value = 0
                         /\ OfOperation(q) => op'.phase = PhaseOf(q.kind) /\ (q.kind \in Changes => op'.kind = q.kind)
  PROVE  /\ OneOperation' /\ wire' \in Seq(S)
         /\ \A i \in DOMAIN wire' : wire'[i].kind \in {"info", "image", "reset"} => wire'[i].value = 0
<1>1. CASE wire' = w
  <2>1. \A i \in DOMAIN wire' : ~OfOperation(wire'[i])
    BY <1>1
  <2>2. OneOperation'
    BY <2>1 DEF OneOperation, Awaited, OfOperation
  <2> QED
    BY <1>1, <2>1, <2>2 DEF OfOperation
<1>2. CASE \E q \in S : /\ wire' = Append(w, q) /\ q.value = 0
                        /\ OfOperation(q) => op'.phase = PhaseOf(q.kind) /\ (q.kind \in Changes => op'.kind = q.kind)
  <2>1. PICK q \in S : /\ wire' = Append(w, q) /\ q.value = 0
                       /\ OfOperation(q) => op'.phase = PhaseOf(q.kind) /\ (q.kind \in Changes => op'.kind = q.kind)
    BY <1>2
  <2>2. /\ wire' \in Seq(S) /\ Len(wire') = Len(w) + 1 /\ wire'[Len(w) + 1] = q
        /\ \A i \in 1..Len(w) : wire'[i] = w[i]
    BY <2>1, AppendProperties
  <2>3. \A i \in DOMAIN wire' : i \in DOMAIN w \/ i = Len(w) + 1
    BY <2>2
  <2>4. \A i \in DOMAIN wire' : OfOperation(wire'[i]) => i = Len(w) + 1 /\ wire'[i] = q
    BY <2>2, <2>3
  <2>5. OneOperation'
    BY <2>1, <2>4 DEF OneOperation, Awaited, OfOperation
  <2>6. \A i \in DOMAIN wire' : wire'[i].kind \in {"info", "image", "reset"} => wire'[i].value = 0
    BY <2>1, <2>4 DEF OfOperation
  <2> QED
    BY <2>2, <2>5, <2>6
<1> QED
  BY <1>1, <1>2

\* Before its first request, an operation has none on the wire.
LEMMA NoOperationYet ==
  ASSUME HwInv, op.phase \in {"idle", "choosing", "asking", "queued"}
  PROVE  \A i \in DOMAIN wire : ~OfOperation(wire[i])
BY DEF HwInv, OneOperation, Awaited, OfOperation, PhaseOf, Changes

LEMMA HwReads == LinkOK /\ HwInv /\ (StatisticsRead \/ PortsRead) => LinkOK' /\ HwInv'
<1> SUFFICES ASSUME LinkOK, HwInv, StatisticsRead \/ PortsRead PROVE LinkOK' /\ HwInv'
  OBVIOUS
<1> DEFINE r == Head(wire)
<1>1. /\ wire # <<>> /\ wire' = Tail(wire) /\ r.value # 0
      /\ UNCHANGED <<link, inbox, status, hwGeneration, drive, saved, op, careless>>
      /\ \/ r.kind = "stats" /\ TakeSnapshot(r) /\ UNCHANGED <<ports, portErrors>>
         \/ /\ r.kind = "ports" /\ UNCHANGED mirror
            /\ ports' \in {ports, [ports EXCEPT ![r.arg] = r.value]} /\ portErrors' \subseteq portErrors
      /\ refreshing' \in BOOLEAN /\ unheard' \in BOOLEAN
  BY DEF StatisticsRead, PortsRead, Arrived, LinkOK
<1>2. Connected
  BY <1>1 DEF LinkOK
<1>3. LinkOK' /\ UNCHANGED <<now, since, visible, state>> /\ Connected' = Connected
  BY <1>1, <1>2, WithinSession DEF LinkOK
<1>4. HwRequests' = HwRequests /\ Snapshots' = Snapshots /\ Drives' = Drives /\ \A s : Tells(s)' = Tells(s)
  BY <1>1, <1>3, HwSetsAreSame
<1>5. OneOperation' /\ StillTrue' /\ r \in HwRequests /\ wire' \in Seq(HwRequests)
  BY <1>1, <1>3, HwTail, HwTailStays
<1>6. mirror' # None => mirror' \in Snapshots /\ Tells(mirror')
  <2>1. mirror # None => mirror \in Snapshots /\ Tells(mirror)
    BY DEF HwInv, HwTypeOK, HwData, Snapshots
  <2>2. r.kind = "stats" => r.arg \in Snapshots /\ Tells(r.arg)
    BY <1>1, <1>5 DEF HwRequests, PortReads, StatisticsReads, Commands, Mounts
  <2> QED
    BY <1>1, <2>1, <2>2 DEF TakeSnapshot
<1>7. ports' \in [Directions -> 0..now] /\ \A d \in Directions : ports'[d] # 0 => ports'[d] >= since
  <2>1. ports \in [Directions -> 0..now] /\ \A d \in Directions : ports[d] # 0 => ports[d] >= since
    BY DEF HwInv, HwTypeOK, HardwareIsCurrent
  <2>2. r.kind = "ports" => r.arg \in Directions /\ r.value \in 0..now /\ r.value >= since
    BY <1>1, <1>5 DEF HwRequests, PortReads, StatisticsReads, Commands, Mounts, Fresh
  <2> QED
    BY <1>1, <2>1, <2>2
<1>8. HwTypeOK'
  BY <1>1, <1>3, <1>6, <1>7 DEF HwInv, HwTypeOK, Snapshots
<1>9. HardwareIsCurrent' /\ DriveIsKept'
  BY <1>1, <1>2, <1>3, <1>6, <1>7 DEF HwInv, HardwareIsCurrent, DriveIsKept, Tells
<1>10. HwData'
  BY <1>1, <1>4, <1>5, <1>6 DEF HwInv, HwData, Tells
<1> QED
  BY <1>3, <1>5, <1>8, <1>9, <1>10 DEF HwInv

\* A step of an operation leaves what is shown, and what the drive holds.
LEMMA HwOperates ==
  ASSUME LinkOK, HwInv, UNCHANGED link \/ (Event /\ UNCHANGED session), unheard' \in BOOLEAN, status' = status,
         UNCHANGED <<hwGeneration, mirror, ports, drive, careless>>,
         portErrors' \subseteq Directions, refreshing' \in BOOLEAN, saved' \in 0..now + 1,
         op' \in Operations, inbox' \in Seq(HwMessages), wire' \in Seq(HwRequests), ~Connected => wire' = <<>>,
         OneOperation', StillTrue'
  PROVE  LinkOK' /\ HwInv'
<1>1. LinkOK' /\ UNCHANGED <<now, since, visible, state>> /\ Connected' = Connected
  BY WithinSession DEF LinkOK
<1>2. HwRequests' = HwRequests /\ Drives' = Drives /\ \A s : Tells(s)' = Tells(s)
  BY <1>1, HwSetsAreSame
<1>3. HwTypeOK'
  BY <1>1 DEF HwInv, HwTypeOK
<1>4. HardwareIsCurrent' /\ DriveIsKept'
  BY <1>1 DEF HwInv, HardwareIsCurrent, DriveIsKept
<1>5. HwData'
  BY <1>2 DEF HwInv, HwData, Tells
<1> QED
  BY <1>1, <1>3, <1>4, <1>5 DEF HwInv

LEMMA ProgramOrMenu == LinkOK /\ HwInv /\ (ProgramWrites \/ ClickHardware) => LinkOK' /\ HwInv'
<1> SUFFICES ASSUME LinkOK, HwInv, ProgramWrites \/ ClickHardware PROVE LinkOK' /\ HwInv'
  OBVIOUS
<1>1. CASE ProgramWrites
  <2>1. /\ state = "running" /\ drive.image # None /\ drive' = [drive EXCEPT !.updated = TRUE, !.wrote = now + 1]
        /\ UNCHANGED <<link, wire, inbox, status, unheard, hwGeneration, refreshing, mirror, ports, portErrors, saved, op, careless>>
    BY <1>1 DEF ProgramWrites
  <2>2. LinkOK' /\ UNCHANGED <<now, since, visible, state>> /\ Connected' = Connected
    BY <2>1, WithinSession DEF LinkOK
  <2>3. HwRequests \subseteq HwRequests' /\ \A s \in Snapshots : Tells(s) => Tells(s)'
    BY <2>1, <2>2, RequestsStay DEF LinkOK
  <2>4. drive' \in Drives' /\ drive'.image # None /\ drive'.image \in Images \cup {None}
    <3>1. drive \in Drives /\ now \in Nat /\ now' = now
      BY <2>2 DEF HwInv, HwData, LinkOK
    <3>2. drive' = [image |-> drive.image, updated |-> TRUE, wrote |-> now + 1] /\ drive.image \in Images \cup {None}
      BY <2>1, <3>1 DEF Drives
    <3>3. now + 1 \in 0..now' + 1
      BY <3>1
    <3> QED
      BY <2>1, <3>2, <3>3 DEF Drives
  <2>5. mirror # None => mirror \in Snapshots /\ Tells(mirror)
    BY DEF HwInv, HwTypeOK, HwData, Snapshots
  <2>6. mirror # None => Tells(mirror)'
    BY <2>1, <2>3, <2>5 DEF Tells
  <2>7. HwData'
    BY <2>1, <2>3, <2>4, <2>6 DEF HwInv, HwData, Tells
  <2>8. HwTypeOK'
    BY <2>1, <2>2, <2>4 DEF HwInv, HwTypeOK
  <2>9. HardwareIsCurrent' /\ DriveIsKept'
    BY <2>1, <2>2 DEF HwInv, HardwareIsCurrent, DriveIsKept
  <2>10. OneOperation'
    BY <2>1 DEF HwInv, OneOperation, Awaited, OfOperation
  <2>11. StillTrue'
    BY <2>1 DEF HwInv, StillTrue
  <2> QED
    BY <2>2, <2>7, <2>8, <2>9, <2>10, <2>11 DEF HwInv
<1>2. CASE ClickHardware
  <2>1. /\ UNCHANGED <<session, wire, status, unheard, hwGeneration, refreshing, mirror, ports, portErrors, drive, saved, op, careless>>
        /\ Event
    BY <1>2 DEF ClickHardware, hwVars
  <2>2. inbox' \in Seq(HwMessages)
    <3>1. PICK kind \in Changes : inbox' = Append(inbox, Says(kind, hwGeneration))
      BY <1>2 DEF ClickHardware, Changes
    <3>2. Says(kind, hwGeneration) \in HwMessages
      BY DEF Says, HwMessages, HwInv, HwTypeOK
    <3> QED
      BY <3>1, <3>2, AppendProperties DEF HwInv, HwData
  <2>3. OneOperation' /\ StillTrue'
    <3>1. OneOperation'
      BY <2>1 DEF HwInv, OneOperation, Awaited, OfOperation
    <3>2. StillTrue'
      BY <2>1 DEF HwInv, StillTrue, Reported, session
    <3> QED
      BY <3>1, <3>2
  <2>4. /\ portErrors' \subseteq Directions /\ refreshing' \in BOOLEAN /\ saved' \in 0..now + 1
        /\ op' \in Operations /\ wire' \in Seq(HwRequests) /\ unheard' \in BOOLEAN /\ (~Connected => wire' = <<>>)
    BY <2>1 DEF HwInv, HwTypeOK, HwData, LinkOK
  <2> QED
    BY <2>1, <2>2, <2>3, <2>4, HwOperates
<1> QED
  BY <1>1, <1>2

\* The steps that the user decides upon: an operation begins, and asks what it has to.
LEMMA UserDecides == LinkOK /\ HwInv /\ (ChooseFile \/ AnswerUnsaved \/ Mutate) => LinkOK' /\ HwInv'
<1> SUFFICES ASSUME LinkOK, HwInv, ChooseFile \/ AnswerUnsaved \/ Mutate PROVE LinkOK' /\ HwInv'
  OBVIOUS
<1>1. /\ UNCHANGED <<link, inbox, status, mirror, drive, saved, careless, hwGeneration, refreshing, ports, portErrors, unheard>>
      /\ op.phase \in {"choosing", "asking", "queued"}
  BY DEF ChooseFile, AnswerUnsaved, Mutate, Quiet
<1>2. \A i \in DOMAIN wire : ~OfOperation(wire[i])
  BY <1>1, NoOperationYet
<1>3. /\ portErrors' \subseteq Directions /\ refreshing' \in BOOLEAN /\ saved' \in 0..now + 1 /\ hwGeneration \in Nat
      /\ op \in Operations /\ wire \in Seq(HwRequests) /\ inbox' \in Seq(HwMessages) /\ unheard' \in BOOLEAN
  BY <1>1 DEF HwInv, HwTypeOK, HwData, LinkOK
<1>4. NoOp \in Operations /\ ~NoOp.true
  BY DEF NoOp, Operations, Phases
<1>5. /\ op' \in Operations /\ (~Connected => wire' = <<>>)
      /\ \/ wire' = wire
         \/ \E q \in HwRequests : /\ wire' = Append(wire, q) /\ q.value = 0
                                  /\ OfOperation(q) => op'.phase = PhaseOf(q.kind) /\ (q.kind \in Changes => op'.kind = q.kind)
      /\ op'.true => /\ op.true /\ op'.updated = op.updated
                     /\ op'.phase \in {"queued", "mutating"} /\ op'.kind # "palette" /\ drive.updated => op'.agreed
                     /\ op'.phase # "reset"
  <2>1. CASE ChooseFile
    <3>1. CASE op' = NoOp
      BY <1>4, <2>1, <3>1 DEF ChooseFile, LinkOK
    <3>2. CASE \E i \in Images : op' = [op EXCEPT !.image = i, !.phase = IF op.updated THEN "asking" ELSE "queued"]
      <4>1. PICK i \in Images : op' = [op EXCEPT !.image = i, !.phase = IF op.updated THEN "asking" ELSE "queued"]
        BY <3>2
      <4>2. op' \in Operations
        BY <1>3, <2>1, <4>1 DEF ChooseFile, Operations, Phases
      <4>3. op.true => (drive.updated => op.updated)
        BY DEF HwInv, StillTrue
      <4> QED
        BY <1>3, <2>1, <4>1, <4>2, <4>3 DEF ChooseFile, LinkOK, Operations
    <3> QED
      BY <2>1, <3>1, <3>2 DEF ChooseFile
  <2>2. CASE AnswerUnsaved
    <3>1. CASE op' = NoOp /\ wire' = wire
      BY <1>4, <3>1 DEF LinkOK
    <3>2. CASE op' = [op EXCEPT !.agreed = TRUE, !.phase = "queued"] /\ wire' = wire
      <4>1. op' \in Operations
        BY <1>3, <2>2, <3>2 DEF AnswerUnsaved, Operations, Phases
      <4> QED
        BY <1>3, <3>2, <4>1 DEF LinkOK, Operations
    <3>3. CASE Connected /\ op' = [op EXCEPT !.phase = "info"] /\ wire' = Append(wire, Request("info", None, None))
      <4>1. op' \in Operations
        BY <1>3, <2>2, <3>3 DEF AnswerUnsaved, Operations, Phases
      <4>2. Request("info", None, None) \in HwRequests /\ Request("info", None, None).value = 0
            /\ Request("info", None, None).kind = "info"
        BY DEF Request, HwRequests, StatisticsReads, LinkOK
      <4>3. op'.phase = "info" /\ op'.updated = op.updated /\ op'.true = op.true
        BY <1>3, <3>3 DEF Operations
      <4> QED
        BY <3>3, <4>1, <4>2, <4>3 DEF OfOperation, PhaseOf, Changes
    <3> QED
      BY <2>2, <3>1, <3>2, <3>3 DEF AnswerUnsaved
  <2>3. CASE Mutate
    <3>1. CASE op' = NoOp /\ wire' = wire
      BY <1>4, <3>1 DEF LinkOK
    <3>2. CASE Connected /\ op' = [op EXCEPT !.phase = "mutating"] /\ wire' = Append(wire, Request(op.kind, op.image, None))
      <4>1. op' \in Operations /\ op.kind \in Changes
        BY <1>3, <2>3, <3>2 DEF Mutate, Operations, Phases
      <4>2. Request(op.kind, op.image, None) \in HwRequests
        <5>1. CASE op.kind = "mount"
          BY <1>3, <5>1 DEF Operations, Request, HwRequests, Mounts, LinkOK
        <5>2. CASE op.kind \in {"dismount", "palette"}
          BY <1>3, <5>2 DEF Operations, Request, HwRequests, Commands, LinkOK
        <5> QED
          BY <4>1, <5>1, <5>2 DEF Changes
      <4>3. /\ op'.phase = "mutating" /\ op'.updated = op.updated /\ op'.true = op.true /\ op'.agreed = op.agreed
            /\ op'.kind = op.kind
        BY <1>3, <3>2 DEF Operations
      <4>4. op.true => (op.kind # "palette" /\ drive.updated => op.agreed)
        BY <2>3 DEF Mutate, HwInv, StillTrue
      <4> QED
        BY <3>2, <4>1, <4>2, <4>3, <4>4 DEF PhaseOf, Changes, Request
    <3> QED
      BY <2>3, <3>1, <3>2 DEF Mutate, At, Connected
  <2> QED
    BY <2>1, <2>2, <2>3
<1>6. /\ OneOperation' /\ wire' \in Seq(HwRequests)
      /\ \A i \in DOMAIN wire' : wire'[i].kind \in {"info", "image", "reset"} => wire'[i].value = 0
  BY <1>2, <1>3, <1>5, OperationBegins
<1>7. StillTrue'
  <2>1. op.true => state # "running" /\ (drive.updated => op.updated)
    BY DEF HwInv, StillTrue
  <2>2. state' = state /\ drive' = drive
    BY <1>1 DEF link, session
  <2> QED
    BY <1>5, <1>6, <2>1, <2>2 DEF StillTrue, Reported
<1> QED
  BY <1>1, <1>3, <1>5, <1>6, <1>7, HwOperates

\* An operation begins from the snapshot that is shown.
LEMMA HwHears == LinkOK /\ HwInv /\ OnHardware => LinkOK' /\ HwInv'
<1> SUFFICES ASSUME LinkOK, HwInv, OnHardware PROVE LinkOK' /\ HwInv'
  OBVIOUS
<1> DEFINE m == Head(inbox)
<1>1. /\ inbox # <<>> /\ inbox' = Tail(inbox)
      /\ UNCHANGED <<session, events, status, hwGeneration, mirror, ports, portErrors, drive, saved, careless>>
  BY DEF OnHardware
<1>2. m \in HwMessages /\ inbox' \in Seq(HwMessages)
  BY <1>1 DEF HwInv, HwData
<1>3. UNCHANGED <<link, now, since, state, visible, view, events>> /\ Connected' = Connected
  BY <1>1 DEF link, session, Connected
<1>4. CASE Refresh(Reads) /\ op' = op
  <2>1. HwInv' /\ (~Connected' => wire' = <<>>) /\ unheard' \in BOOLEAN
    BY <1>1, <1>2, <1>3, <1>4, HwRefreshes DEF LinkOK
  <2> QED
    BY <1>1, <1>3, <2>1, SessionMoves DEF LinkOK
<1>5. CASE m.type # "ready" /\ UNCHANGED <<refreshing, wire, unheard>>
           /\ op' = IF m.arg # hwGeneration \/ mirror = None \/ op.phase # "idle"
                       \/ (m.type = "dismount" /\ mirror.image = None) THEN op
                    ELSE [kind |-> m.type, image |-> None, updated |-> mirror.updated, agreed |-> FALSE,
                          phase |-> IF m.type = "mount" THEN "choosing"
                                    ELSE IF m.type = "dismount" /\ mirror.updated THEN "asking"
                                    ELSE "queued",
                          true |-> mirror.at = now /\ state = "connected"]
  <2>1. /\ portErrors' \subseteq Directions /\ refreshing' \in BOOLEAN /\ saved' \in 0..now + 1 /\ (~Connected => wire' = <<>>)
        /\ wire' \in Seq(HwRequests) /\ wire \in Seq(HwRequests) /\ unheard' \in BOOLEAN /\ op \in Operations
    BY <1>1, <1>5 DEF HwInv, HwTypeOK, HwData, LinkOK
  <2>2. m.type \in Changes
    BY <1>2, <1>5 DEF HwMessages
  <2>3. CASE op' = op
    <3>1. OneOperation'
      BY <1>5, <2>3 DEF HwInv, OneOperation, Awaited, OfOperation
    <3>2. StillTrue'
      BY <1>1, <1>3, <1>5, <2>3 DEF HwInv, StillTrue, Reported
    <3> QED
      BY <1>1, <1>2, <1>3, <2>1, <2>3, <3>1, <3>2, HwOperates
  <2>4. CASE /\ mirror # None /\ op.phase = "idle"
             /\ op' = [kind |-> m.type, image |-> None, updated |-> mirror.updated, agreed |-> FALSE,
                       phase |-> IF m.type = "mount" THEN "choosing"
                                 ELSE IF m.type = "dismount" /\ mirror.updated THEN "asking"
                                 ELSE "queued",
                       true |-> mirror.at = now /\ state = "connected"]
    <3>1. mirror.updated \in BOOLEAN /\ Tells(mirror)
      BY <2>4 DEF HwInv, HwTypeOK, HwData
    <3>2. op' \in Operations
      BY <2>2, <2>4, <3>1 DEF Operations, Phases
    <3>3. /\ OneOperation'
          /\ \A i \in DOMAIN wire' : wire'[i].kind \in {"info", "image", "reset"} => wire'[i].value = 0
      BY <1>5, <2>1, <2>4, NoOperationYet, OperationBegins
    <3>4. op'.true => /\ op'.true /\ state = "connected" /\ (drive.updated => mirror.updated)
                      /\ op'.updated = mirror.updated /\ op'.kind = m.type
                      /\ op'.phase \in {"queued", "mutating"} => m.type = "palette" \/ (m.type = "dismount" /\ ~mirror.updated)
                      /\ op'.phase # "reset"
      BY <2>2, <2>4, <3>1 DEF Tells, Changes
    <3>5. StillTrue'
      BY <1>1, <1>3, <3>3, <3>4 DEF StillTrue, Reported
    <3> QED
      BY <1>1, <1>2, <1>3, <2>1, <3>2, <3>3, <3>5, HwOperates
  <2> QED
    BY <1>5, <2>3, <2>4
<1> QED
  BY <1>4, <1>5 DEF OnHardware

LEMMA HwRequestFails == LinkOK /\ HwInv /\ HwFails => LinkOK' /\ HwInv'
<1> SUFFICES ASSUME LinkOK, HwInv, HwFails PROVE LinkOK' /\ HwInv'
  OBVIOUS
<1> DEFINE r == Head(wire)
<1>1. /\ wire # <<>> /\ Event /\ wire' = Tail(wire)
      /\ UNCHANGED <<session, inbox, status, hwGeneration, mirror, ports, drive, saved, careless>>
      /\ portErrors' = portErrors \/ (r.kind = "ports" /\ portErrors' = portErrors \cup {r.arg})
      /\ op' = IF r.kind \in {"stats", "ports"} THEN op ELSE NoOp
      /\ unheard' \in BOOLEAN
  BY DEF HwFails, Waits, LinkOK
<1>2. r = wire[1] /\ r \in HwRequests /\ wire' \in Seq(HwRequests)
      /\ (OfOperation(r) => \A i \in DOMAIN wire' : ~OfOperation(wire'[i]))
  BY <1>1, HwTail
<1>3. refreshing' \in BOOLEAN
  BY DEF HwFails, HwInv, HwTypeOK
<1>4. portErrors' \subseteq Directions /\ saved' \in 0..now + 1 /\ inbox' \in Seq(HwMessages) /\ op \in Operations /\ (~Connected => wire' = <<>>)
  BY <1>1, <1>2 DEF HwInv, HwTypeOK, HwData, LinkOK, HwRequests, PortReads, StatisticsReads, Commands, Mounts
<1>5. NoOp \in Operations /\ ~NoOp.true
  BY DEF NoOp, Operations, Phases
<1>6. OneOperation' /\ StillTrue'
  <2>1. CASE op' = op
    <3>1. state' = state
      BY <1>1 DEF session
    <3> QED
      BY <1>1, <2>1, <3>1, HwTailStays
  <2>2. CASE op' = NoOp /\ r.kind \notin {"stats", "ports"}
    <3>1. OfOperation(r)
      BY <1>2, <2>2 DEF HwRequests, PortReads, StatisticsReads, Commands, Mounts, OfOperation, Changes
    <3>2. OneOperation'
      BY <1>2, <3>1, OperationBegins
    <3> QED
      BY <1>5, <2>2, <3>2 DEF StillTrue
  <2> QED
    BY <1>1, <2>1, <2>2
<1> QED
  BY <1>1, <1>2, <1>3, <1>4, <1>5, <1>6, HwOperates

\* The answer to an operation leads to its next phase.
LEMMA NextPhase == LinkOK /\ HwInv /\ OperationGoesOn => LinkOK' /\ HwInv'
<1> SUFFICES ASSUME LinkOK, HwInv, OperationGoesOn PROVE LinkOK' /\ HwInv'
  OBVIOUS
<1> DEFINE r == Head(wire)
<1>1. /\ wire # <<>> /\ r.value # 0 /\ r.kind \notin {"stats", "ports"} /\ GoesOn
      /\ UNCHANGED <<link, inbox, status, drive, careless, hwGeneration, refreshing, ports, portErrors, unheard>>
  BY DEF OperationGoesOn, Arrived, Quiet
<1>2. r = wire[1] /\ r \in HwRequests /\ 1 \in DOMAIN wire /\ Tail(wire) \in Seq(HwRequests)
  BY <1>1, HwTail
<1>3. OfOperation(r) /\ op.phase = PhaseOf(r.kind) /\ Connected
  BY <1>1, <1>2 DEF HwRequests, PortReads, StatisticsReads, Commands, Mounts, OfOperation, Changes, HwInv, OneOperation, Awaited, LinkOK
<1>4. \A i \in DOMAIN Tail(wire) : ~OfOperation(Tail(wire)[i])
  BY <1>1, <1>2, <1>3, HwTail
<1>5. /\ portErrors' \subseteq Directions /\ refreshing' \in BOOLEAN /\ hwGeneration \in Nat /\ saved \in 0..now + 1
      /\ op \in Operations /\ inbox' \in Seq(HwMessages) /\ unheard' \in BOOLEAN /\ status' = status
      /\ op.kind \in Changes
  BY <1>1, <1>3 DEF HwInv, HwTypeOK, HwData, LinkOK, Operations, PhaseOf
<1>6. NoOp \in Operations /\ ~NoOp.true
  BY DEF NoOp, Operations, Phases
<1>7. op.true => state # "running" /\ (drive.updated => op.updated) /\ Reported(r)
  BY <1>2 DEF HwInv, StillTrue
<1>8. CASE r.kind # "verify"
  <2>1. /\ op' \in Operations /\ mirror' = mirror /\ saved' \in 0..now + 1
        /\ op'.true = op.true /\ op'.updated = op.updated /\ op'.kind = op.kind /\ op'.agreed = op.agreed
        /\ \/ wire' = Tail(wire)
           \/ \E q \in HwRequests : /\ wire' = Append(Tail(wire), q) /\ q.value = 0
                                    /\ OfOperation(q) => op'.phase = PhaseOf(q.kind) /\ (q.kind \in Changes => op'.kind = q.kind)
        /\ op.true => /\ op'.phase = "queued" => ~drive.updated
                      /\ op'.phase # "mutating"
                      /\ op'.phase = "reset" => saved' = drive.wrote
    <3>1. ASSUME NEW phase \in {"image", "reset", "verifying", "queued"}, At(phase)
          PROVE  /\ op' \in Operations /\ op'.phase = phase
                 /\ op'.true = op.true /\ op'.updated = op.updated /\ op'.kind = op.kind /\ op'.agreed = op.agreed
      BY <1>5, <3>1 DEF At, Operations, Phases
    <3>2. ASSUME NEW kind \in {"image", "reset", "verify"}
          PROVE  Request(kind, None, hwGeneration) \in HwRequests /\ Request(kind, None, hwGeneration).value = 0
                 /\ Request(kind, None, hwGeneration).kind = kind
      BY <1>5 DEF Request, HwRequests, StatisticsReads, Commands, LinkOK
    <3>3. ASSUME NEW kind \in {"image", "reset", "verify"}, Continue(PhaseOf(kind), kind)
          PROVE  \E q \in HwRequests : /\ wire' = Append(Tail(wire), q) /\ q.value = 0
                                       /\ OfOperation(q) => op'.phase = PhaseOf(q.kind) /\ (q.kind \in Changes => op'.kind = q.kind)
      <4>1. PhaseOf(kind) \in {"image", "reset", "verifying"}
        BY DEF PhaseOf
      <4> QED
        BY <3>1, <3>2, <3>3, <4>1 DEF Continue, Changes
    <3>4. CASE r.kind = "info" /\ r.arg.image # None /\ r.arg.updated /\ Continue("image", "image") /\ UNCHANGED <<mirror, saved>>
      <4>1. Continue(PhaseOf("image"), "image")
        BY <3>4 DEF PhaseOf
      <4> QED
        BY <1>5, <3>1, <3>3, <3>4, <4>1 DEF Continue
    <3>5. CASE r.kind = "info" /\ ~(r.arg.image # None /\ r.arg.updated) /\ At("queued") /\ wire' = Tail(wire)
               /\ UNCHANGED <<mirror, saved>>
      <4>1. op.true => ~drive.updated
        BY <1>1, <1>7, <3>5 DEF Reported, HwInv, HwData
      <4> QED
        BY <1>5, <3>1, <3>5, <4>1
    <3>6. CASE r.kind = "image" /\ saved' = r.value /\ Continue("reset", "reset") /\ UNCHANGED mirror
      <4>1. Continue(PhaseOf("reset"), "reset")
        BY <3>6 DEF PhaseOf
      <4>2. r.value \in 0..now + 1
        BY <1>2, <3>6 DEF HwRequests, PortReads, StatisticsReads, Commands, Mounts
      <4>3. op.true => saved' = drive.wrote
        BY <1>1, <1>7, <3>6 DEF Reported
      <4> QED
        BY <3>1, <3>3, <3>6, <4>1, <4>2, <4>3 DEF Continue
    <3>7. CASE r.kind = "reset" /\ At("queued") /\ wire' = Tail(wire) /\ UNCHANGED <<mirror, saved>>
      <4>1. op.true => ~drive.updated
        BY <1>1, <1>7, <3>7 DEF Reported
      <4> QED
        BY <1>5, <3>1, <3>7, <4>1
    <3>8. CASE Continue("verifying", "verify") /\ UNCHANGED <<mirror, saved>>
      <4>1. Continue(PhaseOf("verify"), "verify")
        BY <3>8 DEF PhaseOf
      <4> QED
        BY <1>5, <3>1, <3>3, <3>8, <4>1 DEF Continue
    <3> QED
      BY <1>1, <1>8, <3>4, <3>5, <3>6, <3>7, <3>8 DEF GoesOn, Export
  <2>2. /\ OneOperation' /\ wire' \in Seq(HwRequests)
        /\ \A i \in DOMAIN wire' : wire'[i].kind \in {"info", "image", "reset"} => wire'[i].value = 0
    BY <1>2, <1>4, <2>1, OperationBegins
  <2>3. StillTrue'
    <3>1. state' = state /\ drive' = drive
      BY <1>1 DEF link, session
    <3> QED
      BY <1>7, <2>1, <2>2, <3>1 DEF StillTrue, Reported
  <2> QED
    BY <1>1, <1>3, <1>5, <2>1, <2>2, <2>3, HwOperates
<1>9. CASE r.kind = "verify"
  <2>1. TakeSnapshot(r) /\ op' = NoOp /\ wire' = Tail(wire) /\ saved' = saved
    BY <1>1, <1>9 DEF GoesOn
  <2>2. LinkOK' /\ UNCHANGED <<now, since, visible, state>> /\ Connected' = Connected
    BY <1>1, <1>3, WithinSession DEF LinkOK
  <2>3. HwRequests' = HwRequests /\ Snapshots' = Snapshots /\ Drives' = Drives /\ \A s : Tells(s)' = Tells(s)
    BY <1>1, <2>2, HwSetsAreSame
  <2>4. OneOperation'
    BY <1>2, <1>4, <2>1, OperationBegins
  <2>5. StillTrue'
    BY <1>6, <2>1 DEF StillTrue
  <2>6. mirror' # None => mirror' \in Snapshots /\ Tells(mirror')
    <3>1. mirror # None => mirror \in Snapshots /\ Tells(mirror)
      BY DEF HwInv, HwTypeOK, HwData, Snapshots
    <3>2. r.arg \in Snapshots /\ Tells(r.arg)
      BY <1>1, <1>2, <1>9 DEF HwRequests, PortReads, StatisticsReads, Commands, Mounts
    <3> QED
      BY <2>1, <3>1, <3>2 DEF TakeSnapshot
  <2>7. HwTypeOK'
    BY <1>1, <2>1, <2>2, <2>6 DEF HwInv, HwTypeOK, Snapshots
  <2>8. HardwareIsCurrent' /\ DriveIsKept'
    BY <1>1, <1>3, <2>2, <2>6 DEF HwInv, HardwareIsCurrent, DriveIsKept, Tells
  <2>9. HwData'
    BY <1>1, <1>2, <1>5, <1>6, <2>1, <2>3, <2>6 DEF HwInv, HwData, Tells
  <2> QED
    BY <2>2, <2>4, <2>5, <2>7, <2>8, <2>9 DEF HwInv
<1> QED
  BY <1>8, <1>9

LEMMA AnsweredRequest ==
  ASSUME NEW kind, NEW arg, NEW tag, NEW value, NEW v, NEW a,
         NEW q \in [kind : {kind}, arg : {arg}, tag : {tag}, value : {value}]
  PROVE  [q EXCEPT !.value = v, !.arg = a] \in [kind : {kind}, arg : {a}, tag : {tag}, value : {v}]
<1>1. [q EXCEPT !.value = v] \in [kind : {kind}, arg : {arg}, tag : {tag}, value : {v}]
  OBVIOUS
<1> QED
  BY <1>1

LEMMA AnsweredTriple ==
  ASSUME NEW kind, NEW arg, NEW tag, NEW value, NEW v, NEW t, NEW a,
         NEW q \in [kind : {kind}, arg : {arg}, tag : {tag}, value : {value}]
  PROVE  LET d == [q EXCEPT !.value = v, !.tag = t, !.arg = a]
         IN  /\ d.kind = kind /\ d.value = v /\ d.tag = t /\ d.arg = a
             /\ d \in [kind : {kind}, arg : {a}, tag : {t}, value : {v}]
<1>1. [q EXCEPT !.value = v] \in [kind : {kind}, arg : {arg}, tag : {tag}, value : {v}]
  OBVIOUS
<1>2. [q EXCEPT !.value = v, !.tag = t] \in [kind : {kind}, arg : {arg}, tag : {t}, value : {v}]
  BY <1>1
<1>3. [q EXCEPT !.value = v, !.tag = t, !.arg = a] \in [kind : {kind}, arg : {a}, tag : {t}, value : {v}]
  BY <1>2
<1> QED
  BY <1>3

\* The emulator executes a request: it writes nothing, and drops or forgets an update
\* only after the user has agreed or the image has been saved, if the snapshot is true.
LEMMA HwExecutes == LinkOK /\ HwInv /\ HwExecute => LinkOK' /\ HwInv'
<1> SUFFICES ASSUME LinkOK, HwInv, HwExecute PROVE LinkOK' /\ HwInv'
  OBVIOUS
<1> DEFINE r == Head(wire)
           k == r.kind
           drops == k \in {"mount", "dismount"} /\ drive.updated /\ ~op.agreed
           forgets == k = "reset" /\ drive.wrote # saved
           value == IF k = "image" THEN drive.wrote ELSE now
           arg == IF k \in {"stats", "verify", "info"} THEN Snapshot(now) ELSE r.arg
           done == [r EXCEPT !.value = value, !.arg = arg]
<1>1. /\ wire # <<>>
      /\ drive' = CASE k = "mount" -> [image |-> r.arg, updated |-> FALSE, wrote |-> 0]
                    [] k = "dismount" -> [image |-> None, updated |-> FALSE, wrote |-> 0]
                    [] k = "reset" -> [drive EXCEPT !.updated = FALSE]
                    [] OTHER -> drive
      /\ careless' = (careless \/ (op.true /\ (drops \/ forgets)))
      /\ UNCHANGED <<link, inbox, status, unheard, hwGeneration, refreshing, mirror, ports, portErrors, saved, op>>
  BY DEF HwExecute, Waits
<1>2. r = wire[1] /\ r \in HwRequests /\ 1 \in DOMAIN wire /\ wire \in Seq(HwRequests)
  BY <1>1, HwTail DEF HwInv, HwData
<1>3. wire' = [wire EXCEPT ![1] = done]
  <2>1. wire' = [wire EXCEPT ![1].value = value, ![1].arg = IF k \in {"stats", "verify", "info"} THEN Snapshot(now) ELSE @]
    BY DEF HwExecute
  <2> QED
    BY <1>2, <2>1
<1>4. Connected /\ k \in {"ports", "stats", "verify", "info", "image", "reset", "palette", "dismount", "mount"}
  BY <1>1, <1>2 DEF LinkOK, HwRequests, PortReads, StatisticsReads, Commands, Mounts
<1>5. LinkOK' /\ UNCHANGED <<now, since, visible, state>> /\ Connected' = Connected
  <2>1. Connected /\ status' = status /\ UNCHANGED unheard /\ UNCHANGED link
    BY <1>1, <1>4
  <2> QED
    BY <2>1, WithinSession DEF LinkOK
<1>6. drive \in Drives /\ now \in Nat /\ since \in 1..now /\ (drive.updated => drive.image # None)
  BY <1>4 DEF HwInv, HwData, LinkOK
<1>7. drive' \in Drives /\ (drive'.updated => drive.updated /\ drive' = drive)
  <2>1. k = "mount" => r.arg \in Images \cup {None}
    BY <1>2 DEF HwRequests, PortReads, StatisticsReads, Commands, Mounts
  <2>2. k \in {"mount", "dismount"} => drive' \in Drives /\ ~drive'.updated
    BY <1>1, <1>6, <2>1 DEF Drives
  <2>3. k = "reset" => drive' \in Drives /\ ~drive'.updated
    BY <1>1, <1>6 DEF Drives
  <2>4. k \notin {"mount", "dismount", "reset"} => drive' = drive
    BY <1>1
  <2> QED
    BY <1>6, <2>2, <2>3, <2>4
<1>8. HwRequests \subseteq HwRequests' /\ \A s \in Snapshots : Tells(s) => Tells(s)'
  BY <1>5, <1>6, <1>7, RequestsStay
<1>9. done \in HwRequests' /\ done.kind = k /\ done.value = value /\ done.arg = arg
  <2>1. done.kind = k /\ done.value = value /\ done.arg = arg
    BY <1>2 DEF HwRequests, PortReads, StatisticsReads, Commands, Mounts
  <2>6. done \in [kind : {k}, arg : {arg}, tag : {r.tag}, value : {value}]
    <3>1. r \in [kind : {r.kind}, arg : {r.arg}, tag : {r.tag}, value : {r.value}]
      <4>1. CASE r \in PortReads
        BY <4>1 DEF PortReads
      <4>2. CASE r \in StatisticsReads
        BY <4>2 DEF StatisticsReads
      <4>3. CASE r \in Commands
        BY <4>3 DEF Commands
      <4>4. CASE r \in Mounts
        BY <4>4 DEF Mounts
      <4> QED
        BY <1>2, <4>1, <4>2, <4>3, <4>4 DEF HwRequests
    <3> QED
      BY <3>1, AnsweredRequest
  <2> HIDE DEF done
  <2>2. CASE k = "ports"
    <3>1. r \in PortReads
      BY <1>2, <2>2 DEF HwRequests, StatisticsReads, Commands, Mounts
    <3>2. done = [r EXCEPT !.value = now] /\ now' = now /\ since' = since
      BY <1>5, <2>2, <2>6, <3>1 DEF PortReads
    <3>3. done \in PortReads'
      BY <1>6, <3>1, <3>2 DEF PortReads, Fresh
    <3> QED
      BY <2>1, <3>3 DEF HwRequests
  <2>3. CASE k \in {"stats", "verify", "info"}
    <3>1. r \in StatisticsReads
      BY <1>2, <2>3 DEF HwRequests, PortReads, Commands, Mounts
    <3>2. Snapshot(now) \in Snapshots /\ Tells(Snapshot(now))
      BY <1>6 DEF Snapshot, Snapshots, Tells, Drives
    <3>3. Snapshot(now) \in Snapshots' /\ Tells(Snapshot(now))
      BY <1>5, <3>2 DEF Snapshots
    <3>4. drive' = drive
      BY <1>1, <2>3
    <3>5. StatisticsReads' = StatisticsReads
      <4>1. Snapshots' = Snapshots /\ \A s : Tells(s)' = Tells(s)
        BY <1>5, <3>4, HwSetsAreSame
      <4> QED
        BY <1>5, <4>1 DEF StatisticsReads
    <3>6. done \in [kind : {k}, arg : {Snapshot(now)}, tag : {r.tag}, value : {now}] /\ r.tag \in Nat \cup {None}
      BY <2>3, <2>6, <3>1 DEF StatisticsReads
    <3>7. done \in StatisticsReads
      BY <1>6, <2>3, <3>2, <3>6 DEF StatisticsReads
    <3> QED
      BY <2>1, <3>5, <3>7 DEF HwRequests
  <2>4. CASE k \in {"image", "reset", "palette", "dismount"}
    <3>1. r \in Commands
      BY <1>2, <2>4 DEF HwRequests, PortReads, StatisticsReads, Mounts
    <3>2. value \in 0..now + 1 /\ arg = None /\ r.tag \in Nat \cup {None}
      BY <1>6, <2>4, <3>1 DEF Drives, Commands
    <3> HIDE DEF value, arg
    <3>3. done \in Commands
      BY <2>4, <2>6, <3>2 DEF Commands
    <3> QED
      BY <1>5, <2>1, <3>3 DEF HwRequests, Commands
  <2>5. CASE k = "mount"
    <3>1. r \in Mounts
      BY <1>2, <2>5 DEF HwRequests, PortReads, StatisticsReads, Commands
    <3>2. value \in 0..now /\ arg \in Images \cup {None} /\ r.tag = None
      BY <1>6, <2>5, <3>1 DEF Mounts
    <3> HIDE DEF value, arg
    <3>3. done \in Mounts
      BY <2>5, <2>6, <3>2 DEF Mounts
    <3> QED
      BY <1>5, <2>1, <3>3 DEF HwRequests, Mounts
  <2> QED
    BY <1>4, <2>2, <2>3, <2>4, <2>5
<1> HIDE DEF done
<1>10. /\ wire' \in Seq(HwRequests') /\ DOMAIN wire' = DOMAIN wire
       /\ \A i \in DOMAIN wire : wire'[i] = IF i = 1 THEN done ELSE wire[i]
  <2>1. wire \in Seq(HwRequests') /\ 1 \in 1..Len(wire)
    BY <1>2, <1>8
  <2> QED
    BY <1>2, <1>3, <1>9, <2>1, ExceptSeq
<1>11. OneOperation'
  <2>1. \A i \in DOMAIN wire' : wire'[i].kind = wire[i].kind
    BY <1>2, <1>9, <1>10
  <2>2. \A i, j \in DOMAIN wire' : OfOperation(wire'[i]) /\ OfOperation(wire'[j]) => i = j
    BY <1>10, <2>1 DEF OfOperation, HwInv, OneOperation
  <2>3. \A i \in DOMAIN wire' :
          OfOperation(wire'[i]) => op'.phase = PhaseOf(wire'[i].kind) /\ (wire'[i].kind \in Changes => op'.kind = wire'[i].kind)
    BY <1>1, <1>10, <2>1 DEF OfOperation, HwInv, OneOperation, Awaited
  <2> QED
    BY <2>2, <2>3 DEF OneOperation, Awaited, OfOperation
<1>12. StillTrue'
  <2> SUFFICES ASSUME op.true PROVE StillTrue'
    BY <1>1 DEF StillTrue
  <2>1. /\ state # "running" /\ (drive.updated => op.updated)
        /\ op.phase \in {"queued", "mutating"} /\ op.kind # "palette" /\ drive.updated => op.agreed
        /\ op.phase = "reset" => saved = drive.wrote
        /\ \A i \in DOMAIN wire : Reported(wire[i])
    BY DEF HwInv, StillTrue
  <2>2. OfOperation(r) => op.phase = PhaseOf(k) /\ \A i \in DOMAIN wire : i # 1 => ~OfOperation(wire[i])
    BY <1>2 DEF HwInv, OneOperation, Awaited
  <2>3. op.phase = "reset" => drive'.wrote = drive.wrote
    <3>1. op.phase = "reset" => k \notin {"mount", "dismount"}
      BY <2>2 DEF OfOperation, PhaseOf, Changes
    <3> QED
      BY <1>1, <1>6, <3>1 DEF Drives
  <2>4. ASSUME NEW i \in DOMAIN wire'
        PROVE  wire'[i].value # 0 => /\ wire'[i].kind = "info" => wire'[i].arg.updated = drive'.updated /\ wire'[i].arg.image = drive'.image
                                     /\ wire'[i].kind = "image" => wire'[i].value = drive'.wrote
                                     /\ wire'[i].kind = "reset" => ~drive'.updated
    <3>1. CASE i = 1
      <4>1. k = "info" => arg.updated = drive'.updated /\ arg.image = drive'.image
        BY <1>1 DEF Snapshot
      <4>2. k = "image" => value = drive'.wrote
        BY <1>1
      <4>3. k = "reset" => ~drive'.updated
        BY <1>1, <1>6 DEF Drives
      <4> QED
        BY <1>9, <1>10, <3>1, <4>1, <4>2, <4>3
    <3>2. CASE i # 1
      <4>1. wire'[i] = wire[i]
        BY <1>10, <3>2
      <4>2. CASE OfOperation(r)
        BY <1>10, <2>2, <3>2, <4>1, <4>2 DEF OfOperation
      <4>3. CASE ~OfOperation(r)
        <5>1. drive' = drive
          BY <1>1, <4>3 DEF OfOperation, Changes
        <5> QED
          BY <1>10, <2>1, <4>1, <5>1 DEF Reported
      <4> QED
        BY <4>2, <4>3
    <3> QED
      BY <3>1, <3>2
  <2> QED
    BY <1>1, <1>5, <1>7, <2>1, <2>3, <2>4 DEF StillTrue, Reported
<1>13. DriveIsKept'
  <2>1. op.true => ~drops /\ ~forgets
    <3> SUFFICES ASSUME op.true PROVE ~drops /\ ~forgets
      OBVIOUS
    <3>1. OfOperation(r) => op.phase = PhaseOf(k) /\ (k \in Changes => op.kind = k)
      BY <1>2 DEF HwInv, OneOperation, Awaited
    <3>2. /\ op.phase \in {"queued", "mutating"} /\ op.kind # "palette" /\ drive.updated => op.agreed
          /\ op.phase = "reset" => saved = drive.wrote
      BY DEF HwInv, StillTrue
    <3> QED
      BY <3>1, <3>2 DEF OfOperation, PhaseOf, Changes
  <2> QED
    BY <1>1, <2>1 DEF HwInv, DriveIsKept
<1>14. HwTypeOK' /\ HardwareIsCurrent'
  <2>1. drive'.image \in Images \cup {None}
    BY <1>7 DEF Drives
  <2>2. HwTypeOK'
    BY <1>1, <1>5, <2>1 DEF HwInv, HwTypeOK
  <2> QED
    BY <1>1, <1>5, <2>2 DEF HwInv, HardwareIsCurrent
<1>15. HwData'
  <2>1. mirror # None => mirror \in Snapshots /\ Tells(mirror)
    BY DEF HwInv, HwTypeOK, HwData, Snapshots
  <2>2. mirror' # None => Tells(mirror)'
    BY <1>1, <1>8, <2>1 DEF Tells
  <2>3. Drives' = Drives
    BY <1>5 DEF Drives
  <2> QED
    BY <1>1, <1>6, <1>7, <1>10, <2>2, <2>3 DEF HwInv, HwData
<1> QED
  BY <1>5, <1>11, <1>12, <1>13, <1>14, <1>15 DEF HwInv

LEMMA HwStep == LinkOK /\ HwInv /\ HwNext => LinkOK' /\ HwInv'
BY HwFollows, ProgramOrMenu, HwReads, UserDecides, HwHears, HwRequestFails, NextPhase, HwExecutes DEF HwNext

LEMMA HwKeepsStill == LinkOK /\ HwIdle /\ UNCHANGED hwVars /\ now' \in Nat /\ now <= now' => HwIdle'
<1> SUFFICES ASSUME LinkOK, HwIdle, UNCHANGED hwVars, now' \in Nat, now <= now' PROVE HwIdle'
  OBVIOUS
<1>1. ports' \in [Directions -> 0..now'] /\ saved' \in 0..now' + 1
  <2>1. ports' = ports /\ saved' = saved /\ ports \in [Directions -> 0..now] /\ saved \in 0..now + 1 /\ now \in Nat
    BY DEF hwVars, HwIdle, HwTypeOK, LinkOK
  <2>2. \A n \in Nat : now <= n => 0..now \subseteq 0..n /\ 0..now + 1 \subseteq 0..n + 1
    BY <2>1
  <2> QED
    BY <2>1, <2>2
<1> QED
  BY <1>1 DEF hwVars, HwIdle, HwTypeOK, DriveIsKept
--------------------------------------------------------------------------------
(***************************************************************************)
(* The display and its overlays.                                            *)
(***************************************************************************)
FrameRequests == {q \in [kind : {"frame", "single"}, arg : {None}, tag : {None}, value : Nat] : Fresh(q.value)}
\* A report that was executed holds nothing that has been removed.
Reports ==
    {q \in [kind : {"overlays"}, arg : {None} \cup [Scripts -> Stamps], tag : Nat, value : 0..now] :
        q.value # 0 => q.arg \in [Scripts -> Stamps] /\ \A s \in Scripts : q.arg[s] # 0 => q.arg[s] > removed[s]}
\* What is drawn after a removal is newer than it.
Removals ==
    {q \in [kind : {"remove"}, arg : Scripts, tag : {None} \cup Stamps, value : 0..now] :
        q.value # 0 => q.tag \in Stamps /\ (drawn[q.arg] # 0 => drawn[q.arg] > q.tag)}
DisplayRequests == FrameRequests \cup Reports \cup Removals

\* A request that is not executed holds whatever has happened.
Pending == {q \in DisplayRequests : q.value = 0}

\* Requests are executed one at a time, in their order.
OnlyFirst(w) == \A i \in DOMAIN w : w[i].value # 0 => i = 1
DisplayWire == wire \in Seq(DisplayRequests) /\ OnlyFirst(wire)

Canvas == picture # 0 => Connected /\ picture >= since
\* The canvas shows the cache, and the cache nothing that has been removed.
Cached ==
    /\ \A s \in Scripts : /\ drawn[s] # 0 => drawn[s] > removed[s]
                          /\ entries[s] # 0 => entries[s] > removed[s]
    /\ overlays = IF pageState = "ready" THEN entries ELSE Empty
    /\ ~Connected => entries = Empty

DisplayInv == DisplayTypeOK /\ DisplayWire /\ Canvas /\ Cached
DisplayIdle == DisplayTypeOK /\ picture = 0 /\ entries = Empty /\ overlays = Empty

LEMMA CanvasIsCurrent == DisplayInv => DisplayIsCurrent
BY DEF DisplayInv, DisplayTypeOK, Canvas, Cached, Empty, DisplayIsCurrent

LEMMA DisplayRequestsStay ==
  ASSUME LinkOK, DisplayTypeOK, now' \in Nat, now <= now', since' = since,
         stamp' \in Nat, stamp <= stamp', removed' = removed,
         drawn' \in [Scripts -> 0..stamp'],
         \A s \in Scripts : drawn'[s] = drawn[s] \/ drawn'[s] = 0 \/ drawn'[s] > stamp
  PROVE  DisplayRequests \subseteq DisplayRequests'
<1>1. now \in Nat /\ stamp \in Nat /\ Stamps \subseteq Stamps'
  BY DEF LinkOK, DisplayTypeOK, Stamps
<1>2. FrameRequests \subseteq FrameRequests'
  BY <1>1 DEF FrameRequests, Fresh
<1>3. Reports \subseteq Reports'
  BY <1>1 DEF Reports
<1>4. Removals \subseteq Removals'
  <2> SUFFICES ASSUME NEW q \in Removals PROVE q \in Removals'
    OBVIOUS
  <2>1. q \in [kind : {"remove"}, arg : Scripts, tag : {None} \cup Stamps', value : 0..now']
    BY <1>1 DEF Removals
  <2>2. q.value # 0 => q.tag \in Stamps /\ q.tag \in Nat /\ q.tag <= stamp /\ (drawn[q.arg] # 0 => drawn[q.arg] > q.tag)
    BY <1>1 DEF Removals, Stamps
  <2>3. q.value # 0 => (drawn'[q.arg] # 0 => drawn'[q.arg] > q.tag)
    <3>1. q.arg \in Scripts
      BY <2>1
    <3>2. CASE drawn'[q.arg] = drawn[q.arg] \/ drawn'[q.arg] = 0
      BY <2>2, <3>2
    <3>3. CASE drawn'[q.arg] > stamp
      <4>1. drawn'[q.arg] \in Nat
        BY <3>1
      <4> QED
        BY <1>1, <2>2, <3>3, <4>1
    <3> QED
      BY <3>1, <3>2, <3>3
  <2> QED
    BY <1>1, <2>1, <2>2, <2>3 DEF Removals
<1> QED
  BY <1>2, <1>3, <1>4 DEF DisplayRequests

LEMMA PendingStay ==
  ASSUME LinkOK, DisplayTypeOK, now' \in Nat, now <= now', stamp' \in Nat, stamp <= stamp'
  PROVE  Pending \subseteq DisplayRequests'
<1>1. 0..now \subseteq 0..now' /\ Stamps \subseteq Stamps' /\ 0 \in 0..now'
  BY DEF LinkOK, DisplayTypeOK, Stamps
<1> SUFFICES ASSUME NEW q \in Pending PROVE q \in DisplayRequests'
  OBVIOUS
<1>2. CASE q \in FrameRequests
  BY <1>1, <1>2 DEF Pending, FrameRequests, Fresh, DisplayRequests
<1>3. CASE q \in Reports
  <2>1. [Scripts -> Stamps] \subseteq [Scripts -> Stamps']
    BY <1>1
  <2> QED
    BY <1>1, <1>3, <2>1 DEF Pending, Reports, DisplayRequests
<1>4. CASE q \in Removals
  BY <1>1, <1>4 DEF Pending, Removals, DisplayRequests
<1> QED
  BY <1>2, <1>3, <1>4 DEF Pending, DisplayRequests

LEMMA WireOfDisplay ==
  ASSUME DisplayInv, wire # <<>>
  PROVE  /\ Head(wire) = wire[1] /\ Head(wire) \in DisplayRequests /\ 1 \in DOMAIN wire
         /\ \A i \in DOMAIN wire : i # 1 => wire[i] \in Pending
         /\ Tail(wire) \in Seq(Pending)
         /\ \A i \in DOMAIN Tail(wire) : Tail(wire)[i].value = 0
<1>1. wire \in Seq(DisplayRequests) /\ OnlyFirst(wire)
  BY DEF DisplayInv, DisplayWire
<1>2. \A i \in DOMAIN wire : wire[i] \in DisplayRequests /\ (i # 1 => wire[i] \in Pending)
  BY <1>1 DEF OnlyFirst, Pending
<1>3. Head(wire) = wire[1] /\ 1 \in DOMAIN wire
  BY <1>1
<1>4. Tail(wire) \in Seq(DisplayRequests) /\ \A i \in DOMAIN Tail(wire) : i + 1 \in DOMAIN wire /\ i + 1 # 1 /\ Tail(wire)[i] = wire[i + 1]
  BY <1>1
<1>5. \A i \in DOMAIN Tail(wire) : Tail(wire)[i] \in Pending
  BY <1>2, <1>4
<1>6. \A i \in DOMAIN Tail(wire) : Tail(wire)[i].value = 0
  BY <1>5 DEF Pending
<1>7. Tail(wire) \in Seq(Pending)
  <2>1. Tail(wire) \in [1..Len(Tail(wire)) -> DisplayRequests] /\ Len(Tail(wire)) \in Nat
    BY <1>4, LenProperties
  <2>2. Tail(wire) \in [1..Len(Tail(wire)) -> Pending]
    BY <1>5, <2>1
  <2> QED
    BY <2>1, <2>2, SeqDef
<1> QED
  BY <1>2, <1>3, <1>6, <1>7

\* Requests that follow those of now are not executed yet.
LEMMA RequestsFollow ==
  ASSUME NEW S, NEW w \in Seq(S), OnlyFirst(w), NEW more \in Seq(S), \A i \in DOMAIN more : more[i].value = 0
  PROVE  w \o more \in Seq(S) /\ OnlyFirst(w \o more)
<1>1. /\ w \o more \in Seq(S) /\ Len(w \o more) = Len(w) + Len(more)
      /\ \A i \in 1..Len(w) + Len(more) : (w \o more)[i] = IF i <= Len(w) THEN w[i] ELSE more[i - Len(w)]
  BY ConcatProperties
<1>2. \A i \in DOMAIN (w \o more) : i \in DOMAIN w \/ (i > Len(w) /\ i - Len(w) \in DOMAIN more)
  BY <1>1
<1> QED
  BY <1>1, <1>2 DEF OnlyFirst

LEMMA OneFollows ==
  ASSUME NEW S, NEW w \in Seq(S), OnlyFirst(w), NEW q \in S, q.value = 0
  PROVE  /\ w \o <<q>> \in Seq(S) /\ OnlyFirst(w \o <<q>>)
         /\ w \o <<>> \in Seq(S) /\ OnlyFirst(w \o <<>>)
<1>1. <<q>> \in Seq(S) /\ (\A i \in DOMAIN <<q>> : <<q>>[i].value = 0) /\ <<>> \in Seq(S)
  OBVIOUS
<1>2. \A i \in DOMAIN <<>> : <<>>[i].value = 0
  OBVIOUS
<1> QED
  BY <1>1, <1>2, RequestsFollow

LEMMA PanelAsks ==
  ASSUME LinkOK, DisplayTypeOK
  PROVE  /\ {Frame, SingleFrame, ChangedOverlays} \subseteq Pending
         /\ \A s \in Scripts : Request("remove", s, None) \in Pending
BY DEF Pending, Frame, SingleFrame, ChangedOverlays, Request, DisplayRequests, FrameRequests, Fresh, Reports, Removals,
       LinkOK, DisplayTypeOK

\* The polling timer, and the first request that it makes.
LEMMA Polls ==
  ASSUME LinkOK, DisplayTypeOK, NEW S, NEW requests \in Seq(S), OnlyFirst(requests), Pending \subseteq S,
         UpdatePolling(requests) \/ (RefreshOverlays(requests) /\ polling' = polling),
         visible' \in BOOLEAN
  PROVE  /\ wire' \in Seq(S) /\ OnlyFirst(wire') /\ polling' \in BOOLEAN /\ overlaysAsked' \in BOOLEAN
         /\ state' = "stopped" /\ requests = <<>> => wire' = <<>>
<1>1. ChangedOverlays \in S /\ ChangedOverlays.value = 0
  BY PanelAsks DEF Pending
<1>2. /\ requests \o <<ChangedOverlays>> \in Seq(S) /\ OnlyFirst(requests \o <<ChangedOverlays>>)
      /\ requests \o <<>> \in Seq(S) /\ OnlyFirst(requests \o <<>>)
  BY <1>1, OneFollows
<1>3. requests = <<>> => requests \o <<>> = <<>>
  OBVIOUS
<1>4. CASE RefreshOverlays(requests) /\ polling' \in BOOLEAN
  BY <1>2, <1>3, <1>4 DEF RefreshOverlays, DisplayTypeOK
<1>5. CASE wire' = requests /\ UNCHANGED overlaysAsked /\ polling' \in BOOLEAN
  BY <1>5 DEF DisplayTypeOK
<1> QED
  BY <1>4, <1>5 DEF UpdatePolling, DisplayTypeOK

LEMMA SameRequests ==
  ASSUME UNCHANGED <<now, since, stamp, removed, drawn>>
  PROVE  DisplayRequests' = DisplayRequests /\ Stamps' = Stamps
<1>1. Stamps' = Stamps
  BY DEF Stamps
<1>2. FrameRequests' = FrameRequests
  BY DEF FrameRequests, Fresh
<1>3. Reports' = Reports
  BY <1>1 DEF Reports
<1>4. Removals' = Removals
  BY <1>1 DEF Removals
<1> QED
  BY <1>1, <1>2, <1>3, <1>4 DEF DisplayRequests

LEMMA DisplayFollows == LinkOK /\ DisplayInv /\ (DisplayStateChange \/ DisplayShownOrHidden) => LinkOK' /\ DisplayInv'
<1> SUFFICES ASSUME LinkOK, DisplayInv, DisplayStateChange \/ DisplayShownOrHidden PROVE LinkOK' /\ DisplayInv'
  OBVIOUS
<1>1. /\ view' \in Views /\ state' \in {"stopped", "connected", "running"} /\ visible' \in BOOLEAN
      /\ now' \in Nat /\ since' \in 0..now' /\ events' \in 0..MaxEvents[view]'
      /\ (Connected' => since' # 0) /\ now <= now' /\ (Connected /\ Connected' => since' = since)
  BY SessionMoves DEF DisplayStateChange, DisplayShownOrHidden, StateChange
<1>2. /\ status' = status /\ status \in Kinds /\ DisplayTypeOK /\ now \in Nat /\ stamp \in Nat
      /\ UNCHANGED <<drawn, stamp, removed, pageState, recreations>>
  BY DEF DisplayInv, DisplayTypeOK, LinkOK, DisplayStateChange, SessionEnds, SessionGoesOn, DisplayShownOrHidden, emulatorVars
<1>3. Stamps' = Stamps /\ Pending \subseteq DisplayRequests'
  BY <1>1, <1>2, PendingStay DEF Stamps
<1>4. CASE DisplayStateChange /\ state' = "stopped"
  <2>1. /\ wire' = <<>> /\ overlaysAsked' = FALSE /\ polling' = FALSE /\ looping' = FALSE
        /\ entries' = Empty /\ overlays' = Empty /\ overlayGeneration' = overlayGeneration + 1
        /\ picture' = 0 /\ dropped' = {} /\ changed' = changed /\ unheard' = unheard
    BY <1>4 DEF DisplayStateChange, SessionEnds
  <2>2. Empty \in [Scripts -> Stamps'] /\ 0 \in 0..now'
    BY <1>1, <1>2, <1>3 DEF Empty, Stamps
  <2>3. DisplayTypeOK'
    <3>1. overlayGeneration' \in Nat
      BY <1>2, <2>1 DEF DisplayTypeOK
    <3>2. drawn' \in [Scripts -> Stamps'] /\ removed' \in [Scripts -> Stamps']
      BY <1>2, <1>3 DEF DisplayTypeOK
    <3>3. entries' \in [Scripts -> Stamps'] /\ overlays' \in [Scripts -> Stamps']
      BY <2>1, <2>2
    <3> QED
      BY <1>2, <2>1, <2>2, <3>1, <3>2, <3>3 DEF DisplayTypeOK
  <2>4. DisplayWire'
    BY <2>1, EmptySeq DEF DisplayWire, OnlyFirst
  <2>5. Canvas' /\ Cached'
    BY <1>2, <2>1 DEF DisplayInv, Canvas, Cached, Empty
  <2> QED
    BY <1>1, <1>2, <2>1, <2>3, <2>4, <2>5 DEF LinkOK, DisplayInv
<1>5. CASE state' # "stopped" \/ DisplayShownOrHidden
  <2>1. wire \in Seq(DisplayRequests') /\ OnlyFirst(wire)
    <3>1. CASE state = "stopped"
      BY <3>1, EmptySeq DEF LinkOK, Connected, OnlyFirst
    <3>2. CASE state # "stopped"
      <4>1. since' = since
        BY <1>1, <1>5, <3>2 DEF Connected, DisplayShownOrHidden, ShownOrHidden
      <4>2. drawn' \in [Scripts -> 0..stamp']
        BY <1>2 DEF DisplayTypeOK, Stamps
      <4>3. DisplayRequests \subseteq DisplayRequests'
        BY <1>1, <1>2, <4>1, <4>2, DisplayRequestsStay
      <4> QED
        BY <4>3 DEF DisplayInv, DisplayWire
    <3> QED
      BY <3>1, <3>2
  <2>2. PICK asked \in {<<>>, <<Frame>>} :
             /\ UpdatePolling(wire \o asked) /\ looping' \in BOOLEAN /\ changed' \subseteq Scripts
             /\ (state' = "stopped" => asked = <<>>)
             /\ UNCHANGED <<entries, overlayGeneration, picture, overlays, unheard, dropped>>
    <3>1. CASE DisplayStateChange /\ state' # "stopped"
      <4>1. SessionGoesOn /\ unheard' = unheard
        BY <3>1 DEF DisplayStateChange
      <4>2. (IF looping' THEN StartLoop ELSE <<>>) \in {<<>>, <<Frame>>}
        BY DEF StartLoop
      <4> QED
        BY <1>2, <3>1, <4>1, <4>2 DEF SessionGoesOn, DisplayTypeOK
    <3>2. CASE DisplayShownOrHidden
      <4>1. wire \o <<>> = wire
        BY <2>1
      <4> QED
        BY <1>2, <3>2, <4>1 DEF DisplayShownOrHidden, emulatorVars, DisplayTypeOK
    <3> QED
      BY <1>5, <3>1, <3>2
  <2>3. wire \o asked \in Seq(DisplayRequests') /\ OnlyFirst(wire \o asked)
    <3>1. Frame \in DisplayRequests' /\ Frame.value = 0
      BY <1>2, <1>3, PanelAsks DEF Pending
    <3> QED
      BY <2>1, <3>1, OneFollows
  <2>4. /\ wire' \in Seq(DisplayRequests') /\ OnlyFirst(wire') /\ polling' \in BOOLEAN /\ overlaysAsked' \in BOOLEAN
        /\ (state' = "stopped" => wire' = <<>>)
    <3>1. state' = "stopped" => wire \o asked = <<>>
      BY <1>5, <2>2 DEF LinkOK, Connected, DisplayShownOrHidden, ShownOrHidden
    <3> QED
      BY <1>1, <1>2, <1>3, <2>2, <2>3, <3>1, Polls
  <2>5. picture \in 0..now'
    BY <1>1, <1>2 DEF DisplayTypeOK
  <2>6. DisplayTypeOK'
    BY <1>2, <1>3, <2>2, <2>4, <2>5 DEF DisplayTypeOK
  <2>7. Connected => Connected'
    BY <1>5 DEF Connected, DisplayShownOrHidden, ShownOrHidden
  <2>8. Canvas' /\ Cached'
    BY <1>1, <1>2, <2>2, <2>7 DEF DisplayInv, Canvas, Cached
  <2> QED
    BY <1>1, <1>2, <2>2, <2>4, <2>6, <2>8 DEF LinkOK, DisplayInv, DisplayWire, Connected
<1> QED
  BY <1>4, <1>5

\* The panel's own steps, and the timer's.
LEMMA PanelChanges == LinkOK /\ DisplayInv /\ (OpenOrClose \/ ReadyTimeout \/ PageReady \/ OverlayTick) => LinkOK' /\ DisplayInv'
<1> SUFFICES ASSUME LinkOK, DisplayInv, OpenOrClose \/ ReadyTimeout \/ PageReady \/ OverlayTick
             PROVE  LinkOK' /\ DisplayInv'
  OBVIOUS
<1>1. /\ UNCHANGED link \/ (Event /\ UNCHANGED session)
      /\ UNCHANGED <<session, status, unheard, entries, overlayGeneration, drawn, changed, stamp, removed, dropped>>
  BY DEF OpenOrClose, ReadyTimeout, PageReady, OverlayTick, link, serviceVars, emulatorVars
<1>2. DisplayTypeOK /\ wire \in Seq(DisplayRequests) /\ OnlyFirst(wire) /\ status \in Kinds /\ state \in {"stopped", "connected", "running"}
  BY DEF DisplayInv, DisplayWire, LinkOK
<1>3. UNCHANGED <<state, visible, now, since>> /\ Connected' = Connected /\ visible' \in BOOLEAN
  BY <1>1 DEF session, Connected, LinkOK
<1>4. DisplayRequests' = DisplayRequests /\ Stamps' = Stamps
  BY <1>1, <1>3, SameRequests
<1>5. wire' \in Seq(DisplayRequests) /\ OnlyFirst(wire') /\ (~Connected => wire' = <<>>) /\ polling' \in BOOLEAN /\ overlaysAsked' \in BOOLEAN
  <2>1. Pending \subseteq DisplayRequests
    BY DEF Pending
  <2>2. CASE OpenOrClose \/ ReadyTimeout
    BY <1>2, <2>2 DEF OpenOrClose, ReadyTimeout, Disposed, serviceVars, DisplayTypeOK, LinkOK
  <2>3. CASE PageReady
    <3>1. PICK asked \in {<<>>, <<Frame>>, <<SingleFrame>>} :
               UpdatePolling(wire \o asked) /\ (state = "stopped" => asked = <<>>)
      <4> DEFINE a == CASE state = "running" -> StartLoop [] state = "connected" -> <<SingleFrame>> [] OTHER -> <<>>
      <4>1. a \in {<<>>, <<Frame>>, <<SingleFrame>>} /\ (state = "stopped" => a = <<>>)
        BY <1>2 DEF StartLoop
      <4>2. UpdatePolling(wire \o a)
        BY <2>3 DEF PageReady
      <4> QED
        BY <4>1, <4>2
    <3>2. wire \o asked \in Seq(DisplayRequests) /\ OnlyFirst(wire \o asked)
      <4>1. {Frame, SingleFrame} \subseteq DisplayRequests /\ Frame.value = 0 /\ SingleFrame.value = 0
        BY <1>2, PanelAsks DEF Pending
      <4> QED
        BY <1>2, <4>1, OneFollows
    <3>3. ~Connected => wire \o asked = <<>>
      BY <3>1 DEF LinkOK, Connected
    <3> QED
      BY <1>2, <1>3, <2>1, <3>1, <3>2, <3>3, Polls DEF Connected
  <2>4. CASE OverlayTick
    <3>1. RefreshOverlays(wire) /\ polling' = polling
      BY <2>4 DEF OverlayTick, panelVars
    <3> QED
      BY <1>2, <1>3, <2>1, <3>1, Polls DEF Connected, LinkOK
  <2> QED
    BY <2>2, <2>3, <2>4
<1>6. LinkOK'
  BY <1>1, <1>2, <1>5, WithinSession
<1>7. /\ pageState' \in {"closed", "loading", "ready", "late"} /\ recreations' \in 0..MaxRecreations /\ looping' \in BOOLEAN
      /\ picture' \in {0, picture} /\ overlays' \in {Empty, entries}
      /\ overlays' = IF pageState' = "ready" THEN entries' ELSE Empty
  <2>1. recreations \in Nat /\ MaxRecreations \in Nat
    BY DisplayAssumption DEF DisplayInv, DisplayTypeOK
  <2>2. CASE OpenOrClose \/ ReadyTimeout
    <3>1. /\ pageState' \in {"closed", "loading", "late"} /\ recreations' \in 0..MaxRecreations /\ looping' \in BOOLEAN
          /\ \/ picture' = 0 /\ overlays' = Empty
             \/ pageState = "loading" /\ picture' = picture /\ overlays' = overlays
      <4>1. CASE OpenOrClose
        BY <1>2, <4>1 DEF OpenOrClose, Disposed, DisplayTypeOK
      <4>2. CASE ReadyTimeout /\ recreations < MaxRecreations
        <5>1. /\ recreations' = recreations + 1 /\ pageState' = "loading" /\ looping' = FALSE
              /\ picture' = 0 /\ overlays' = Empty
          BY <4>2 DEF ReadyTimeout, Disposed
        <5>2. recreations' \in 0..MaxRecreations
          BY <2>1, <4>2, <5>1
        <5> QED
          BY <5>1, <5>2
      <4>3. CASE ReadyTimeout /\ ~(recreations < MaxRecreations)
        <5>1. pageState' = "late" /\ pageState = "loading" /\ UNCHANGED <<recreations, looping, polling, picture, overlays>>
          BY <4>3 DEF ReadyTimeout
        <5> QED
          BY <1>2, <5>1 DEF DisplayTypeOK
      <4> QED
        BY <2>2, <4>1, <4>2, <4>3
    <3>2. pageState = "loading" => overlays = Empty
      BY DEF DisplayInv, Cached
    <3> QED
      BY <3>1, <3>2
  <2>3. CASE PageReady
    BY <1>1, <1>2, <2>1, <2>3 DEF PageReady, Show, DisplayTypeOK
  <2>4. CASE OverlayTick
    BY <1>1, <1>2, <2>4 DEF OverlayTick, panelVars, DisplayTypeOK, DisplayInv, Cached
  <2> QED
    BY <2>2, <2>3, <2>4
<1>8. DisplayTypeOK'
  <2>1. Empty \in [Scripts -> Stamps] /\ entries \in [Scripts -> Stamps] /\ picture \in 0..now /\ 0 \in 0..now
    BY <1>2 DEF DisplayTypeOK, Stamps, Empty, LinkOK
  <2>2. overlays' \in [Scripts -> Stamps] /\ picture' \in 0..now
    BY <1>7, <2>1
  <2> QED
    BY <1>1, <1>2, <1>3, <1>4, <1>5, <1>7, <2>2 DEF DisplayTypeOK
<1>9. Canvas' /\ Cached'
  BY <1>1, <1>3, <1>7 DEF DisplayInv, Canvas, Cached, Empty
<1> QED
  BY <1>4, <1>5, <1>6, <1>8, <1>9 DEF DisplayInv, DisplayWire

\* An answer is taken in: a frame, a report of overlays, or the removal of one.
LEMMA DisplayTakes ==
  ASSUME LinkOK, DisplayInv, wire # <<>>, Takes(Head(wire)), UNCHANGED <<session, drawn, changed, stamp>>
  PROVE  DisplayInv'
<1> DEFINE r == Head(wire)
<1>1. /\ DisplayTypeOK /\ r \in DisplayRequests /\ Connected
      /\ Tail(wire) \in Seq(Pending) /\ \A i \in DOMAIN Tail(wire) : Tail(wire)[i].value = 0
  BY WireOfDisplay DEF DisplayInv, LinkOK
<1>2. /\ now \in Nat /\ stamp \in Nat /\ UNCHANGED <<state, now, since>> /\ Connected' = Connected /\ Stamps' = Stamps
      /\ pageState' = pageState
  BY DEF LinkOK, DisplayTypeOK, DisplayInv, session, Connected, Stamps, Takes, FrameArrives, OverlaysArrive, RemovalArrives, RemoveScript
<1>3. Pending \subseteq DisplayRequests'
  BY <1>1, <1>2, PendingStay
<1>4. Tail(wire) \in Seq(DisplayRequests') /\ OnlyFirst(Tail(wire))
  BY <1>1, <1>3 DEF OnlyFirst
<1>5. CASE r.kind \in {"frame", "single"} /\ FrameArrives(r)
  <2> DEFINE more == IF r.kind = "frame" /\ looping /\ pageState # "closed" THEN <<Frame>> ELSE <<>>
  <2>1. /\ wire' = Tail(wire) \o more
        /\ picture' \in {r.value, picture} /\ (picture' # picture => r.value # 0)
        /\ UNCHANGED <<pageState, recreations, looping, polling, overlays, entries, overlaysAsked, overlayGeneration, removed, dropped>>
    BY <1>5 DEF FrameArrives, serviceVars
  <2>2. wire' \in Seq(DisplayRequests') /\ OnlyFirst(wire')
    <3>1. more \in {<<>>, <<Frame>>} /\ Frame \in DisplayRequests' /\ Frame.value = 0
      BY <1>1, <1>3, PanelAsks DEF Pending
    <3> HIDE DEF more
    <3> QED
      BY <1>4, <2>1, <3>1, OneFollows
  <2>3. r.value \in 0..now /\ (r.value # 0 => r.value >= since)
    BY <1>1, <1>5 DEF DisplayRequests, FrameRequests, Fresh, Reports, Removals
  <2>4. picture' \in 0..now
    BY <1>1, <2>1, <2>3 DEF DisplayTypeOK
  <2>5. DisplayTypeOK'
    BY <1>1, <1>2, <2>1, <2>4 DEF DisplayTypeOK
  <2>6. Canvas' /\ Cached'
    BY <1>1, <1>2, <2>1, <2>3 DEF DisplayInv, Canvas, Cached
  <2> QED
    BY <1>1, <2>1, <2>2, <2>5, <2>6 DEF DisplayInv, DisplayWire
<1>6. CASE r.kind = "overlays" /\ OverlaysArrive(r)
  <2> DEFINE accepted == r.value # 0 /\ r.tag = overlayGeneration
  <2>1. /\ wire' = Tail(wire) /\ overlaysAsked' = FALSE
        /\ entries' = [s \in Scripts |-> IF accepted /\ r.arg[s] # 0 THEN r.arg[s] ELSE entries[s]]
        /\ overlays' = IF pageState = "ready" THEN entries' ELSE overlays
        /\ UNCHANGED <<pageState, recreations, looping, polling, picture, overlayGeneration, removed>>
        /\ dropped' \subseteq dropped \cup Scripts
    BY <1>6 DEF OverlaysArrive, Show
  <2>2. accepted => r.arg \in [Scripts -> Stamps] /\ \A s \in Scripts : r.arg[s] # 0 => r.arg[s] > removed[s]
    BY <1>1, <1>6 DEF DisplayRequests, FrameRequests, Reports, Removals
  <2> HIDE DEF accepted
  <2>3. entries' \in [Scripts -> Stamps] /\ \A s \in Scripts : entries'[s] # 0 => entries'[s] > removed[s]
    BY <1>1, <2>1, <2>2 DEF DisplayInv, DisplayTypeOK, Cached
  <2>4. overlays' \in [Scripts -> Stamps] /\ overlays' = IF pageState' = "ready" THEN entries' ELSE Empty
    BY <1>1, <2>1, <2>3 DEF DisplayInv, DisplayTypeOK, Cached
  <2>5. DisplayTypeOK'
    BY <1>1, <1>2, <2>1, <2>3, <2>4 DEF DisplayTypeOK
  <2>6. Canvas' /\ Cached'
    BY <1>1, <1>2, <2>1, <2>3, <2>4 DEF DisplayInv, Canvas, Cached
  <2> QED
    BY <1>1, <1>4, <2>1, <2>5, <2>6 DEF DisplayInv, DisplayWire
<1>7. CASE r.kind = "remove" /\ RemovalArrives(r)
  <2>1. /\ wire' = Tail(wire) /\ UNCHANGED <<pageState, recreations, looping, polling, picture, overlaysAsked>>
        /\ dropped' \subseteq dropped
    BY <1>7 DEF RemovalArrives, RemoveScript
  <2>2. CASE r.value = 0
    <3>1. UNCHANGED <<entries, overlays, overlayGeneration, removed>>
      BY <1>7, <2>2 DEF RemovalArrives
    <3>2. DisplayTypeOK' /\ Canvas' /\ Cached'
      BY <1>1, <1>2, <2>1, <3>1 DEF DisplayInv, DisplayTypeOK, Canvas, Cached
    <3> QED
      BY <1>1, <1>4, <2>1, <3>2 DEF DisplayInv, DisplayWire
  <2>3. CASE r.value # 0
    <3>1. /\ overlayGeneration' = overlayGeneration + 1
          /\ entries' = [entries EXCEPT ![r.arg] = 0] /\ removed' = [removed EXCEPT ![r.arg] = r.tag]
          /\ overlays' = IF pageState = "ready" THEN entries' ELSE overlays
      BY <1>7, <2>3 DEF RemovalArrives, RemoveScript, Show
    <3>2. r.arg \in Scripts /\ r.tag \in Stamps /\ (drawn[r.arg] # 0 => drawn[r.arg] > r.tag)
      BY <1>1, <1>7, <2>3 DEF DisplayRequests, FrameRequests, Reports, Removals
    <3>3. /\ entries' \in [Scripts -> Stamps] /\ removed' \in [Scripts -> Stamps] /\ overlayGeneration' \in Nat
          /\ \A s \in Scripts : /\ drawn[s] # 0 => drawn[s] > removed'[s]
                                /\ entries'[s] # 0 => entries'[s] > removed'[s]
      BY <1>1, <1>2, <3>1, <3>2 DEF DisplayInv, DisplayTypeOK, Cached, Stamps
    <3>4. overlays' \in [Scripts -> Stamps] /\ overlays' = IF pageState' = "ready" THEN entries' ELSE Empty
      BY <1>1, <2>1, <3>1, <3>3 DEF DisplayInv, DisplayTypeOK, Cached
    <3>5. DisplayTypeOK'
      BY <1>1, <1>2, <2>1, <3>3, <3>4 DEF DisplayTypeOK
    <3>6. Canvas' /\ Cached'
      BY <1>1, <1>2, <2>1, <3>3, <3>4 DEF DisplayInv, Canvas, Cached
    <3> QED
      BY <1>1, <1>4, <2>1, <3>5, <3>6 DEF DisplayInv, DisplayWire
  <2> QED
    BY <2>2, <2>3
<1> QED
  BY <1>5, <1>6, <1>7 DEF Takes

LEMMA DisplayHears == LinkOK /\ DisplayInv /\ (DisplayAnswer \/ DisplayRefused) => LinkOK' /\ DisplayInv'
<1> SUFFICES ASSUME LinkOK, DisplayInv, DisplayAnswer \/ DisplayRefused PROVE LinkOK' /\ DisplayInv'
  OBVIOUS
<1>1. /\ wire # <<>> /\ Takes(Head(wire)) /\ UNCHANGED <<session, status, unheard, drawn, changed, stamp>>
      /\ UNCHANGED link \/ (Event /\ UNCHANGED session)
  BY DEF DisplayAnswer, DisplayRefused, Arrived, Waits, link
<1>2. DisplayInv' /\ unheard' \in BOOLEAN /\ status' \in Kinds /\ Connected
  BY <1>1, DisplayTakes DEF LinkOK
<1>3. LinkOK'
  BY <1>1, <1>2, WithinSession
<1> QED
  BY <1>2, <1>3

\* What the scripts draw, and what the Scripts panel asks to take away.
LEMMA ScriptsDrawOrGo == LinkOK /\ DisplayInv /\ (Draws \/ AsksForRemoval) => LinkOK' /\ DisplayInv'
<1> SUFFICES ASSUME LinkOK, DisplayInv, Draws \/ AsksForRemoval PROVE LinkOK' /\ DisplayInv'
  OBVIOUS
<1>1. Event /\ UNCHANGED <<session, status, unheard, panelVars, serviceVars, removed, dropped>>
  BY DEF Draws, AsksForRemoval, displayVars, emulatorVars
<1>2. UNCHANGED <<state, now, since>> /\ Connected' = Connected
  BY <1>1 DEF session, Connected
<1>3. DisplayTypeOK /\ wire \in Seq(DisplayRequests) /\ OnlyFirst(wire) /\ now \in Nat /\ stamp \in Nat /\ status \in Kinds
  BY DEF DisplayInv, DisplayWire, DisplayTypeOK, LinkOK
<1>4. CASE Draws
  <2>1. PICK s \in Scripts : drawn' = [drawn EXCEPT ![s] = stamp + 1] /\ changed' = changed \cup {s}
    BY <1>4 DEF Draws
  <2>2. stamp' = stamp + 1 /\ wire' = wire /\ Connected
    BY <1>4 DEF Draws, Connected
  <2>3. Stamps \subseteq Stamps' /\ stamp + 1 \in Stamps' /\ stamp' \in Nat
    BY <1>3, <2>2 DEF Stamps
  <2>4. drawn' \in [Scripts -> Stamps'] /\ \A x \in Scripts : drawn'[x] = drawn[x] \/ drawn'[x] > stamp
    BY <1>3, <2>1, <2>3 DEF DisplayTypeOK
  <2>5. DisplayRequests \subseteq DisplayRequests'
    <3>1. drawn' \in [Scripts -> 0..stamp'] /\ removed' = removed /\ now' \in Nat /\ now <= now' /\ stamp <= stamp'
      BY <1>1, <1>2, <1>3, <2>2, <2>4 DEF Stamps
    <3> QED
      BY <1>2, <1>3, <2>3, <2>4, <3>1, DisplayRequestsStay
  <2>6. DisplayTypeOK'
    <3>1. /\ entries \in [Scripts -> Stamps'] /\ overlays \in [Scripts -> Stamps'] /\ removed \in [Scripts -> Stamps']
          /\ changed' \subseteq Scripts
      BY <1>3, <2>1, <2>3 DEF DisplayTypeOK
    <3> QED
      BY <1>1, <1>2, <1>3, <2>3, <2>4, <3>1 DEF DisplayTypeOK, panelVars, serviceVars
  <2>7. Cached'
    <3>1. \A x \in Scripts : drawn'[x] # 0 => drawn'[x] > removed[x]
      <4>1. ASSUME NEW x \in Scripts, drawn'[x] # 0 PROVE drawn'[x] > removed[x]
        <5>1. removed[x] \in 0..stamp /\ drawn'[x] \in Int
          BY <1>3, <2>3, <2>4 DEF DisplayTypeOK, Stamps
        <5>2. drawn[x] # 0 => drawn[x] > removed[x]
          BY DEF DisplayInv, Cached
        <5>3. drawn'[x] = drawn[x] \/ drawn'[x] > stamp
          BY <2>4
        <5> QED
          BY <1>3, <4>1, <5>1, <5>2, <5>3
      <4> QED
        BY <4>1
    <3> QED
      BY <1>1, <1>2, <3>1 DEF DisplayInv, Cached, panelVars, serviceVars
  <2>8. Canvas'
    BY <1>1, <1>2 DEF DisplayInv, Canvas, panelVars
  <2>9. LinkOK'
    BY <1>1, <1>3, <2>2, WithinSession
  <2> QED
    BY <1>3, <2>2, <2>5, <2>6, <2>7, <2>8, <2>9 DEF DisplayInv, DisplayWire
<1>5. CASE AsksForRemoval
  <2>1. PICK s \in Scripts : wire' = Append(wire, Request("remove", s, None))
    BY <1>5 DEF AsksForRemoval
  <2>2. UNCHANGED <<drawn, changed, stamp>> /\ Connected
    BY <1>5 DEF AsksForRemoval, displayVars, emulatorVars
  <2>3. DisplayRequests' = DisplayRequests /\ Stamps' = Stamps
    BY <1>1, <1>2, <2>2, SameRequests
  <2>4. wire' \in Seq(DisplayRequests) /\ OnlyFirst(wire')
    <3>1. Request("remove", s, None) \in DisplayRequests /\ Request("remove", s, None).value = 0
      BY <1>3, PanelAsks DEF Pending
    <3>2. wire' = wire \o <<Request("remove", s, None)>>
      BY <1>3, <2>1, <3>1, AppendIsConcat
    <3> QED
      BY <1>3, <3>1, <3>2, OneFollows
  <2>5. DisplayTypeOK' /\ Canvas' /\ Cached'
    BY <1>1, <1>2, <1>3, <2>2, <2>3 DEF DisplayInv, DisplayTypeOK, Canvas, Cached, panelVars, serviceVars
  <2>6. LinkOK'
    BY <1>1, <1>3, <2>2, WithinSession
  <2> QED
    BY <2>3, <2>4, <2>5, <2>6 DEF DisplayInv, DisplayWire
<1> QED
  BY <1>4, <1>5

\* The emulator executes the oldest request.  What it reports is still drawn, and so newer
\* than what was removed; what is drawn after a removal gets a greater stamp.
LEMMA DisplayExecutes == LinkOK /\ DisplayInv /\ DisplayExecute => LinkOK' /\ DisplayInv'
<1> SUFFICES ASSUME LinkOK, DisplayInv, DisplayExecute PROVE LinkOK' /\ DisplayInv'
  OBVIOUS
<1> DEFINE r == Head(wire)
           k == r.kind
           report == [s \in Scripts |-> IF s \in changed THEN drawn[s] ELSE 0]
           tag == IF k = "remove" THEN stamp + 1 ELSE r.tag
           arg == IF k = "overlays" THEN report ELSE r.arg
           done == [r EXCEPT !.value = now, !.tag = tag, !.arg = arg]
<1>1. /\ wire # <<>> /\ r.value = 0
      /\ changed' \subseteq changed
      /\ drawn' = IF k = "remove" THEN [drawn EXCEPT ![r.arg] = 0] ELSE drawn
      /\ stamp' = IF k = "remove" THEN stamp + 1 ELSE stamp
      /\ UNCHANGED <<link, inbox, status, unheard, panelVars, serviceVars, removed, dropped>>
  BY DEF DisplayExecute, Waits
<1>2. /\ r = wire[1] /\ r \in DisplayRequests /\ 1 \in DOMAIN wire /\ wire \in Seq(DisplayRequests) /\ Connected
      /\ \A i \in DOMAIN wire : i # 1 => wire[i] \in Pending
  BY <1>1, WireOfDisplay DEF DisplayInv, DisplayWire, LinkOK
<1>3. wire' = [wire EXCEPT ![1] = done]
  <2>1. wire' = [wire EXCEPT ![1].value = now, ![1].tag = IF k = "remove" THEN stamp + 1 ELSE @,
                             ![1].arg = IF k = "overlays" THEN report ELSE @]
    BY DEF DisplayExecute
  <2> QED
    BY <1>2, <2>1
<1>4. /\ DisplayTypeOK /\ now \in Nat /\ stamp \in Nat /\ since \in 1..now /\ status \in Kinds
      /\ UNCHANGED <<state, now, since>> /\ Connected' = Connected
  BY <1>1, <1>2 DEF DisplayInv, DisplayTypeOK, LinkOK, link, session, Connected
<1>5. Stamps \subseteq Stamps' /\ stamp' \in Nat /\ stamp <= stamp'
  BY <1>1, <1>4 DEF Stamps
<1>6. drawn' \in [Scripts -> Stamps'] /\ \A x \in Scripts : drawn'[x] = drawn[x] \/ drawn'[x] = 0
  <2>1. drawn \in [Scripts -> Stamps'] /\ 0 \in Stamps'
    BY <1>4, <1>5 DEF DisplayTypeOK, Stamps
  <2>2. [drawn EXCEPT ![r.arg] = 0] \in [Scripts -> Stamps']
    BY <2>1
  <2>3. \A x \in Scripts : [drawn EXCEPT ![r.arg] = 0][x] \in {0, drawn[x]}
    BY <2>1
  <2> QED
    BY <1>1, <2>1, <2>2, <2>3
<1>7. /\ done.kind = k /\ done.value = now /\ done.tag = tag /\ done.arg = arg
      /\ done \in [kind : {k}, arg : {arg}, tag : {tag}, value : {now}]
  <2>1. r \in [kind : {k}, arg : {r.arg}, tag : {r.tag}, value : {r.value}]
    <3>1. CASE r \in FrameRequests
      BY <3>1 DEF FrameRequests
    <3>2. CASE r \in Reports
      BY <3>2 DEF Reports
    <3>3. CASE r \in Removals
      BY <3>3 DEF Removals
    <3> QED
      BY <1>2, <3>1, <3>2, <3>3 DEF DisplayRequests
  <2> QED
    BY <2>1, AnsweredTriple
<1> HIDE DEF done
<1>8. done \in DisplayRequests'
  <2>1. CASE r \in FrameRequests
    <3>1. k \in {"frame", "single"} /\ r.arg = None /\ r.tag = None
      BY <2>1 DEF FrameRequests
    <3> QED
      BY <1>4, <1>7, <3>1 DEF DisplayRequests, FrameRequests, Fresh
  <2>2. CASE r \in Reports
    <3>1. k = "overlays" /\ r.tag \in Nat
      BY <2>2 DEF Reports
    <3>2. report \in [Scripts -> Stamps'] /\ \A s \in Scripts : report[s] # 0 => report[s] > removed'[s]
      BY <1>1, <1>4, <1>5 DEF DisplayInv, DisplayTypeOK, Cached, Stamps
    <3> HIDE DEF report
    <3>3. done \in [kind : {"overlays"}, arg : {report}, tag : {r.tag}, value : {now}]
      BY <1>7, <3>1
    <3> QED
      BY <1>4, <1>7, <3>1, <3>2, <3>3 DEF DisplayRequests, Reports
  <2>3. CASE r \in Removals
    <3>1. k = "remove" /\ r.arg \in Scripts
      BY <2>3 DEF Removals
    <3>2. drawn'[r.arg] = 0 /\ stamp + 1 \in Stamps'
      BY <1>1, <1>4, <3>1 DEF DisplayTypeOK, Stamps
    <3>3. done \in [kind : {"remove"}, arg : {r.arg}, tag : {stamp + 1}, value : {now}] /\ done.arg = r.arg /\ done.tag = stamp + 1
      BY <1>7, <3>1
    <3> QED
      BY <1>4, <1>7, <3>1, <3>2, <3>3 DEF DisplayRequests, Removals
  <2> QED
    BY <1>2, <2>1, <2>2, <2>3 DEF DisplayRequests
<1>9. wire' \in Seq(DisplayRequests') /\ OnlyFirst(wire')
  <2>1. Pending \subseteq DisplayRequests'
    BY <1>4, <1>5, PendingStay
  <2>2. /\ wire' \in [1..Len(wire) -> DisplayRequests'] /\ Len(wire) \in Nat
        /\ \A i \in 1..Len(wire) : i # 1 => wire'[i] = wire[i]
    BY <1>2, <1>3, <1>8, <2>1
  <2> QED
    BY <1>2, <2>2, SeqDef DEF OnlyFirst, Pending
<1>10. DisplayTypeOK'
  <2>1. /\ entries \in [Scripts -> Stamps'] /\ overlays \in [Scripts -> Stamps'] /\ removed \in [Scripts -> Stamps']
        /\ changed' \subseteq Scripts
    BY <1>1, <1>4, <1>5 DEF DisplayTypeOK
  <2> QED
    BY <1>1, <1>4, <1>5, <1>6, <2>1 DEF DisplayTypeOK, panelVars, serviceVars
<1>11. Canvas' /\ Cached'
  <2>1. \A x \in Scripts : drawn'[x] # 0 => drawn'[x] > removed[x]
    BY <1>6 DEF DisplayInv, Cached
  <2> QED
    BY <1>1, <1>4, <2>1 DEF DisplayInv, Canvas, Cached, panelVars, serviceVars
<1>12. LinkOK'
  BY <1>1, <1>2, <1>4, WithinSession
<1> QED
  BY <1>9, <1>10, <1>11, <1>12 DEF DisplayInv, DisplayWire

LEMMA DisplayStep == LinkOK /\ DisplayInv /\ DisplayNext => LinkOK' /\ DisplayInv'
BY DisplayFollows, PanelChanges, DisplayHears, ScriptsDrawOrGo, DisplayExecutes DEF DisplayNext

LEMMA DisplayKeepsStill == LinkOK /\ DisplayIdle /\ UNCHANGED displayVars /\ now' \in Nat /\ now <= now' => DisplayIdle'
<1> SUFFICES ASSUME LinkOK, DisplayIdle, UNCHANGED displayVars, now' \in Nat, now <= now' PROVE DisplayIdle'
  OBVIOUS
<1>1. UNCHANGED <<panelVars, serviceVars, emulatorVars>> /\ Stamps' = Stamps
  BY DEF displayVars, emulatorVars, Stamps
<1>2. picture' = 0 /\ picture' \in 0..now' /\ Empty' = Empty
  BY <1>1 DEF DisplayIdle, panelVars, Empty
<1> QED
  BY <1>1, <1>2 DEF DisplayIdle, DisplayTypeOK, panelVars, serviceVars, emulatorVars
--------------------------------------------------------------------------------
(***************************************************************************)
(* The symbols.                                                             *)
(***************************************************************************)
Contents == [artifact : Artifacts, version : Nat \ {0}]
SymRows == [generation : Nat, content : Contents \cup {None}]
\* A row whose id is in force shows the index.
TrueRows ==
    {r \in SymRows : /\ r.generation <= indexGeneration
                     /\ r.generation = indexGeneration /\ index # None => r.content = index}
ShownRows == {r \in SymRows : r.content # None => r \in TrueRows}
SymMessages == [type : {"ready"}, arg : Ranges] \cup [type : {"action"}, arg : TrueRows]
Loads == [artifact : Artifacts, number : Nat, sync : Nat, version : Nat]
Generations == syncGeneration \in Nat /\ loadGeneration \in Nat /\ indexGeneration \in Nat

\* The index and the load that will replace it are of the active project, in a session.
IndexIsOfProject ==
    /\ index \in Contents \cup {None} /\ (index # None => Connected /\ index.artifact = project)
    /\ loading \subseteq Loads /\ \A l \in loading : l.number = loadGeneration => Connected /\ l.artifact = project
SymPage == wire = <<>> /\ inbox \in Seq(SymMessages) /\ listed \in ShownRows /\ misled = FALSE

SymInv == SymTypeOK /\ Generations /\ IndexIsOfProject /\ SymPage /\ SymbolsAreCurrent
SymIdle == SymTypeOK /\ listed = NoRows /\ misled = FALSE

\* The generation of ids grows with every other index that comes into force.
IndexMoves ==
    /\ indexGeneration' \in Nat /\ index' \in Contents \cup {None}
    /\ \/ indexGeneration' > indexGeneration
       \/ indexGeneration' = indexGeneration /\ index' \in {index, None}

LEMMA RowsStayTrue ==
  ASSUME indexGeneration \in Nat, IndexMoves
  PROVE  /\ TrueRows \subseteq TrueRows' /\ ShownRows \subseteq ShownRows' /\ SymMessages \subseteq SymMessages'
         /\ inbox \in Seq(SymMessages) => inbox \in Seq(SymMessages')
<1>1. ASSUME NEW r \in TrueRows PROVE r \in TrueRows'
  <2>1. r \in SymRows /\ r.generation \in Nat /\ r.generation <= indexGeneration
        /\ (r.generation = indexGeneration /\ index # None => r.content = index)
    BY DEF TrueRows, SymRows
  <2>2. r.generation <= indexGeneration' /\ (r.generation = indexGeneration' /\ index' # None => r.content = index')
    BY <2>1 DEF IndexMoves
  <2> QED
    BY <2>1, <2>2 DEF TrueRows, SymRows, Contents
<1>2. ShownRows \subseteq ShownRows'
  BY <1>1 DEF ShownRows, SymRows, Contents
<1>3. SymMessages \subseteq SymMessages'
  BY <1>1 DEF SymMessages, SymRows, Contents
<1> QED
  BY <1>1, <1>2, <1>3

LEMMA NewRow ==
  ASSUME indexGeneration \in Nat, index \in Contents \cup {None}
  PROVE  Row(indexGeneration, index) \in ShownRows /\ NoRows \in ShownRows
BY DEF Row, NoRows, TrueRows, ShownRows, SymRows

LEMMA ReadIsOnDisk ==
  ASSUME SymTypeOK, NEW a \in Artifacts
  PROVE  ReadSoFar(a) \in 0..disk[a]
<1> DEFINE same == {l \in loading : l.artifact = a}
<1>1. disk[a] \in Nat
  BY DEF SymTypeOK
<1>2. CASE same = {}
  BY <1>1, <1>2 DEF ReadSoFar
<1>3. CASE same # {}
  <2>1. (CHOOSE l \in same : TRUE) \in same
    BY <1>3
  <2>2. ReadSoFar(a) = (CHOOSE l \in same : TRUE).version
    BY <1>3 DEF ReadSoFar
  <2> QED
    BY <1>1, <2>1, <2>2 DEF SymTypeOK
<1> QED
  BY <1>2, <1>3

\* What the loads that a synchronization finds have to be.
PendingLoads(before, counted) ==
    /\ before \subseteq Loads
    /\ \A l \in before : /\ l.artifact \in Artifacts /\ l.version \in 0..disk[l.artifact]
                          /\ l.number \in 0..counted /\ l.sync \in 0..syncGeneration

LEMMA NewLoad ==
  ASSUME SymTypeOK, Generations, NEW counted \in Nat, NEW before, PendingLoads(before, counted), NEW a \in Artifacts,
         NEW number \in Nat, NEW sync \in Nat
  PROVE  LET l == LoadOf(a, number, sync)
         IN  l \in Loads /\ l.artifact = a /\ l.number = number /\ l.sync = sync /\ l.version \in 0..disk[a]
<1>1. ReadSoFar(a) \in 0..disk[a] /\ disk[a] \in Nat
  BY ReadIsOnDisk DEF SymTypeOK
<1> QED
  BY <1>1 DEF LoadOf, Loads

\* What a synchronization leaves true, whatever it finds and whatever it does.
LEMMA SyncIsOfProject ==
  ASSUME SymTypeOK, Generations, listed \in ShownRows, disk' = disk, project' \in Artifacts \cup {Bare, None},
         state' \in {"stopped", "connected", "running"}, visible' \in BOOLEAN, unheard \in BOOLEAN,
         NEW counted \in Nat, NEW before, NEW ids \in Nat, NEW content \in Contents \cup {None},
         PendingLoads(before, counted), \A l \in before : l.number = counted => l.artifact = project',
         content # None => content.artifact = project',
         ids > indexGeneration \/ (ids = indexGeneration /\ content = index),
         Sync(counted, before, ids, content)
  PROVE  /\ SymTypeOK' /\ Generations' /\ IndexIsOfProject' /\ SymbolsAreCurrent'
         /\ IndexMoves /\ listed' \in ShownRows' /\ unheard' \in BOOLEAN
<1>1. /\ syncGeneration \in Nat /\ syncGeneration' \in Nat /\ syncGeneration <= syncGeneration'
      /\ indexGeneration \in Nat /\ resolving \in 0..syncGeneration /\ queried \in BOOLEAN
      /\ disk \in [Artifacts -> Nat \ {0}] /\ symStatus \in {"empty", "loading", "ready", "error"}
  BY DEF Generations, SymTypeOK, Sync
<1>2. \A l \in before : /\ l \in Loads /\ l.artifact \in Artifacts /\ l.version \in 0..disk[l.artifact]
                        /\ l.number \in 0..counted /\ l.sync \in 0..syncGeneration'
  BY <1>1 DEF PendingLoads
<1>3. NoRows \in SymRows /\ NoRows.content = None
  BY DEF NoRows, Row, SymRows
<1>4. NoRows \in ShownRows'
  BY <1>3 DEF ShownRows, SymRows, Contents
<1>5. \/ /\ loadGeneration' = counted + 1 /\ index' = None /\ indexGeneration' = ids + 1 /\ loading' = before
         /\ resolving' = 0 /\ queried' \in {FALSE, queried} /\ unheard' = unheard
         /\ symStatus' = "empty" /\ listed' = NoRows
      \/ /\ state' # "stopped" /\ (visible' => project' = None)
         /\ loadGeneration' = counted /\ index' = content /\ indexGeneration' = ids /\ loading' = before
         /\ resolving' \in {resolving, syncGeneration'} /\ queried' = queried /\ unheard' = unheard
         /\ symStatus' = symStatus /\ listed' = listed
      \/ /\ state' # "stopped" /\ project' \in Artifacts
         /\ loadGeneration' = counted + 1 /\ index' = content /\ indexGeneration' = ids
         /\ loading' = before \cup {LoadOf(project', counted + 1, syncGeneration')}
         /\ resolving' = 0 /\ queried' = queried /\ unheard' \in BOOLEAN
         /\ symStatus' = "loading" /\ listed' = listed
  BY DEF Sync, ClearSymbols, PostEmpty, Post, Starts
<1>6. /\ loadGeneration' \in Nat /\ indexGeneration' \in Nat /\ resolving' \in 0..syncGeneration' /\ queried' \in BOOLEAN
      /\ symStatus' \in {"empty", "loading", "ready", "error"} /\ unheard' \in BOOLEAN
      /\ index' \in {None, content}
  <2>1. counted + 1 \in Nat /\ ids + 1 \in Nat
    OBVIOUS
  <2>2. {resolving, syncGeneration', 0} \subseteq 0..syncGeneration'
    BY <1>1
  <2>3. loadGeneration' \in {counted, counted + 1} /\ indexGeneration' \in {ids, ids + 1} /\ index' \in {None, content}
    BY <1>5
  <2>4. resolving' \in {resolving, syncGeneration', 0} /\ queried' \in {FALSE, queried} /\ unheard' \in BOOLEAN
    BY <1>5
  <2>5. symStatus' \in {"empty", "loading", "ready", "error"}
    BY <1>1, <1>5
  <2> QED
    BY <1>1, <2>1, <2>2, <2>3, <2>4, <2>5
<1>7. IndexMoves
  <2>1. (index' = None /\ indexGeneration' = ids + 1) \/ (index' = content /\ indexGeneration' = ids)
    BY <1>5
  <2>2. ids + 1 > indexGeneration
    BY <1>1
  <2> QED
    BY <1>1, <1>6, <2>1, <2>2 DEF IndexMoves
<1>8. ShownRows \subseteq ShownRows'
  BY <1>1, <1>7, RowsStayTrue
<1>9. listed' \in ShownRows'
  BY <1>4, <1>5, <1>8
<1>10. \A l \in loading' : /\ l \in Loads /\ l.artifact \in Artifacts /\ l.version \in 0..disk[l.artifact]
                           /\ l.number \in 0..loadGeneration' /\ l.sync \in 0..syncGeneration'
                           /\ l.number = loadGeneration' => state' # "stopped" /\ l.artifact = project'
  <2>1. CASE loadGeneration' = counted + 1 /\ loading' = before
    BY <1>2, <2>1
  <2>2. CASE loadGeneration' = counted /\ loading' = before /\ state' # "stopped"
    BY <1>2, <2>2
  <2>3. CASE /\ loadGeneration' = counted + 1 /\ loading' = before \cup {LoadOf(project', counted + 1, syncGeneration')}
             /\ state' # "stopped" /\ project' \in Artifacts
    <3> DEFINE new == LoadOf(project', counted + 1, syncGeneration')
    <3>1. /\ new \in Loads /\ new.artifact = project' /\ new.number = counted + 1 /\ new.sync = syncGeneration'
          /\ new.version \in 0..disk[project']
      BY <1>1, <2>3, NewLoad
    <3>2. \A l \in loading' : l \in before \/ l = new
      BY <2>3
    <3> HIDE DEF new
    <3>3. ASSUME NEW l \in before PROVE l.number \in 0..counted + 1 /\ l.number # counted + 1
      BY <1>2
    <3>4. counted + 1 \in 0..counted + 1 /\ syncGeneration' \in 0..syncGeneration'
      BY <1>1
    <3>5. ASSUME NEW l \in before
          PROVE  /\ l \in Loads /\ l.artifact \in Artifacts /\ l.version \in 0..disk[l.artifact]
                 /\ l.number \in 0..loadGeneration' /\ l.sync \in 0..syncGeneration' /\ l.number # loadGeneration'
      BY <1>2, <2>3, <3>3
    <3>6. /\ new.artifact \in Artifacts /\ new.version \in 0..disk[new.artifact]
          /\ new.number \in 0..loadGeneration' /\ new.sync \in 0..syncGeneration'
      BY <2>3, <3>1, <3>4
    <3> QED
      BY <2>3, <3>1, <3>5, <3>6, <3>2
  <2> QED
    BY <1>5, <2>1, <2>2, <2>3
<1>11. SymTypeOK'
  <2>1. index' # None => index' \in [artifact : Artifacts, version : Nat \ {0}]
    BY <1>6 DEF Contents
  <2>2. \A l \in loading' : /\ l.artifact \in Artifacts /\ l.version \in 0..disk'[l.artifact]
                            /\ l.number \in 0..loadGeneration' /\ l.sync \in 0..syncGeneration'
    BY <1>10
  <2> QED
    BY <1>1, <1>6, <2>1, <2>2 DEF SymTypeOK
<1>12. IndexIsOfProject'
  <2>1. index' # None => state' # "stopped"
    BY <1>5
  <2>2. index' \in Contents \cup {None} /\ (index' # None => index'.artifact = project')
    BY <1>6
  <2>3. Loads' = Loads /\ Contents' = Contents
    BY DEF Loads, Contents
  <2>4. loading' \subseteq Loads
    BY <1>10
  <2> QED
    BY <1>10, <2>1, <2>2, <2>3, <2>4 DEF IndexIsOfProject, Connected
<1>13. SymbolsAreCurrent'
  BY <1>3, <1>5 DEF SymbolsAreCurrent, Connected
<1> QED
  BY <1>1, <1>6, <1>7, <1>9, <1>11, <1>12, <1>13 DEF Generations

\* The loads of now are what a synchronization finds when nothing has been counted.
LEMMA LoadsOfNow ==
  ASSUME SymTypeOK, Generations, IndexIsOfProject, NEW counted \in Nat, counted >= loadGeneration
  PROVE  PendingLoads(loading, counted)
BY DEF SymTypeOK, Generations, IndexIsOfProject, PendingLoads

\* A synchronization with the same project, of what is loaded and listed now.
LEMMA Synchronizes ==
  ASSUME LinkOK, SymInv, state' \in {"stopped", "connected", "running"}, visible' \in BOOLEAN, UNCHANGED <<project, disk>>,
         Sync(loadGeneration, loading, indexGeneration, index)
  PROVE  /\ SymTypeOK' /\ Generations' /\ IndexIsOfProject' /\ SymbolsAreCurrent'
         /\ IndexMoves /\ listed' \in ShownRows' /\ unheard' \in BOOLEAN
<1>1. SymTypeOK /\ Generations /\ IndexIsOfProject /\ listed \in ShownRows /\ unheard \in BOOLEAN
  BY DEF SymInv, SymPage, LinkOK
<1>2. loadGeneration \in Nat /\ indexGeneration \in Nat /\ index \in Contents \cup {None}
  BY <1>1 DEF Generations, IndexIsOfProject
<1>3. PendingLoads(loading, loadGeneration)
  BY <1>1, <1>2, LoadsOfNow
<1>4. /\ \A l \in loading : l.number = loadGeneration => l.artifact = project'
      /\ index # None => index.artifact = project'
      /\ project' \in Artifacts \cup {Bare, None}
  BY <1>1 DEF IndexIsOfProject, SymTypeOK
<1> QED
  BY <1>1, <1>2, <1>3, <1>4, SyncIsOfProject

\* Another project.
LEMMA ProjectIsFollowed ==
  ASSUME LinkOK, SymInv, UNCHANGED session, disk' = disk, NEW p \in Artifacts \cup {Bare, None}, ProjectChanges(p)
  PROVE  /\ SymTypeOK' /\ Generations' /\ IndexIsOfProject' /\ SymbolsAreCurrent'
         /\ IndexMoves /\ listed' \in ShownRows' /\ unheard' \in BOOLEAN
<1> DEFINE follows == p \in Artifacts
           number == loadGeneration + (IF follows THEN 2 ELSE 1)
           before == IF follows THEN loading \cup {LoadOf(p, number, 0)} ELSE loading
<1>1. SymTypeOK /\ Generations /\ IndexIsOfProject /\ listed \in ShownRows /\ unheard \in BOOLEAN
  BY DEF SymInv, SymPage, LinkOK
<1>2. project' = p /\ Sync(number, before, indexGeneration + 1, None)
  BY DEF ProjectChanges
<1>3. /\ loadGeneration \in Nat /\ number \in Nat /\ number > loadGeneration
      /\ indexGeneration + 1 \in Nat /\ indexGeneration + 1 > indexGeneration /\ syncGeneration \in Nat
  BY <1>1 DEF Generations
<1>4. PendingLoads(loading, number)
  BY <1>1, <1>3, LoadsOfNow
<1>5. \A l \in loading : l.number # number
  BY <1>1, <1>3 DEF SymTypeOK
<1>6. PendingLoads(before, number) /\ \A l \in before : l.number = number => l.artifact = p
  <2>1. CASE follows
    <3> DEFINE new == LoadOf(p, number, 0)
    <3>1. new \in Loads /\ new.artifact = p /\ new.number = number /\ new.sync = 0 /\ new.version \in 0..disk[p]
      BY <1>1, <1>3, <1>4, <2>1, NewLoad
    <3>2. before = loading \cup {new}
      BY <2>1
    <3> HIDE DEF new, before
    <3>3. number \in 0..number /\ 0 \in 0..syncGeneration
      BY <1>3
    <3> HIDE DEF number
    <3> QED
      BY <1>4, <1>5, <2>1, <3>1, <3>2, <3>3 DEF PendingLoads
  <2>2. CASE ~follows
    BY <1>4, <1>5, <2>2
  <2> QED
    BY <2>1, <2>2
<1>7. state' \in {"stopped", "connected", "running"} /\ visible' \in BOOLEAN
  BY DEF LinkOK, session
<1> HIDE DEF number, before
<1> QED
  BY <1>1, <1>2, <1>3, <1>6, <1>7, SyncIsOfProject

\* What is left to say of a step of the panel.
LEMMA SymPageStays ==
  ASSUME LinkOK, SymInv, IndexMoves, listed' \in ShownRows', UNCHANGED <<wire, inbox, misled>>
  PROVE  SymPage'
<1>1. inbox \in Seq(SymMessages')
  BY RowsStayTrue DEF SymInv, SymPage, Generations
<1> QED
  BY <1>1 DEF SymInv, SymPage

LEMMA SymFollows == LinkOK /\ SymInv /\ (SymStateChange \/ SymShownOrHidden) => LinkOK' /\ SymInv'
<1> SUFFICES ASSUME LinkOK, SymInv, SymStateChange \/ SymShownOrHidden PROVE LinkOK' /\ SymInv'
  OBVIOUS
<1>1. /\ view' \in Views /\ state' \in {"stopped", "connected", "running"} /\ visible' \in BOOLEAN
      /\ now' \in Nat /\ since' \in 0..now' /\ events' \in 0..MaxEvents[view]'
      /\ (Connected' => since' # 0)
  BY SessionMoves DEF SymStateChange, SymShownOrHidden, StateChange
<1>2. UNCHANGED <<wire, inbox, status, project, disk, misled>> /\ status' \in Kinds /\ wire' = <<>>
  BY DEF SymStateChange, SymShownOrHidden, LinkOK, SymInv, SymPage
<1>3. /\ SymTypeOK' /\ Generations' /\ IndexIsOfProject' /\ SymbolsAreCurrent'
      /\ IndexMoves /\ listed' \in ShownRows' /\ unheard' \in BOOLEAN
  <2>1. CASE Sync(loadGeneration, loading, indexGeneration, index)
    BY <1>1, <1>2, <2>1, Synchronizes
  <2>2. CASE SymStateChange /\ state' # "stopped"
    <3>1. /\ UNCHANGED <<syncGeneration, resolving, queried, symStatus, listed, loadGeneration, indexGeneration, index, loading>>
          /\ UNCHANGED <<project, disk, visible>> /\ unheard' \in BOOLEAN
      BY <2>2 DEF SymStateChange, symService, StateChange, SessionOpens, SessionLost, Runs, Stops
    <3>2. SymTypeOK' /\ Generations'
      BY <3>1 DEF SymInv, SymTypeOK, Generations
    <3>3. IndexIsOfProject' /\ SymbolsAreCurrent'
      BY <2>2, <3>1 DEF SymInv, IndexIsOfProject, SymbolsAreCurrent, Connected, Contents, Loads
    <3>4. IndexMoves
      BY <3>1 DEF SymInv, IndexMoves, Generations, IndexIsOfProject
    <3>5. ShownRows' = ShownRows
      BY <3>1 DEF ShownRows, TrueRows, SymRows, Contents
    <3> QED
      BY <3>1, <3>2, <3>3, <3>4, <3>5 DEF SymInv, SymPage
  <2> QED
    BY <2>1, <2>2 DEF SymStateChange, SymShownOrHidden
<1>4. SymPage'
  BY <1>2, <1>3, SymPageStays
<1> QED
  BY <1>1, <1>2, <1>3, <1>4 DEF LinkOK, SymInv

LEMMA ChangesProject == LinkOK /\ SymInv /\ (SelectProject \/ Resolved) => LinkOK' /\ SymInv'
<1> SUFFICES ASSUME LinkOK, SymInv, SelectProject \/ Resolved PROVE LinkOK' /\ SymInv'
  OBVIOUS
<1>1. /\ UNCHANGED <<session, wire, inbox, status, disk, misled>> /\ wire' = <<>>
      /\ UNCHANGED link \/ (Event /\ UNCHANGED session)
  BY DEF SelectProject, Resolved, link, SymInv, SymPage
<1>2. /\ SymTypeOK' /\ Generations' /\ IndexIsOfProject' /\ SymbolsAreCurrent'
      /\ IndexMoves /\ listed' \in ShownRows' /\ unheard' \in BOOLEAN
  <2>1. CASE \E p \in Artifacts \cup {Bare, None} : ProjectChanges(p)
    BY <1>1, <2>1, ProjectIsFollowed
  <2>2. CASE /\ resolving' = 0
             /\ ClearSymbols(loadGeneration, indexGeneration) /\ PostEmpty("empty")
             /\ UNCHANGED <<project, syncGeneration, loading, queried, unheard>>
    <3>1. /\ loadGeneration' = loadGeneration + 1 /\ index' = None /\ indexGeneration' = indexGeneration + 1
          /\ symStatus' = "empty" /\ listed' = NoRows
          /\ resolving' = 0 /\ UNCHANGED <<project, syncGeneration, loading, queried, unheard, disk>>
      BY <1>1, <2>2 DEF ClearSymbols, PostEmpty, Post
    <3>2. /\ SymTypeOK /\ loadGeneration \in Nat /\ syncGeneration \in Nat /\ indexGeneration \in Nat
          /\ loading \subseteq Loads /\ unheard \in BOOLEAN
      BY DEF SymInv, Generations, IndexIsOfProject, LinkOK
    <3>3. Generations' /\ IndexMoves
      BY <3>1, <3>2 DEF Generations, IndexMoves
    <3>4. \A l \in loading : l.number \in 0..loadGeneration' /\ l.number # loadGeneration'
      BY <3>1, <3>2 DEF SymTypeOK
    <3>5. SymTypeOK'
      BY <3>1, <3>2, <3>4 DEF SymTypeOK
    <3>6. IndexIsOfProject'
      BY <3>1, <3>2, <3>4 DEF IndexIsOfProject, Loads
    <3>7. SymbolsAreCurrent' /\ listed' \in ShownRows'
      BY <3>1, <3>2 DEF SymbolsAreCurrent, NoRows, Row, ShownRows, SymRows
    <3> QED
      BY <3>1, <3>2, <3>3, <3>5, <3>6, <3>7
  <2> QED
    BY <2>1, <2>2 DEF SelectProject, Resolved
<1>3. SymPage'
  BY <1>1, <1>2, SymPageStays
<1>4. LinkOK'
  BY <1>1, <1>2, WithinSession DEF LinkOK
<1> QED
  BY <1>2, <1>3, <1>4 DEF SymInv

\* A file is read for every load that waits for it.
LEMMA FileIsRead == LinkOK /\ SymInv /\ ReadFile => LinkOK' /\ SymInv'
<1> SUFFICES ASSUME LinkOK, SymInv, ReadFile PROVE LinkOK' /\ SymInv'
  OBVIOUS
<1>1. /\ UNCHANGED <<link, wire, inbox, status, unheard, project, disk, syncGeneration, resolving>>
      /\ UNCHANGED <<loadGeneration, indexGeneration, index, listed, symStatus, queried, misled>>
  BY DEF ReadFile, symService
<1>2. PICK a \in Artifacts : loading' = {IF l.artifact = a THEN [l EXCEPT !.version = disk[a]] ELSE l : l \in loading}
  <2>1. \A l \in loading : l.artifact \in Artifacts
    BY DEF SymInv, SymTypeOK
  <2>2. PICK a \in {l.artifact : l \in loading} :
             loading' = {IF l.artifact = a THEN [l EXCEPT !.version = disk[a]] ELSE l : l \in loading}
    BY DEF ReadFile
  <2> QED
    BY <2>1, <2>2
<1>3. SymTypeOK /\ loading \subseteq Loads /\ disk[a] \in Nat /\ disk[a] \in 0..disk[a]
  BY DEF SymInv, SymTypeOK, IndexIsOfProject
<1>4. \A l \in loading' : \E m \in loading :
        /\ l \in Loads /\ l.artifact = m.artifact /\ l.number = m.number /\ l.sync = m.sync
        /\ l.version = m.version \/ (l.artifact = a /\ l.version = disk[a])
  <2> SUFFICES ASSUME NEW m \in loading, NEW l, l = IF m.artifact = a THEN [m EXCEPT !.version = disk[a]] ELSE m
               PROVE  /\ l \in Loads /\ l.artifact = m.artifact /\ l.number = m.number /\ l.sync = m.sync
                      /\ l.version = m.version \/ (l.artifact = a /\ l.version = disk[a])
    BY <1>2
  <2> QED
    BY <1>3 DEF Loads
<1>5. SymTypeOK'
  <2>1. \A l \in loading' : /\ l.artifact \in Artifacts /\ l.version \in 0..disk[l.artifact]
                            /\ l.number \in 0..loadGeneration /\ l.sync \in 0..syncGeneration
    BY <1>3, <1>4 DEF SymTypeOK
  <2> QED
    BY <1>1, <1>3, <2>1 DEF SymTypeOK
<1>6. UNCHANGED state /\ wire' = <<>> /\ status' \in Kinds
  BY <1>1 DEF link, session, SymInv, SymPage, LinkOK
<1>7. IndexIsOfProject'
  <2>1. loading' \subseteq Loads /\ \A l \in loading' : l.number = loadGeneration => Connected /\ l.artifact = project
    BY <1>4 DEF SymInv, IndexIsOfProject
  <2>2. Loads' = Loads /\ Contents' = Contents /\ Connected' = Connected
    BY <1>6 DEF Loads, Contents, Connected
  <2> QED
    BY <1>1, <2>1, <2>2 DEF SymInv, IndexIsOfProject
<1>8. ShownRows' = ShownRows /\ SymMessages' = SymMessages
  BY <1>1 DEF ShownRows, SymMessages, TrueRows, SymRows, Contents
<1>9. Generations' /\ SymPage' /\ SymbolsAreCurrent'
  BY <1>1, <1>6, <1>8 DEF SymInv, Generations, SymPage, SymbolsAreCurrent, Connected, link, session
<1>10. LinkOK'
  BY <1>1, <1>6, WithinSession
<1> QED
  BY <1>5, <1>7, <1>9, <1>10 DEF SymInv

\* Loads that have ended are taken away.
LEMMA LoadsGo ==
  ASSUME SymTypeOK, loading' \subseteq loading, loadGeneration' \in Nat, loadGeneration <= loadGeneration',
         loadGeneration \in Nat, UNCHANGED <<project, disk, syncGeneration, resolving, queried>>,
         index' \in Contents \cup {None}, symStatus' \in {"empty", "loading", "ready", "error"}
  PROVE  SymTypeOK'
<1>1. \A l \in loading' : /\ l.artifact \in Artifacts /\ l.version \in 0..disk[l.artifact]
                          /\ l.number \in 0..loadGeneration' /\ l.sync \in 0..syncGeneration
  BY DEF SymTypeOK
<1>2. index' # None => index' \in [artifact : Artifacts, version : Nat \ {0}]
  BY DEF Contents
<1> QED
  BY <1>1, <1>2 DEF SymTypeOK

LEMMA LoadIsOver == LinkOK /\ SymInv /\ (Loaded \/ LoadFails) => LinkOK' /\ SymInv'
<1> SUFFICES ASSUME LinkOK, SymInv, Loaded \/ LoadFails PROVE LinkOK' /\ SymInv'
  OBVIOUS
<1>1. /\ UNCHANGED <<session, wire, inbox, status, unheard, project, disk, syncGeneration, resolving, queried, misled>>
      /\ UNCHANGED link \/ (Event /\ UNCHANGED session)
  BY DEF Loaded, LoadFails, link
<1>2. /\ SymTypeOK /\ loadGeneration \in Nat /\ syncGeneration \in Nat /\ indexGeneration \in Nat
      /\ index \in Contents \cup {None} /\ (index # None => Connected /\ index.artifact = project)
      /\ loading \subseteq Loads /\ \A l \in loading : l.number = loadGeneration => Connected /\ l.artifact = project
      /\ listed \in ShownRows /\ SymbolsAreCurrent
  BY DEF SymInv, Generations, IndexIsOfProject, SymPage
<1>3. UNCHANGED <<state, visible>> /\ Connected' = Connected /\ wire' = <<>> /\ status' \in Kinds
  BY <1>1 DEF session, Connected, SymInv, SymPage, LinkOK
<1>4. /\ loading' \subseteq loading /\ loadGeneration' \in Nat /\ loadGeneration <= loadGeneration'
      /\ IndexMoves /\ (index' # None => Connected /\ index'.artifact = project)
      /\ \/ UNCHANGED <<symStatus, listed>>
         \/ symStatus' = "ready" /\ listed' = Row(indexGeneration', index')
         \/ symStatus' = "error" /\ listed' = NoRows
  <2>1. CASE Loaded
    <3>1. PICK a \in {l.artifact : l \in loading} :
               LET done == {l \in loading : l.artifact = a}
                   content == Content(a, ReadSoFar(a))
                   current == \E l \in done : l.number = loadGeneration
                   shows == \E l \in done : l.sync = syncGeneration
               IN  /\ ReadSoFar(a) # 0 /\ loading' = loading \ done
                   /\ index' = IF current THEN content ELSE index
                   /\ indexGeneration' = IF current THEN GenerationFor(content) ELSE indexGeneration
                   /\ IF shows THEN Post("ready", Row(indexGeneration', index')) ELSE UNCHANGED <<symStatus, listed>>
                   /\ loadGeneration' = loadGeneration
      BY <2>1 DEF Loaded
    <3> DEFINE done == {l \in loading : l.artifact = a}
               content == Content(a, ReadSoFar(a))
               current == \E l \in done : l.number = loadGeneration
    <3>2. /\ ReadSoFar(a) # 0 /\ loading' = loading \ done
          /\ index' = IF current THEN content ELSE index
          /\ indexGeneration' = IF current THEN GenerationFor(content) ELSE indexGeneration
          /\ loadGeneration' = loadGeneration
      BY <3>1
    <3>3. \/ UNCHANGED <<symStatus, listed>>
          \/ symStatus' = "ready" /\ listed' = Row(indexGeneration', index')
      BY <3>1 DEF Post
    <3>4. content \in Contents /\ content.artifact = a
      <4>1. a \in Artifacts
        BY <1>2 DEF SymTypeOK
      <4>2. ReadSoFar(a) \in 0..disk[a] /\ disk[a] \in Nat
        BY <1>2, <4>1, ReadIsOnDisk DEF SymTypeOK
      <4> QED
        BY <3>2, <4>1, <4>2 DEF Content, Contents
    <3>5. current => Connected /\ a = project
      BY <1>2
    <3> HIDE DEF content, current
    <3>6. IndexMoves
      BY <1>2, <3>2, <3>4 DEF IndexMoves, GenerationFor
    <3>7. index' # None => Connected /\ index'.artifact = project
      BY <1>2, <3>2, <3>4, <3>5
    <3> QED
      BY <1>2, <3>2, <3>3, <3>6, <3>7
  <2>2. CASE LoadFails
    <3>1. PICK a \in {l.artifact : l \in loading} :
               LET done == {l \in loading : l.artifact = a}
               IN  /\ loading' = loading \ done
                   /\ IF \E l \in done : l.sync = syncGeneration /\ l.number = loadGeneration
                      THEN ClearSymbols(loadGeneration, indexGeneration) /\ PostEmpty("error")
                      ELSE /\ UNCHANGED symService
                           /\ IF \E l \in done : l.sync = syncGeneration
                              THEN Post("ready", Row(indexGeneration, index)) ELSE UNCHANGED <<symStatus, listed>>
      BY <2>2 DEF LoadFails
    <3>2. CASE ClearSymbols(loadGeneration, indexGeneration) /\ PostEmpty("error")
      <4>1. /\ loadGeneration' = loadGeneration + 1 /\ index' = None /\ indexGeneration' = indexGeneration + 1
            /\ symStatus' = "error" /\ listed' = NoRows
        BY <3>2 DEF ClearSymbols, PostEmpty, Post
      <4>2. IndexMoves
        BY <1>2, <4>1 DEF IndexMoves
      <4> QED
        BY <1>2, <3>1, <4>1, <4>2
    <3>3. CASE /\ UNCHANGED symService
               /\ Post("ready", Row(indexGeneration, index)) \/ UNCHANGED <<symStatus, listed>>
      <4>1. /\ UNCHANGED <<loadGeneration, indexGeneration, index>>
            /\ \/ UNCHANGED <<symStatus, listed>>
               \/ symStatus' = "ready" /\ listed' = Row(indexGeneration', index')
        BY <3>3 DEF symService, Post
      <4>2. IndexMoves
        BY <1>2, <4>1 DEF IndexMoves
      <4> QED
        BY <1>2, <3>1, <4>1, <4>2
    <3> QED
      BY <3>1, <3>2, <3>3
  <2> QED
    BY <2>1, <2>2
<1>5. index' \in Contents \cup {None} /\ indexGeneration' \in Nat
  BY <1>4 DEF IndexMoves
<1>6. SymTypeOK' /\ Generations'
  <2>1. symStatus' \in {"empty", "loading", "ready", "error"}
    BY <1>2, <1>4 DEF SymTypeOK
  <2> QED
    BY <1>1, <1>2, <1>4, <1>5, <2>1, LoadsGo DEF Generations
<1>7. IndexIsOfProject'
  <2>1. \A l \in loading' : l.number = loadGeneration' => Connected /\ l.artifact = project
    <3>1. \A l \in loading : l.number \in 0..loadGeneration
      BY <1>2 DEF SymTypeOK
    <3> QED
      BY <1>2, <1>4, <3>1
  <2>2. loading' \subseteq Loads
    BY <1>2, <1>4
  <2>3. Loads' = Loads /\ Contents' = Contents
    BY DEF Loads, Contents
  <2> QED
    BY <1>1, <1>3, <1>4, <1>5, <2>1, <2>2, <2>3 DEF IndexIsOfProject
<1>8. /\ listed' \in ShownRows' /\ (listed' = listed \/ listed'.content \in {index', None})
  <2>1. ShownRows \subseteq ShownRows'
    BY <1>2, <1>4, RowsStayTrue
  <2>2. Row(indexGeneration', index') \in ShownRows' /\ Row(indexGeneration', index').content = index'
    BY <1>5 DEF Row, ShownRows, TrueRows, SymRows, Contents
  <2>3. NoRows \in ShownRows' /\ NoRows.content = None
    BY DEF NoRows, Row, ShownRows, TrueRows, SymRows
  <2> QED
    BY <1>2, <1>4, <2>1, <2>2, <2>3
<1>9. SymbolsAreCurrent'
  <2>1. CASE UNCHANGED <<symStatus, listed>>
    BY <1>1, <1>2, <1>3, <2>1 DEF SymbolsAreCurrent
  <2>2. CASE symStatus' = "ready" /\ listed' = Row(indexGeneration', index')
    <3>1. listed'.content = index'
      BY <2>2 DEF Row
    <3> QED
      BY <1>1, <1>3, <1>4, <3>1 DEF SymbolsAreCurrent
  <2>3. CASE symStatus' = "error" /\ listed' = NoRows
    BY <2>3 DEF SymbolsAreCurrent, NoRows, Row
  <2> QED
    BY <1>4, <2>1, <2>2, <2>3
<1>10. SymPage'
  BY <1>1, <1>4, <1>8, SymPageStays
<1>11. LinkOK'
  BY <1>1, <1>3, WithinSession
<1> QED
  BY <1>6, <1>7, <1>9, <1>10, <1>11 DEF SymInv

\* What leaves the service and its loads alone.
LEMMA SymServiceStays ==
  ASSUME SymInv, UNCHANGED <<state, visible, project, syncGeneration, resolving, loadGeneration, indexGeneration, index, loading>>,
         UNCHANGED symStatus, queried' \in BOOLEAN, disk' \in [Artifacts -> Nat \ {0}], \A a \in Artifacts : disk'[a] >= disk[a],
         listed' = listed \/ listed' = Row(indexGeneration, index)
  PROVE  /\ SymTypeOK' /\ Generations' /\ IndexIsOfProject' /\ SymbolsAreCurrent' /\ listed' \in ShownRows'
         /\ SymMessages' = SymMessages
<1>1. SymTypeOK /\ Generations /\ IndexIsOfProject /\ listed \in ShownRows /\ SymbolsAreCurrent
  BY DEF SymInv, SymPage
<1>2. SymTypeOK'
  <2>1. \A l \in loading : l.version \in 0..disk'[l.artifact]
    BY <1>1 DEF SymTypeOK
  <2> QED
    BY <1>1, <2>1 DEF SymTypeOK
<1>3. Generations' /\ IndexIsOfProject'
  BY <1>1 DEF Generations, IndexIsOfProject, Connected, Contents, Loads
<1>4. SymMessages' = SymMessages /\ ShownRows' = ShownRows
  BY DEF SymMessages, ShownRows, TrueRows, SymRows, Contents
<1>5. Row(indexGeneration, index) \in ShownRows /\ Row(indexGeneration, index).content = index
  BY <1>1, NewRow DEF Generations, IndexIsOfProject, Row
<1>6. SymbolsAreCurrent'
  BY <1>1, <1>5 DEF SymbolsAreCurrent, IndexIsOfProject, Connected
<1> QED
  BY <1>1, <1>2, <1>3, <1>4, <1>5, <1>6

LEMMA TypesAndBuilds == LinkOK /\ SymInv /\ (ClickSymbol \/ TypeInSymbols \/ QueryPosted \/ Build) => LinkOK' /\ SymInv'
<1> SUFFICES ASSUME LinkOK, SymInv, ClickSymbol \/ TypeInSymbols \/ QueryPosted \/ Build PROVE LinkOK' /\ SymInv'
  OBVIOUS
<1>1. /\ UNCHANGED <<session, wire, status, project, syncGeneration, resolving, loadGeneration, indexGeneration, index>>
      /\ UNCHANGED <<loading, symStatus, misled>> /\ (unheard' = unheard \/ unheard' = TRUE)
      /\ UNCHANGED link \/ (Event /\ UNCHANGED session)
      /\ listed' = listed \/ listed' = Row(indexGeneration, index)
  BY DEF ClickSymbol, TypeInSymbols, QueryPosted, Build, link, symVars, symService
<1>2. UNCHANGED <<state, visible>> /\ wire' = <<>> /\ status' \in Kinds /\ unheard' \in BOOLEAN
  BY <1>1 DEF session, SymInv, SymPage, LinkOK
<1>3. disk \in [Artifacts -> Nat \ {0}] /\ queried \in BOOLEAN
  BY DEF SymInv, SymTypeOK
<1>4. queried' \in BOOLEAN /\ disk' \in [Artifacts -> Nat \ {0}] /\ \A a \in Artifacts : disk'[a] >= disk[a]
  <2>1. CASE Build
    <3>1. queried' = queried /\ \E a \in Artifacts : disk' = [disk EXCEPT ![a] = @ + 1]
      BY <2>1 DEF Build
    <3> QED
      BY <1>3, <3>1
  <2>2. CASE disk' = disk /\ queried' \in BOOLEAN
    BY <1>3, <2>2
  <2> QED
    BY <1>3, <2>1, <2>2 DEF ClickSymbol, TypeInSymbols, QueryPosted, symVars
<1>5. /\ SymTypeOK' /\ Generations' /\ IndexIsOfProject' /\ SymbolsAreCurrent' /\ listed' \in ShownRows'
      /\ SymMessages' = SymMessages
  BY <1>1, <1>2, <1>4, SymServiceStays
<1>6. inbox' \in Seq(SymMessages)
  <2>1. CASE inbox' = inbox
    BY <2>1 DEF SymInv, SymPage
  <2>2. CASE ClickSymbol
    <3>1. listed \in TrueRows /\ inbox' = Append(inbox, Says("action", listed)) /\ inbox \in Seq(SymMessages)
      BY <2>2 DEF ClickSymbol, SymInv, SymPage, ShownRows
    <3>2. Says("action", listed) \in SymMessages
      BY <3>1 DEF Says, SymMessages
    <3> QED
      BY <3>1, <3>2
  <2> QED
    BY <2>1, <2>2 DEF TypeInSymbols, QueryPosted, Build
<1>7. LinkOK'
  BY <1>1, <1>2, WithinSession
<1> QED
  BY <1>1, <1>2, <1>5, <1>6, <1>7 DEF SymInv, SymPage

LEMMA SymHears == LinkOK /\ SymInv /\ OnSymbols => LinkOK' /\ SymInv'
<1> SUFFICES ASSUME LinkOK, SymInv, OnSymbols PROVE LinkOK' /\ SymInv'
  OBVIOUS
<1>1. /\ inbox # <<>> /\ inbox' = Tail(inbox) /\ UNCHANGED <<link, project, disk, wire, status>>
      /\ inbox \in Seq(SymMessages) /\ misled = FALSE /\ wire' = <<>> /\ status' \in Kinds
  BY DEF OnSymbols, SymInv, SymPage, LinkOK
<1>2. UNCHANGED <<state, visible>> /\ state' \in {"stopped", "connected", "running"} /\ visible' \in BOOLEAN
  BY <1>1 DEF link, session, LinkOK
<1>3. Head(inbox) \in SymMessages /\ Tail(inbox) \in Seq(SymMessages)
  BY <1>1
<1>4. CASE misled' = misled /\ Sync(loadGeneration, loading, indexGeneration, index)
  <2>1. /\ SymTypeOK' /\ Generations' /\ IndexIsOfProject' /\ SymbolsAreCurrent'
        /\ IndexMoves /\ listed' \in ShownRows' /\ unheard' \in BOOLEAN
    BY <1>1, <1>2, <1>4, Synchronizes
  <2>2. inbox' \in Seq(SymMessages')
    BY <1>1, <1>3, <2>1, RowsStayTrue DEF SymInv, Generations
  <2>3. LinkOK'
    BY <1>1, <2>1, WithinSession
  <2> QED
    BY <1>1, <1>4, <2>1, <2>2, <2>3 DEF SymInv, SymPage
<1>5. CASE /\ Head(inbox).type = "action" /\ ActsOnSymbol(Head(inbox).arg)
           /\ UNCHANGED <<unheard, syncGeneration, resolving, symService, loading, listed, symStatus, queried>>
  <2>1. Head(inbox).arg \in TrueRows
    BY <1>3, <1>5 DEF SymMessages
  <2>2. misled' = FALSE
    BY <1>1, <1>5, <2>1 DEF ActsOnSymbol, TrueRows
  <2>3. UNCHANGED <<unheard, syncGeneration, resolving, loadGeneration, indexGeneration, index, loading, listed, symStatus, queried>>
    BY <1>5 DEF symService
  <2>4. disk' \in [Artifacts -> Nat \ {0}] /\ queried' \in BOOLEAN /\ \A a \in Artifacts : disk'[a] >= disk[a]
    BY <1>1, <2>3 DEF SymInv, SymTypeOK
  <2>5. /\ SymTypeOK' /\ Generations' /\ IndexIsOfProject' /\ SymbolsAreCurrent' /\ listed' \in ShownRows'
        /\ SymMessages' = SymMessages
    BY <1>1, <1>2, <2>3, <2>4, SymServiceStays
  <2>6. LinkOK'
    BY <1>1, <2>3, WithinSession
  <2> QED
    BY <1>1, <1>3, <2>2, <2>5, <2>6 DEF SymInv, SymPage
<1> QED
  BY <1>4, <1>5 DEF OnSymbols

LEMMA SymStep == LinkOK /\ SymInv /\ SymNext => LinkOK' /\ SymInv'
BY SymFollows, ChangesProject, FileIsRead, LoadIsOver, TypesAndBuilds, SymHears DEF SymNext

LEMMA SymKeepsStill == SymIdle /\ UNCHANGED symVars => SymIdle'
BY DEF SymIdle, SymTypeOK, symVars, NoRows
--------------------------------------------------------------------------------
(***************************************************************************)
(* The views together.                                                      *)
(***************************************************************************)
Ready == [type : {"ready"}, arg : Ranges]
HardwareViews == {"hardware", "ports"}
\* The view of the behaviour keeps its invariant, the others stay as they began.
ViewInv ==
    /\ LinkOK
    /\ IF view = "hex" THEN HexInv ELSE HexIdle
    /\ IF view = "trace" THEN TraceInv ELSE TraceIdle
    /\ IF view \in HardwareViews THEN HwInv ELSE HwIdle
    /\ IF view = "display" THEN DisplayInv ELSE DisplayIdle
    /\ IF view = "symbols" THEN SymInv ELSE SymIdle
    /\ view \notin {"hex", "trace", "display", "symbols"} \cup HardwareViews => wire = <<>>

\* All that a step does with the session.
LinkMoves == StateChange \/ ShownOrHidden \/ UNCHANGED link \/ (Event /\ UNCHANGED session)

LEMMA HexMoves == HexNext => LinkMoves
BY DEF HexNext, LinkMoves, HexStateChange, HexShownOrHidden, SymbolsLoaded, LoadLeaves, HexPoll, HexExecute, HexReceive, HexFails,
       UserActs, Scroll, SelectSpace, EditOrQuery, QueryFires, RevealSymbol, HexMessage

LEMMA TraceMoves == TraceNext => LinkMoves
BY DEF TraceNext, LinkMoves, TraceStateChange, TraceShownOrHidden, SourceContextLoaded, QueryTimer, TraceExecute, FilterAnswered,
       WindowAnswered, TraceFails, Prepared, Ask, ScrollTrace, ClickRow, TypeQuery, TraceMessage

LEMMA HwMoves == HwNext => LinkMoves
<1>1. (HwStateChange => StateChange) /\ (HwShownOrHidden => ShownOrHidden)
  BY DEF HwStateChange, HwShownOrHidden, StateChange
<1>2. ProgramWrites \/ StatisticsRead \/ PortsRead \/ ChooseFile \/ AnswerUnsaved => LinkMoves
  BY DEF LinkMoves, ProgramWrites, StatisticsRead, PortsRead, ChooseFile, AnswerUnsaved
<1>3. Mutate \/ OperationGoesOn \/ HwExecute => LinkMoves
  BY DEF LinkMoves, Mutate, OperationGoesOn, HwExecute
<1>4. OnHardware => LinkMoves
  BY DEF LinkMoves, OnHardware, link
<1>5. ClickHardware \/ HwFails => LinkMoves
  BY DEF LinkMoves, ClickHardware, HwFails
<1> QED
  BY <1>1, <1>2, <1>3, <1>4, <1>5 DEF HwNext, LinkMoves

LEMMA DisplayMoves == DisplayNext => LinkMoves
BY DEF DisplayNext, LinkMoves, DisplayStateChange, DisplayShownOrHidden, OpenOrClose, ReadyTimeout, PageReady, OverlayTick,
       DisplayAnswer, DisplayRefused, Draws, AsksForRemoval, DisplayExecute

LEMMA SymMoves == SymNext => LinkMoves
BY DEF SymNext, LinkMoves, SymStateChange, SymShownOrHidden, SelectProject, Resolved, ReadFile, Loaded, LoadFails, ClickSymbol,
       OnSymbols, TypeInSymbols, QueryPosted, Build

LEMMA TimeGoesOn == LinkOK /\ [Next]_vars => view' = view /\ now' \in Nat /\ now <= now'
<1> SUFFICES ASSUME LinkOK, [Next]_vars PROVE view' = view /\ now' \in Nat /\ now <= now'
  OBVIOUS
<1>1. LinkMoves
  <2>1. CASE UNCHANGED vars
    BY <2>1 DEF vars, LinkMoves
  <2>2. CASE Next
    BY <2>2, HexMoves, TraceMoves, HwMoves, DisplayMoves, SymMoves DEF Next
  <2> QED
    BY <2>1, <2>2
<1> QED
  BY <1>1, SessionMoves DEF LinkMoves

LEMMA ViewsBegin == Init => ViewInv
<1> SUFFICES ASSUME Init PROVE ViewInv
  OBVIOUS
<1>1. /\ view \in Views /\ state = "stopped" /\ visible = TRUE /\ now = 0 /\ since = 0 /\ wire = <<>> /\ events = 0
      /\ status = "starting" /\ unheard = FALSE /\ inbox = <<Says("ready", TopOf(Main))>>
  BY DEF Init, LinkInit
<1>2. LinkOK
  <2>1. MaxEvents[view] \in Nat
    BY <1>1, ViewAssumption
  <2>2. visible \in BOOLEAN /\ unheard \in BOOLEAN
    BY <1>1
  <2>3. now \in Nat /\ since \in 0..now /\ events \in 0..MaxEvents[view]
    BY <1>1, <2>1
  <2> QED
    BY <1>1, <2>2, <2>3 DEF LinkOK, Kinds, Connected
<1>3. TopOf(Main) \in Ranges
  BY SpacesOfRanges, TopIsARange
<1>4. inbox \in Seq(Ready)
  BY <1>1, <1>3 DEF Says, Ready
<1>5. HexTypeOK /\ shown = NothingShown
  <2>1. HexInit
    BY DEF Init
  <2>2. stored \in Spaces /\ selected \in Spaces /\ page \in Ranges
    BY <1>3, <2>1, SpacesOfRanges DEF HexInit
  <2>3. NothingShown \in [Ranges -> 0..now]
    BY <1>1 DEF NothingShown
  <2> QED
    BY <2>1, <2>2, <2>3 DEF HexInit, HexTypeOK
<1>6. HexInv
  BY <1>1, <1>4, <1>5, EmptySeq DEF HexInv, HexIsCurrent, NothingShown, HexMessages, Ready
<1>7. TraceTypeOK /\ TraceInv /\ TraceIdle
  <2>1. TraceTypeOK /\ filter = None /\ blocks = NoBlocks /\ rows = NoBlocks /\ windows = NoBlocks /\ preparing = {}
    <3>1. TraceInit
      BY DEF Init
    <3>2. kept \in Queries
      BY <3>1, TraceAssumption DEF TraceInit
    <3>3. opened \in BOOLEAN /\ syncing \in BOOLEAN /\ asking \in BOOLEAN
      BY <3>1 DEF TraceInit
    <3>4. /\ generation = 0 /\ result = 0 /\ top = 0 /\ requested = {} /\ typed = None
          /\ filter = None /\ blocks = NoBlocks /\ rows = NoBlocks /\ windows = NoBlocks /\ preparing = {}
      BY <3>1 DEF TraceInit
    <3> QED
      BY <3>2, <3>3, <3>4, TraceAssumption DEF TraceTypeOK
  <2>2. NoBlocks \in HeldBlocks /\ \A b \in Blocks : NoBlocks[b] = None
    BY DEF NoBlocks, HeldBlocks
  <2>3. inbox \in Seq(TraceMessages)
    <3>1. Ready \subseteq TraceMessages
      BY DEF Ready, TraceMessages
    <3> QED
      BY <1>4, <3>1
  <2>4. TraceData /\ OneResult /\ OneLatest /\ TraceIsCurrent
    BY <1>1, <2>1, <2>2, <2>3, EmptySeq DEF TraceData, OneResult, OneLatest, IsLatest, TraceIsCurrent
  <2> QED
    BY <2>1, <2>4 DEF TraceInv, TraceIdle
<1>8. HwInv /\ HwIdle
  <2>1. HwTypeOK /\ mirror = None /\ ports = NoPorts /\ DriveIsKept /\ op = NoOp
    <3>1. HwInit
      BY DEF Init
    <3>2. NoPorts \in [Directions -> 0..now]
      BY <1>1 DEF NoPorts
    <3>3. drive.image \in Images \cup {None}
      BY <3>1 DEF HwInit
    <3>4. refreshing \in BOOLEAN /\ ~careless
      BY <3>1 DEF HwInit
    <3>5. hwGeneration = 0 /\ mirror = None /\ ports = NoPorts /\ portErrors = {} /\ saved = 0 /\ op = NoOp
      BY <3>1 DEF HwInit
    <3>6. saved \in 0..now + 1
      BY <1>1, <3>5
    <3> QED
      BY <3>2, <3>3, <3>4, <3>5, <3>6 DEF HwTypeOK, DriveIsKept
  <2>2. HwData
    <3>1. drive \in Drives /\ drive.updated = FALSE
      <4>1. drive \in [image : Images \cup {None}, updated : {FALSE}, wrote : {0}]
        BY DEF Init, HwInit
      <4>2. 0 \in 0..now + 1
        BY <1>1
      <4>3. drive.updated = FALSE
        BY <4>1
      <4>4. [image : Images \cup {None}, updated : {FALSE}, wrote : {0}] \subseteq Drives
        BY <4>2 DEF Drives
      <4> QED
        BY <4>1, <4>3, <4>4
    <3>2. Ready \subseteq HwMessages
      BY DEF Ready, HwMessages
    <3>3. inbox \in Seq(HwMessages)
      BY <1>4, <3>2
    <3>4. NoOp \in Operations
      BY DEF NoOp, Operations, Phases
    <3> QED
      BY <1>1, <2>1, <3>1, <3>3, <3>4, EmptySeq DEF HwData
  <2>3. OneOperation /\ StillTrue /\ HardwareIsCurrent
    BY <1>1, <2>1 DEF OneOperation, StillTrue, HardwareIsCurrent, Operations, NoOp, NoPorts, OfOperation
  <2> QED
    BY <2>1, <2>2, <2>3 DEF HwInv, HwIdle
<1>9. DisplayInv /\ DisplayIdle
  <2>1. DisplayTypeOK /\ picture = 0 /\ entries = Empty /\ overlays = Empty /\ drawn = Empty /\ removed = Empty
    <3>1. DisplayInit
      BY DEF Init
    <3>2. Empty \in [Scripts -> Stamps]
      BY <3>1 DEF DisplayInit, Empty, Stamps
    <3>3. looping \in BOOLEAN /\ polling \in BOOLEAN /\ overlaysAsked \in BOOLEAN
      BY <3>1 DEF DisplayInit
    <3>4. /\ pageState = "loading" /\ recreations = 0 /\ picture = 0 /\ overlays = Empty /\ entries = Empty
          /\ overlayGeneration = 0 /\ drawn = Empty /\ changed = {} /\ stamp = 0 /\ removed = Empty /\ dropped = {}
      BY <3>1 DEF DisplayInit
    <3>5. picture \in 0..now /\ recreations \in 0..MaxRecreations
      BY <1>1, <3>4, DisplayAssumption
    <3> QED
      BY <3>2, <3>3, <3>4, <3>5 DEF DisplayTypeOK
  <2>2. DisplayWire /\ Canvas /\ Cached
    BY <1>1, <2>1, EmptySeq DEF DisplayWire, OnlyFirst, Canvas, Cached, Empty
  <2> QED
    BY <2>1, <2>2 DEF DisplayInv, DisplayIdle
<1>10. SymInv /\ SymIdle
  <2>1. SymTypeOK /\ Generations /\ listed = NoRows /\ misled = FALSE /\ index = None /\ loading = {}
    <3>1. SymInit
      BY DEF Init
    <3>2. project \in Artifacts \cup {Bare, None}
      BY <3>1 DEF SymInit
    <3>3. disk \in [Artifacts -> Nat \ {0}]
      BY <3>1 DEF SymInit
    <3>4. queried \in BOOLEAN /\ misled = FALSE
      BY <3>1 DEF SymInit
    <3>5. /\ syncGeneration = 0 /\ resolving = 0 /\ loadGeneration = 0 /\ indexGeneration = 0 /\ index = None
          /\ loading = {} /\ listed = NoRows /\ symStatus = "loading"
      BY <3>1 DEF SymInit
    <3> QED
      BY <3>2, <3>3, <3>4, <3>5 DEF SymTypeOK, Generations
  <2>2. inbox \in Seq(SymMessages)
    <3>1. Ready \subseteq SymMessages
      BY DEF Ready, SymMessages
    <3> QED
      BY <1>4, <3>1
  <2>3. listed \in ShownRows /\ listed.content = None
    BY <2>1, NewRow DEF Generations, NoRows, Row
  <2>4. IndexIsOfProject /\ SymPage /\ SymbolsAreCurrent
    BY <1>1, <2>1, <2>2, <2>3 DEF IndexIsOfProject, SymPage, SymbolsAreCurrent
  <2> QED
    BY <2>1, <2>4 DEF SymInv, SymIdle
<1> QED
  BY <1>1, <1>2, <1>5, <1>6, <1>7, <1>8, <1>9, <1>10 DEF ViewInv, HexIdle

\* A step that leaves the variables of a view alone leaves it still.
LEMMA OthersKeepStill ==
  ASSUME LinkOK, now' \in Nat, now <= now'
  PROVE  /\ HexIdle /\ UNCHANGED hexVars => HexIdle'
         /\ TraceIdle /\ UNCHANGED traceVars => TraceIdle'
         /\ HwIdle /\ UNCHANGED hwVars => HwIdle'
         /\ DisplayIdle /\ UNCHANGED displayVars => DisplayIdle'
         /\ SymIdle /\ UNCHANGED symVars => SymIdle'
BY HexKeepsStill, TraceKeepsStill, HwKeepsStill, DisplayKeepsStill, SymKeepsStill

LEMMA ViewsGoOn == ViewInv /\ [Next]_vars => ViewInv'
<1> SUFFICES ASSUME ViewInv, [Next]_vars PROVE ViewInv'
  OBVIOUS
<1>1. LinkOK /\ view' = view /\ now' \in Nat /\ now <= now'
  BY TimeGoesOn DEF ViewInv
<1>2. CASE view = "hex" /\ HexNext /\ UNCHANGED <<traceVars, hwVars, displayVars, symVars>>
  <2>1. LinkOK' /\ HexInv'
    BY <1>2, HexStep DEF ViewInv
  <2> QED
    BY <1>1, <1>2, <2>1, OthersKeepStill DEF ViewInv, HardwareViews
<1>3. CASE view = "trace" /\ TraceNext /\ UNCHANGED <<unheard, hexVars, hwVars, displayVars, symVars>>
  <2>1. LinkOK' /\ TraceInv'
    BY <1>3, TraceStep DEF ViewInv
  <2> QED
    BY <1>1, <1>3, <2>1, OthersKeepStill DEF ViewInv, HardwareViews
<1>4. CASE view \in HardwareViews /\ HwNext /\ UNCHANGED <<hexVars, traceVars, displayVars, symVars>>
  <2>1. LinkOK' /\ HwInv'
    BY <1>4, HwStep DEF ViewInv
  <2> QED
    BY <1>1, <1>4, <2>1, OthersKeepStill DEF ViewInv, HardwareViews
<1>5. CASE view = "display" /\ DisplayNext /\ UNCHANGED <<hexVars, traceVars, hwVars, symVars>>
  <2>1. LinkOK' /\ DisplayInv'
    BY <1>5, DisplayStep DEF ViewInv
  <2> QED
    BY <1>1, <1>5, <2>1, OthersKeepStill DEF ViewInv, HardwareViews
<1>6. CASE view = "symbols" /\ SymNext /\ UNCHANGED <<hexVars, traceVars, hwVars, displayVars>>
  <2>1. LinkOK' /\ SymInv'
    BY <1>6, SymStep DEF ViewInv
  <2> QED
    BY <1>1, <1>6, <2>1, OthersKeepStill DEF ViewInv, HardwareViews
<1>7. CASE UNCHANGED vars
  <2>1. /\ UNCHANGED <<link, wire, inbox, status, unheard, hexVars, traceVars, hwVars, displayVars, symVars>>
        /\ UNCHANGED <<view, state, visible, now, since, events>>
    BY <1>7 DEF vars, link, session
  <2>2. LinkOK' /\ Connected' = Connected
    BY <2>1 DEF ViewInv, LinkOK, Connected
  <2>3. HexInv => HexInv'
    BY <2>1 DEF HexInv, HexTypeOK, HexIsCurrent, HexRequests, Fresh, HexMessages, Connected, hexVars
  <2>4. TraceInv => TraceInv'
    BY <2>1 DEF TraceInv, TraceTypeOK, TraceIsCurrent, TraceData, OneResult, OneLatest, IsLatest, TraceRequests, FilterRequests,
       WindowRequests, TraceRecords, Fresh, TraceMessages, Actions, HeldBlocks, Connected, traceVars, service, panel, browser
  <2>5. HwInv => HwInv'
    <3>1. UNCHANGED <<hwGeneration, refreshing, mirror, ports, portErrors, drive, saved, op, careless>>
      BY <2>1 DEF hwVars
    <3>2. HwRequests' = HwRequests /\ Drives' = Drives
      BY <2>1, <3>1 DEF HwRequests, PortReads, StatisticsReads, Commands, Mounts, Fresh, Tells, Snapshots, Drives
    <3>3. HwData => HwData'
      BY <2>1, <3>1, <3>2 DEF HwData, HwMessages, Tells, Operations
    <3>4. (HwTypeOK => HwTypeOK') /\ (HardwareIsCurrent => HardwareIsCurrent') /\ (DriveIsKept => DriveIsKept')
      BY <2>1, <3>1 DEF HwTypeOK, HardwareIsCurrent, DriveIsKept, Connected
    <3>5. OneOperation => OneOperation'
      BY <2>1, <3>1 DEF OneOperation, Awaited, OfOperation
    <3>6. StillTrue => StillTrue'
      BY <2>1, <3>1 DEF StillTrue, Reported
    <3> QED
      BY <3>3, <3>4, <3>5, <3>6 DEF HwInv
  <2>6. DisplayInv => DisplayInv'
    BY <2>1, SameRequests DEF DisplayInv, DisplayTypeOK, DisplayWire, OnlyFirst, Canvas, Cached, Connected,
       displayVars, panelVars, serviceVars, emulatorVars
  <2>7. SymInv => SymInv'
    BY <2>1 DEF SymInv, SymTypeOK, Generations, IndexIsOfProject, SymPage, SymbolsAreCurrent, ShownRows, TrueRows, SymRows, Contents,
       Loads, SymMessages, Connected, symVars
  <2> QED
    BY <1>1, <2>1, <2>2, <2>3, <2>4, <2>5, <2>6, <2>7, OthersKeepStill DEF ViewInv
<1> QED
  BY <1>2, <1>3, <1>4, <1>5, <1>6, <1>7 DEF Next, HardwareViews

\* What the invariant says of every view, whichever it is.
LEMMA OfThisSessionHolds == ViewInv => OfThisSession
<1> SUFFICES ASSUME ViewInv PROVE OfThisSession
  OBVIOUS
<1>1. LinkOK
  BY DEF ViewInv
<1>2. HexTypeOK /\ HexIsCurrent
  BY DEF ViewInv, HexInv, HexIdle, HexIsCurrent, NothingShown
<1>3. TraceTypeOK /\ TraceIsCurrent
  BY DEF ViewInv, TraceInv, TraceIdle, TraceIsCurrent, NoBlocks
<1>4. HwTypeOK /\ HardwareIsCurrent
  BY DEF ViewInv, HwInv, HwIdle, HardwareIsCurrent, NoPorts
<1>5. DisplayTypeOK /\ DisplayIsCurrent
  <2>1. CASE view = "display"
    BY <2>1, CanvasIsCurrent DEF ViewInv, DisplayInv
  <2>2. CASE view # "display"
    BY <2>2 DEF ViewInv, DisplayIdle, DisplayIsCurrent, Empty
  <2> QED
    BY <2>1, <2>2
<1>6. SymTypeOK /\ SymbolsAreCurrent
  BY DEF ViewInv, SymInv, SymIdle, SymbolsAreCurrent, NoRows, Row
<1>7. \A i \in DOMAIN wire : wire[i].value \in 0..now + 1
  <2>1. now \in Nat
    BY <1>1 DEF LinkOK
  <2>2. CASE view = "hex"
    BY <2>1, <2>2 DEF ViewInv, HexInv, HexRequests, Fresh
  <2>3. CASE view = "trace"
    <3>1. wire \in Seq(TraceRequests)
      BY <2>3 DEF ViewInv, TraceInv, TraceData
    <3>2. \A q \in TraceRequests : q.value \in 0..now + 1
      BY <2>1 DEF TraceRequests, FilterRequests, WindowRequests, Fresh
    <3> QED
      BY <3>1, <3>2
  <2>4. CASE view \in HardwareViews
    <3>1. wire \in Seq(HwRequests)
      BY <2>4 DEF ViewInv, HwInv, HwData
    <3>2. \A q \in HwRequests : q.value \in 0..now + 1
      BY <2>1 DEF HwRequests, PortReads, StatisticsReads, Commands, Mounts, Fresh
    <3> QED
      BY <3>1, <3>2
  <2>5. CASE view = "display"
    <3>1. wire \in Seq(DisplayRequests)
      BY <2>5 DEF ViewInv, DisplayInv, DisplayWire
    <3>2. \A q \in DisplayRequests : q.value \in 0..now + 1
      BY <2>1 DEF DisplayRequests, FrameRequests, Reports, Removals, Fresh
    <3> QED
      BY <3>1, <3>2
  <2>6. CASE view = "symbols"
    BY <2>6 DEF ViewInv, SymInv, SymPage
  <2> QED
    BY <2>2, <2>3, <2>4, <2>5, <2>6 DEF ViewInv
<1>8. LinkTypeOK
  BY <1>1, <1>7 DEF LinkOK, LinkTypeOK, Kinds, Connected
<1> QED
  BY <1>2, <1>3, <1>4, <1>5, <1>6, <1>8 DEF OfThisSession, TypeOK

LEMMA ActionIsSeen == ViewInv => ActsOnWhatIsSeen
<1> SUFFICES ASSUME ViewInv PROVE ActsOnWhatIsSeen
  OBVIOUS
<1>1. TraceActsOnTheRow
  BY TraceActionIsSeen DEF ViewInv, TraceIdle, TraceActsOnTheRow, Acts, Current
<1>2. SymbolActsOnTheRow
  BY DEF ViewInv, SymInv, SymIdle, SymPage, SymbolActsOnTheRow
<1> QED
  BY <1>1, <1>2 DEF ActsOnWhatIsSeen

LEMMA ViewsAreInvariant == Spec => []ViewInv
BY ViewsBegin, ViewsGoOn, PTL DEF Spec

(* Nothing of an earlier session or of another project is ever shown: every   *)
(* view empties itself when its session ends, and no answer, load or timer    *)
(* that was under way then fills it again.                                    *)
THEOREM ViewsAreOfThisSession == Spec => []OfThisSession
BY ViewsAreInvariant, OfThisSessionHolds, PTL

(* The rows that the host acts upon are those of the result in force, and a    *)
(* click names its result: it takes the row that was seen, or none.  An id of  *)
(* a symbol names the generation of the index that its row was made from.      *)
THEOREM ActionsHitWhatWasSeen == Spec => []ActsOnWhatIsSeen
BY ViewsAreInvariant, ActionIsSeen, PTL

(* An operation on a drive begins with a snapshot that tells of every unsaved  *)
(* write, as long as the program stays paused: what is dropped was given up,   *)
(* and what is marked as saved is what the file got.                           *)
THEOREM DrivesAreKept == Spec => []DriveIsKept
<1>1. ViewInv => DriveIsKept
  BY DEF ViewInv, HwInv, HwIdle
<1> QED
  BY <1>1, ViewsAreInvariant, PTL
================================================================================
