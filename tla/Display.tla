-------------------------------- MODULE Display --------------------------------
(***************************************************************************)
(* The Display panel (EmulatorPanel) and the overlays drawn by scripts        *)
(* (ScriptOverlayService).  While the program runs a loop asks for frames;    *)
(* while the panel is on the screen a timer asks for the overlays that have   *)
(* changed.  Answering consumes the changes: the emulator does not repeat     *)
(* them, and says nothing of overlays that are gone; those are taken away     *)
(* when a request of the Scripts panel that removes them is acknowledged.     *)
(* The two delays of 0 ms are left out: a loop is its request on the wire.    *)
(***************************************************************************)
EXTENDS ViewLink

CONSTANTS Scripts,        \* scripts that draw, one overlay each
          MaxRecreations  \* MAX_PANEL_RECREATIONS

ASSUME DisplayAssumption == None \notin Scripts /\ MaxRecreations \in Nat

VARIABLES
    pageState,      \* "closed", "loading", "ready", "late": loading, and no longer waited for
    recreations,  \* panelRecreations
    looping,      \* frameLoopActive
    polling,      \* overlayPollTimer is set
    picture,      \* version of the frame on the canvas, 0 if it is blank
    overlays,     \* the overlays on the canvas, 0 for none
    entries,      \* ScriptOverlayService: the cache
    overlaysAsked,       \* refreshInFlight
    overlayGeneration,
    drawn,        \* emulator: what each script has drawn, 0 for nothing
    changed,      \* emulator: scripts whose overlay was drawn since it was last reported
    stamp,        \* number of overlays drawn so far
    removed,      \* history: stamp when the removal of a script's overlay was acknowledged
    dropped       \* history: scripts whose last report was dropped because of a removal

panelVars == <<pageState, recreations, looping, polling, picture, overlays>>
serviceVars == <<entries, overlaysAsked, overlayGeneration>>
emulatorVars == <<drawn, changed, stamp, removed, dropped>>
displayVars == <<panelVars, serviceVars, emulatorVars>>
displayAll == <<link, wire, inbox, status, unheard, displayVars>>

Empty == [s \in Scripts |-> 0]
Frame == Request("frame", None, None)
SingleFrame == Request("single", None, None)
ChangedOverlays == Request("overlays", None, overlayGeneration)

\* refresh(): joined while one is in flight, refused without a session.
RefreshOverlays(requests) ==
    /\ overlaysAsked' = (overlaysAsked \/ state' # "stopped")
    /\ wire' = requests \o IF state' # "stopped" /\ ~overlaysAsked THEN <<ChangedOverlays>> ELSE <<>>

\* updateOverlayPolling: the first request is made at once, the next ones by the timer.
UpdatePolling(requests) ==
    /\ polling' = (pageState' # "closed" /\ visible' /\ state' # "stopped")
    /\ IF polling' /\ ~polling THEN RefreshOverlays(requests)
       ELSE wire' = requests /\ UNCHANGED overlaysAsked

\* startFrameLoop is ignored while a loop is active; stopFrameLoop leaves its request alone.
StartLoop == IF looping THEN <<>> ELSE <<Frame>>

\* postOverlayMessage, as far as there is a page to take it in.
Show(cache) == overlays' = IF pageState' = "ready" THEN cache ELSE overlays
----------------------------------------------------------------------------
(***************************************************************************)
(* The listeners of the session, the panel and its page.                    *)
(***************************************************************************)
\* A session's end resets the cache and the canvas; the requests are rejected.
SessionEnds ==
    /\ wire' = <<>> /\ overlaysAsked' = FALSE /\ polling' = FALSE /\ looping' = FALSE
    /\ entries' = Empty /\ overlays' = Empty /\ overlayGeneration' = overlayGeneration + 1
    /\ picture' = 0 /\ dropped' = {}
    /\ UNCHANGED <<drawn, changed>>

\* Overlays that the emulator retained are reported again to a new session.
SessionGoesOn ==
    /\ looping' = (pageState # "closed" /\ state' = "running")
    /\ UpdatePolling(wire \o IF looping' THEN StartLoop ELSE <<>>)
    /\ changed' = IF state = "stopped" THEN {s \in Scripts : drawn[s] # 0} ELSE changed
    /\ UNCHANGED <<entries, overlayGeneration, drawn, picture, overlays, dropped>>

DisplayStateChange ==
    /\ StateChange
    /\ UNCHANGED <<inbox, status, unheard, pageState, recreations, stamp, removed>>
    /\ IF state' = "stopped" THEN SessionEnds ELSE SessionGoesOn

DisplayShownOrHidden ==
    /\ ShownOrHidden /\ pageState # "closed" /\ UNCHANGED pageState
    /\ UpdatePolling(wire)
    /\ UNCHANGED <<inbox, status, unheard, recreations, looping, picture, overlays>>
    /\ UNCHANGED <<entries, overlayGeneration, emulatorVars>>

\* Mutant: the loop is left to find out by itself.
LoopOnWhenDisposed ==
    polling' = FALSE /\ picture' = 0 /\ overlays' = Empty /\ UNCHANGED looping

\* onDidDispose, and createPanel when the panel is opened.
Disposed ==
    looping' = FALSE /\ polling' = FALSE /\ picture' = 0 /\ overlays' = Empty

OpenOrClose ==
    /\ Event /\ pageState' = IF pageState = "closed" THEN "loading" ELSE "closed"
    /\ Disposed
    /\ UNCHANGED <<session, wire, inbox, status, unheard, recreations, serviceVars, emulatorVars>>

\* The ready watch: the panel is disposed and created again, twice at most.
ReadyTimeout ==
    /\ pageState = "loading"
    /\ IF recreations < MaxRecreations
       THEN recreations' = recreations + 1 /\ Disposed /\ UNCHANGED pageState
       ELSE pageState' = "late" /\ UNCHANGED <<recreations, looping, polling, picture, overlays>>
    /\ UNCHANGED <<link, wire, inbox, status, unheard, serviceVars, emulatorVars>>

\* 'ready': everything is shown anew, whatever was posted while the page was loading.
PageReady ==
    /\ pageState \in {"loading", "late"} /\ pageState' = "ready" /\ recreations' = 0
    /\ UNCHANGED link
    /\ looping' = (looping \/ state = "running")
    /\ UpdatePolling(wire \o CASE state = "running" -> StartLoop
                               [] state = "connected" -> <<SingleFrame>>
                               [] OTHER -> <<>>)
    /\ Show(entries)
    /\ UNCHANGED <<inbox, status, unheard, picture, entries, overlayGeneration, emulatorVars>>

\* Every 250 ms; it is modelled when it makes a difference.
OverlayTick ==
    /\ polling /\ ~overlaysAsked /\ changed # {}
    /\ UNCHANGED link /\ RefreshOverlays(wire)
    /\ UNCHANGED <<inbox, status, unheard, panelVars, entries, overlayGeneration, emulatorVars>>
----------------------------------------------------------------------------
(***************************************************************************)
(* Answers.                                                                 *)
(***************************************************************************)
\* requestFrame goes on as long as a loop is active.
FrameArrives(r) ==
    /\ picture' = IF r.value # 0 /\ pageState = "ready" THEN r.value ELSE picture
    /\ wire' = Tail(wire) \o IF r.kind = "frame" /\ looping /\ pageState # "closed" THEN <<Frame>> ELSE <<>>
    /\ UNCHANGED <<pageState, recreations, looping, polling, overlays, serviceVars, removed, dropped>>

\* refreshNow: an answer that a removal overtook is dropped, with the changes it carries.
OverlaysArrive(r) ==
    LET accepted == r.value # 0 /\ r.tag = overlayGeneration
    IN  /\ wire' = Tail(wire) /\ overlaysAsked' = FALSE
        /\ entries' = [s \in Scripts |-> IF accepted /\ r.arg[s] # 0 THEN r.arg[s] ELSE entries[s]]
        /\ UNCHANGED <<pageState, recreations, looping, polling, picture>> /\ Show(entries')
        /\ dropped' = IF accepted THEN {s \in dropped : r.arg[s] = 0}
                      ELSE dropped \cup {s \in Scripts : r.value # 0 /\ r.arg[s] > removed[s]}
        /\ UNCHANGED <<overlayGeneration, removed>>

\* Mutant: the removal is taken for granted with the next report.
RemoveNothing(s) ==
    /\ overlayGeneration' = overlayGeneration + 1
    /\ UNCHANGED <<entries, overlays, pageState>>

\* removeScript.
RemoveScript(s) ==
    /\ overlayGeneration' = overlayGeneration + 1
    /\ entries' = [entries EXCEPT ![s] = 0] /\ UNCHANGED pageState /\ Show(entries')

RemovalArrives(r) ==
    /\ wire' = Tail(wire)
    /\ IF r.value # 0 THEN RemoveScript(r.arg) ELSE UNCHANGED <<entries, overlays, overlayGeneration, pageState>>
    /\ removed' = IF r.value # 0 THEN [removed EXCEPT ![r.arg] = r.tag] ELSE removed
    /\ dropped' = IF r.value # 0 THEN dropped \ {r.arg} ELSE dropped
    /\ UNCHANGED <<recreations, looping, polling, picture, overlaysAsked>>

\* The oldest request is answered, or refused (r.value = 0, after which nothing changes).
Takes(r) ==
    \/ r.kind \in {"frame", "single"} /\ FrameArrives(r)
    \/ r.kind = "overlays" /\ OverlaysArrive(r)
    \/ r.kind = "remove" /\ RemovalArrives(r)

DisplayAnswer ==
    /\ Arrived /\ Takes(Head(wire))
    /\ UNCHANGED <<link, inbox, status, unheard, drawn, changed, stamp>>

DisplayRefused ==
    /\ Waits /\ Event /\ Takes(Head(wire))
    /\ UNCHANGED <<session, inbox, status, unheard, drawn, changed, stamp>>
----------------------------------------------------------------------------
(***************************************************************************)
(* The emulator, its scripts, and the Scripts panel.                        *)
(***************************************************************************)
Draws ==
    /\ state = "running" /\ Event /\ stamp' = stamp + 1
    /\ \E s \in Scripts : drawn' = [drawn EXCEPT ![s] = stamp'] /\ changed' = changed \cup {s}
    /\ UNCHANGED <<session, wire, inbox, status, unheard, panelVars, serviceVars, removed, dropped>>

\* A script is disabled, deactivated or deleted.
AsksForRemoval ==
    /\ Event /\ Connected
    /\ \E s \in Scripts : wire' = Append(wire, Request("remove", s, None))
    /\ UNCHANGED <<session, inbox, status, unheard, displayVars>>

DisplayExecute ==
    LET r == Head(wire)
    IN  /\ Waits
        /\ wire' = [wire EXCEPT
             ![1].value = now,
             ![1].tag = IF r.kind = "remove" THEN stamp + 1 ELSE @,
             ![1].arg = IF r.kind = "overlays" THEN [s \in Scripts |-> IF s \in changed THEN drawn[s] ELSE 0]
                        ELSE @]
        /\ changed' = CASE r.kind = "overlays" -> {} [] r.kind = "remove" -> changed \ {r.arg} [] OTHER -> changed
        /\ drawn' = IF r.kind = "remove" THEN [drawn EXCEPT ![r.arg] = 0] ELSE drawn
        /\ stamp' = IF r.kind = "remove" THEN stamp + 1 ELSE stamp
        /\ UNCHANGED <<link, inbox, status, unheard, panelVars, serviceVars, removed, dropped>>
----------------------------------------------------------------------------
DisplayInit ==
    /\ pageState = "loading" /\ recreations = 0 /\ looping = FALSE /\ polling = FALSE
    /\ picture = 0 /\ overlays = Empty
    /\ entries = Empty /\ overlaysAsked = FALSE /\ overlayGeneration = 0
    /\ drawn = Empty /\ changed = {} /\ stamp = 0 /\ removed = Empty /\ dropped = {}

DisplayNext ==
    \/ DisplayStateChange \/ DisplayShownOrHidden \/ OpenOrClose \/ ReadyTimeout \/ PageReady
    \/ OverlayTick \/ DisplayAnswer \/ DisplayRefused
    \/ Draws \/ AsksForRemoval \/ DisplayExecute

\* Requests are answered and the timer ticks; the page may never get ready.
DisplayFairness ==
    /\ WF_displayAll(view = "display" /\ (DisplayExecute \/ DisplayAnswer))
    /\ WF_displayAll(view = "display" /\ OverlayTick)

Stamps == 0..stamp
DisplayTypeOK ==
    /\ pageState \in {"closed", "loading", "ready", "late"} /\ recreations \in 0..MaxRecreations
    /\ looping \in BOOLEAN /\ polling \in BOOLEAN /\ overlaysAsked \in BOOLEAN
    /\ picture \in 0..now /\ entries \in [Scripts -> Stamps] /\ overlays \in [Scripts -> Stamps]
    /\ drawn \in [Scripts -> Stamps] /\ changed \subseteq Scripts /\ stamp \in Nat
    /\ removed \in [Scripts -> Stamps] /\ dropped \subseteq Scripts /\ overlayGeneration \in Nat

\* Nothing of an earlier session is on the canvas, nor an overlay that has been removed.
DisplayIsCurrent ==
    /\ picture # 0 => Connected /\ picture >= since
    /\ \A s \in Scripts : overlays[s] # 0 => Connected /\ overlays[s] > removed[s]
    /\ pageState = "ready" => overlays = entries

\* A script's overlay on the canvas is the one that the emulator has, unless the last
\* report about it was dropped: the emulator does not repeat it until it is drawn again.
DisplayIsUpToDate == \A s \in Scripts : overlays[s] = drawn[s] \/ s \in dropped

\* While the program runs, pictures keep coming.
FramesFlow ==
    view = "display" /\ <>[](state = "running" /\ pageState = "ready")
      => []<>(wire # <<>> /\ Head(wire).kind = "frame")

\* One loop at a time.
OneLoop == Len(SelectSeq(wire, LAMBDA r : r.kind = "frame")) <= 1
=============================================================================
