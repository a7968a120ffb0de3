-------------------------------- MODULE MCViews --------------------------------
(***************************************************************************)
(* The live views together: a behaviour is about one of them, on the common *)
(* session of ViewLink.                                                     *)
(***************************************************************************)
EXTENDS HexViewer, TraceLog, Hardware, Display, Symbols

vars == <<link, wire, inbox, status, unheard, hexVars, traceVars, hwVars, displayVars, symVars>>

Init ==
    /\ LinkInit /\ HexInit /\ TraceInit /\ HwInit /\ DisplayInit /\ SymInit
    /\ inbox = <<Says("ready", TopOf(Main))>>

Next ==
    \/ view = "hex" /\ HexNext /\ UNCHANGED <<traceVars, hwVars, displayVars, symVars>>
    \/ view = "trace" /\ TraceNext /\ UNCHANGED <<unheard, hexVars, hwVars, displayVars, symVars>>
    \/ view \in {"hardware", "ports"} /\ HwNext /\ UNCHANGED <<hexVars, traceVars, displayVars, symVars>>
    \/ view = "display" /\ DisplayNext /\ UNCHANGED <<hexVars, traceVars, hwVars, symVars>>
    \/ view = "symbols" /\ SymNext /\ UNCHANGED <<hexVars, traceVars, hwVars, displayVars>>

Spec == Init /\ [][Next]_vars /\ HexFairness /\ TraceFairness /\ HwFairness /\ DisplayFairness /\ SymFairness
----------------------------------------------------------------------------
TypeOK == LinkTypeOK /\ HexTypeOK /\ TraceTypeOK /\ HwTypeOK /\ DisplayTypeOK /\ SymTypeOK

(* What a view shows was read in the session that is open, and from the       *)
(* project that is selected: no answer, load or timer of an earlier one fills *)
(* it again, however late it comes.                                           *)
OfThisSession ==
    /\ TypeOK
    /\ HexIsCurrent /\ TraceIsCurrent /\ HardwareIsCurrent /\ DisplayIsCurrent /\ SymbolsAreCurrent

(* An action on a row of the trace log or of the symbols is about the row the  *)
(* user saw when he clicked it, although rows are replaced while his message  *)
(* is on its way.                                                             *)
ActsOnWhatIsSeen == TraceActsOnTheRow /\ SymbolActsOnTheRow

Settled ==
    /\ state = "connected" /\ visible
    /\ view = "hex" => ready
    /\ view = "trace" => opened
    /\ view = "display" => pageState = "ready"
UpToDate ==
    CASE view = "hex" -> HexIsUpToDate
      [] view = "trace" -> TraceIsUpToDate
      [] view \in {"hardware", "ports"} -> HardwareIsUpToDate
      [] view = "display" -> DisplayIsUpToDate
      [] view = "symbols" -> SymbolsAreUpToDate

(* A visible view of a program that stays paused comes to show what the       *)
(* emulator holds, whichever messages, reads and loads crossed before, unless  *)
(* it says that it failed or is one of those the code leaves stale in silence: *)
(*   hex       a read that no message waits for failed (`unheard');            *)
(*   trace     none;                                                           *)
(*   hardware  the last refresh failed (`unheard');                            *)
(*   ports     a direction of the last refresh failed or was dropped unseen, or *)
(*             the program overtook it and the stop joined it (`unheard');     *)
(*   display   the last report of that script's overlay was dropped (`dropped`), *)
(*             and the picture is not spoken of: FramesFlow is about it;        *)
(*   symbols   the panel was on the screen when the session began and is empty, *)
(*             or lists the artifact as it was before the last build, which the *)
(*             last load joined or preceded (`unheard').                       *)
ViewsConverge == <>[]Settled => <>[]UpToDate
----------------------------------------------------------------------------
\* The two views with a webview that scrolls need fewer events for their cases.
MCMaxEvents == [v \in Views |-> IF v \in {"hex", "trace"} THEN 2 ELSE 3]
MCRanges == {<<"main", 0>>, <<"main", 1>>, <<"ram", 0>>}
=============================================================================
