-------------------------------- MODULE TraceLog --------------------------------
(***************************************************************************)
(* The Trace Log: TraceLogService, TraceLogPanel and assets/trace-log.js.   *)
(* A filter, applied while the program is paused, gives a numbered result    *)
(* ("generation"); the webview asks for the rows it shows, and the service    *)
(* reads the whole block that holds the first of them.  Rows are kept by     *)
(* blocks of BlockSize; a row is the result it comes from: its query and the  *)
(* version of the log.  The source lines of a block are read from disk       *)
(* before it is shown.                                                      *)
(***************************************************************************)
EXTENDS ViewLink

CONSTANTS Queries,     \* what can be typed into the filter
          Tops,        \* where the list can be scrolled to: the first row shown
          Lines,       \* how many rows are shown
          BlockSize,   \* maxLines of the server
          Kept         \* how many blocks service and webview keep: 3 in the code

ASSUME TraceAssumption ==
    /\ Tops \subseteq Nat /\ 0 \in Tops /\ (\E t \in Tops : \A u \in Tops : u <= t)
    /\ Lines \in Nat \ {0} /\ BlockSize \in Nat \ {0} /\ Kept \in Nat \ {0}
    /\ Queries # {} /\ None \notin [gen : Nat, query : Queries, at : Nat]

Block(row) == row \div BlockSize
Blocks == 0..Block((CHOOSE t \in Tops : \A u \in Tops : u <= t) + Lines)
NoBlocks == [b \in Blocks |-> None]

VARIABLES
    opened,       \* the webview is loaded: its 'ready' was handled
    generation,   \* generation of the service
    filter,       \* filterState: its generation and result
    windows,      \* the blocks the service holds
    requested,    \* windowRequests: blocks on their way
    syncing,      \* the latest syncSession awaits the source context
    typed,        \* queryTimer: the query it applies
    kept,         \* the query in workspaceState
    preparing,    \* blocks whose source lines are being read
    rows,         \* rows: what the host acts upon
    result,       \* webview: the generation it shows, 0 for none
    blocks,       \* webview: the blocks it shows
    top,          \* webview: the scroll position
    asking,       \* webview: requestTimer is set
    lastRequest   \* webview: what it asked for last

service == <<generation, filter, windows, requested>>
panel == <<opened, syncing, typed, kept, preparing, rows>>
browser == <<result, blocks, top, asking, lastRequest>>
traceVars == <<service, panel, browser>>
traceAll == <<link, wire, inbox, status, traceVars>>

Paused == state = "connected" /\ visible
Filter(gen, query, at) == [gen |-> gen, query |-> query, at |-> at]
\* current(): the message is about the result in force.
Current(gen) == filter # None /\ filter.gen = gen /\ visible

\* trimWindows: the Kept blocks nearest to "at".
Near(b, at) == IF b > at THEN b - at ELSE at - b
Trim(held, at) ==
    LET has == {b \in Blocks : held[b] # None}
        stay == CHOOSE K \in SUBSET has :
                    /\ Cardinality(K) = IF Cardinality(has) < Kept THEN Cardinality(has) ELSE Kept
                    /\ \A b \in K, c \in has \ K : Near(b, at) <= Near(c, at)
    IN  [b \in Blocks |-> IF b \in stay THEN held[b] ELSE None]
----------------------------------------------------------------------------
(***************************************************************************)
(* Parts of the service and the panel.                                      *)
(***************************************************************************)
\* invalidate().
Invalidate ==
    generation' = generation + 1 /\ filter' = None /\ windows' = NoBlocks /\ requested' = {}

\* resetResult() of the webview.
ResetResult ==
    result' = 0 /\ blocks' = NoBlocks /\ asking' = FALSE /\ lastRequest' = None /\ UNCHANGED top

\* clear(): both invalidate, the service first by its own listener.
Clear(shows) ==
    /\ Invalidate /\ syncing' = FALSE /\ typed' = None /\ rows' = NoBlocks
    /\ ResetResult /\ status' = shows

\* syncSession up to its await; a hidden panel hears only of the end of a session.
SyncTrace ==
    IF state' = "stopped" THEN Clear("noSession")
    ELSE IF ~visible' THEN
        /\ IF state' = "running" THEN Invalidate ELSE UNCHANGED service
        /\ UNCHANGED <<syncing, typed, rows, browser, status>>
    ELSE IF state' = "running" THEN Clear("running")
    ELSE syncing' = TRUE /\ UNCHANGED <<service, typed, rows, browser, status>>

\* applyQuery up to the request of filter().
ApplyQuery(query) ==
    IF ~Paused THEN UNCHANGED <<service, rows, status, wire>>
    ELSE /\ rows' = NoBlocks /\ Invalidate /\ status' = "starting"
         /\ wire' = Append(wire, Request("filter", query, generation'))
----------------------------------------------------------------------------
TraceStateChange ==
    /\ StateChange
    /\ SyncTrace
    /\ wire' = IF state' = "stopped" THEN <<>> ELSE wire
    /\ UNCHANGED <<opened, kept, preparing, inbox>>

TraceShownOrHidden ==
    /\ ShownOrHidden
    /\ \/ visible' /\ SyncTrace
       \/ /\ ~visible' /\ Invalidate /\ typed' = None /\ rows' = NoBlocks
          /\ UNCHANGED <<syncing, browser, status>>
    /\ UNCHANGED <<opened, kept, preparing, inbox, wire>>

\* loadSourceContext ends: the persisted query is applied.
SourceContextLoaded ==
    /\ syncing /\ syncing' = FALSE
    /\ ApplyQuery(kept)
    /\ UNCHANGED <<opened, typed, kept, preparing, browser, inbox, link>>

QueryTimer ==
    /\ typed # None /\ typed' = None
    /\ ApplyQuery(typed)
    /\ UNCHANGED <<opened, syncing, kept, preparing, browser, inbox, link>>

\* A filter is executed on the log as it is; a window reads the result of its filter.
TraceExecute ==
    /\ \/ Waits /\ Head(wire).kind = "filter" /\ Execute(now)
       \/ Waits /\ Head(wire).kind = "window" /\ Execute(Head(wire).tag.at)
    /\ UNCHANGED <<link, inbox, status, traceVars>>

\* requireCurrent, then the filter is published: the webview starts over at the top.
FilterAnswered ==
    LET r == Head(wire)
    IN  /\ Arrived /\ r.kind = "filter"
        /\ wire' = Tail(wire)
        /\ IF r.tag = generation /\ Paused
           THEN /\ filter' = Filter(generation, r.arg, r.value)
                /\ result' = generation /\ blocks' = NoBlocks /\ lastRequest' = None /\ top' = 0
                /\ asking' = TRUE /\ status' = "connected"
           ELSE UNCHANGED <<filter, browser, status>>
        /\ UNCHANGED <<generation, windows, requested, panel, inbox, link>>

\* loadWindow: a block of the result in force is kept, and its rows prepared.  Any answer
\* forgets the request for its block, a later one of the same block included.
WindowAnswered ==
    LET r == Head(wire)
    IN  /\ Arrived /\ r.kind = "window"
        /\ wire' = Tail(wire)
        /\ IF r.tag.gen = generation /\ Paused
           THEN /\ windows' = Trim([windows EXCEPT ![r.arg] = r.tag], r.arg)
                /\ preparing' = preparing \cup {<<r.arg, r.tag>>}
           ELSE UNCHANGED <<windows, preparing>>
        /\ requested' = requested \ {r.arg}
        /\ UNCHANGED <<generation, filter, opened, syncing, typed, kept, rows, browser, inbox, status, link>>

\* report(): the answer to a request of an inactive result is not worth a message.
TraceFails ==
    LET r == Head(wire)
    IN  /\ Waits /\ Event
        /\ wire' = Tail(wire)
        /\ status' = "error"
        /\ requested' = IF r.kind = "window" THEN requested \ {r.arg} ELSE requested
        /\ UNCHANGED <<session, generation, filter, windows, panel, browser, inbox>>

\* Mutant: the rows of a result that was replaced while their lines were read are kept.
AnyResult(gen) ==
    TRUE

StillCurrent(gen) ==
    Current(gen)

\* The rows are ready: kept with their neighbours (trimRows), and shown.
Prepared ==
    /\ \E p \in preparing :
        /\ preparing' = preparing \ {p}
        /\ IF StillCurrent(p[2].gen)
           THEN /\ rows' = [b \in Blocks |-> IF b = p[1] THEN p[2] ELSE IF Near(b, p[1]) <= 1 THEN rows[b] ELSE None]
                /\ IF p[2].gen = result
                   THEN /\ blocks' = Trim([blocks EXCEPT ![p[1]] = p[2]],
                                          IF lastRequest = None THEN 0 ELSE Block(lastRequest[2]))
                        /\ lastRequest' = None /\ asking' = TRUE
                   ELSE UNCHANGED <<blocks, lastRequest, asking>>
           ELSE UNCHANGED <<rows, blocks, lastRequest, asking>>
    /\ UNCHANGED <<service, opened, syncing, typed, kept, result, top, inbox, status, wire, link>>
----------------------------------------------------------------------------
(***************************************************************************)
(* The webview, and the host's handling of its messages.                    *)
(***************************************************************************)
\* The blocks of the rows shown.
Shown(t) == {Block(r) : r \in t..t + Lines - 1}

\* requestTimer: asks once for the rows on the screen that are missing.
Ask ==
    /\ asking /\ asking' = FALSE
    /\ IF result = 0 \/ (\A b \in Shown(top) : blocks[b] # None) \/ lastRequest = <<result, top>>
       THEN UNCHANGED <<lastRequest, inbox>>
       ELSE /\ lastRequest' = <<result, top>>
            /\ inbox' = Append(inbox, Says("visibleRange", [gen |-> result, row |-> top]))
    /\ UNCHANGED <<service, panel, result, blocks, top, status, wire, link>>

\* The request's rows, then the rows acted upon as they are seen.
ScrollTrace ==
    /\ Event /\ visible /\ result # 0
    /\ \E t \in Tops \ {top} : top' = t
    /\ asking' = TRUE
    /\ UNCHANGED <<service, panel, result, blocks, lastRequest, inbox, status, wire, session>>

ClickRow ==
    /\ Event /\ visible /\ result # 0
    /\ \E b \in Shown(top) :
        /\ blocks[b] # None
        /\ inbox' = Append(inbox, Says("action", [gen |-> result, block |-> b, seen |-> blocks[b]]))
    /\ UNCHANGED <<service, panel, browser, status, wire, session>>

\* The box is not tied to a session: 'query' and 'persist' are posted at every key.
TypeQuery ==
    /\ Event /\ visible /\ opened
    /\ \E q \in Queries : inbox' = Append(inbox, Says("query", q))
    /\ UNCHANGED <<service, panel, browser, status, wire, session>>

OnTraceReady ==
    /\ Head(inbox).type = "ready" /\ opened' = TRUE
    /\ UNCHANGED <<state, visible>> /\ SyncTrace
    /\ UNCHANGED <<kept, preparing, wire>>

\* window(): from the cache, joining the request on its way, or by a new one.
OnTraceRange ==
    LET m == Head(inbox).arg
        b == Block(m.row)
    IN  /\ Head(inbox).type = "visibleRange"
        /\ IF Current(m.gen) /\ windows[b] # None
           THEN preparing' = preparing \cup {<<b, windows[b]>>} /\ UNCHANGED <<requested, wire>>
           ELSE IF Current(m.gen) /\ b \notin requested
           THEN /\ requested' = requested \cup {b} /\ UNCHANGED preparing
                /\ wire' = Append(wire, Request("window", b, filter))
           ELSE UNCHANGED <<preparing, requested, wire>>
        /\ UNCHANGED <<generation, filter, windows, opened, syncing, typed, kept, rows, browser, status>>

OnQueryTyped ==
    /\ Head(inbox).type = "query"
    /\ typed' = IF Paused THEN Head(inbox).arg ELSE None
    /\ kept' = Head(inbox).arg
    /\ UNCHANGED <<service, opened, syncing, preparing, rows, browser, status, wire>>

\* runAction and openLink act on rows[index] of the result in force, or do nothing.
Acts(m) == m.type = "action" /\ Current(m.arg.gen) /\ rows[m.arg.block] # None
OnAction ==
    /\ Head(inbox).type = "action"
    /\ UNCHANGED <<traceVars, status, wire>>

TraceMessage ==
    /\ inbox # <<>> /\ inbox' = Tail(inbox)
    /\ OnTraceReady \/ OnTraceRange \/ OnQueryTyped \/ OnAction
    /\ UNCHANGED link
----------------------------------------------------------------------------
TraceInit ==
    /\ opened = FALSE /\ generation = 0 /\ filter = None /\ windows = NoBlocks /\ requested = {}
    /\ syncing = FALSE /\ typed = None /\ kept \in (IF view = "trace" THEN Queries ELSE {CHOOSE q \in Queries : TRUE}) /\ preparing = {} /\ rows = NoBlocks
    /\ result = 0 /\ blocks = NoBlocks /\ top = 0 /\ asking = FALSE /\ lastRequest = None

TraceNext ==
    \/ TraceStateChange \/ TraceShownOrHidden \/ SourceContextLoaded \/ QueryTimer
    \/ TraceExecute \/ FilterAnswered \/ WindowAnswered \/ TraceFails \/ Prepared
    \/ Ask \/ ScrollTrace \/ ClickRow \/ TypeQuery \/ TraceMessage

\* What is under way ends: loads, timers, answers and messages.
TraceFairness ==
    /\ WF_traceAll(view = "trace" /\ (SourceContextLoaded \/ QueryTimer))
    /\ WF_traceAll(view = "trace" /\ (TraceExecute \/ FilterAnswered \/ WindowAnswered))
    /\ WF_traceAll(view = "trace" /\ (Prepared \/ Ask \/ TraceMessage))

TraceTypeOK ==
    /\ {opened, syncing, asking} \subseteq BOOLEAN /\ kept \in Queries /\ typed \in Queries \cup {None}
    /\ generation \in Nat /\ result \in 0..generation /\ top \in Tops /\ requested \subseteq Blocks
    /\ filter # None => filter \in [gen : 0..generation, query : Queries, at : 0..now]

\* No row of an earlier session is on the screen.
TraceIsCurrent == \A b \in Blocks : blocks[b] # None => Connected /\ blocks[b].at >= since

\* A click on a row acts on that row, or on none.
TraceActsOnTheRow ==
    inbox # <<>> /\ Acts(Head(inbox)) => rows[Head(inbox).arg.block] = Head(inbox).arg.seen

\* The first row on the screen is of the last stop, and of the query typed last.
TraceIsUpToDate ==
    \/ status = "error"
    \/ /\ blocks[Block(top)] # None
       /\ blocks[Block(top)].at = now /\ blocks[Block(top)].query = kept
=============================================================================
