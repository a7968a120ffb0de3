------------------------------- MODULE ViewLink -------------------------------
(***************************************************************************)
(* What the live views have in common: the session as they observe it       *)
(* (SessionCoordinator's "state" and its stateChange event), whether the     *)
(* panel can be seen, and the requests they have on the connection.  A view  *)
(* module adds its own state and says, for each change made here, what its    *)
(* listener does; the listeners run synchronously with the change.           *)
(***************************************************************************)
EXTENDS Integers, Sequences, FiniteSets, SequencesExt

CONSTANTS None,       \* no value
          Views,      \* the views explored
          MaxEvents   \* bound on what the user, the program and the network do of themselves

ASSUME ViewAssumption == IsFiniteSet(Views) /\ MaxEvents \in [Views -> Nat]

VARIABLES
    view,     \* the view of this behaviour
    state,    \* "stopped" (no session), "connected" (paused) or "running"
    visible,  \* the panel is on the screen
    now,      \* version of everything the emulator holds; grows as the program runs
    since,    \* the version with which this session began
    wire,     \* requests sent and not yet answered, in order; value 0 until executed
    inbox,    \* messages of the webview the host has yet to handle, in order
    status,   \* the state the panel shows
    unheard,  \* history: the last read was left out, dropped or failed, in silence (see ViewsConverge)
    events    \* how many of what MaxEvents bounds

session == <<view, state, visible, now, since>>
link == <<session, events>>

Connected == state # "stopped"
Request(kind, arg, tag) == [kind |-> kind, arg |-> arg, tag |-> tag, value |-> 0]

Says(type, arg) == [type |-> type, arg |-> arg]

Event == events < MaxEvents[view] /\ events' = events + 1

SessionOpens ==
    /\ state = "stopped" /\ state' = "connected"
    /\ now' = now + 1 /\ since' = now + 1
    /\ UNCHANGED <<view, visible, events>>

\* IpcClient rejects what is on the connection and everything queued.
SessionLost ==
    /\ Event /\ Connected /\ state' = "stopped"
    /\ UNCHANGED <<view, visible, now, since>>

Runs ==
    /\ Event /\ state = "connected" /\ state' = "running"
    /\ UNCHANGED <<view, visible, now, since>>

Stops ==
    /\ state = "running" /\ state' = "connected"
    /\ now' = now + 1
    /\ UNCHANGED <<view, visible, since, events>>

StateChange == SessionOpens \/ SessionLost \/ Runs \/ Stops

ShownOrHidden ==
    /\ Event /\ visible' = ~visible
    /\ UNCHANGED <<view, state, now, since>>

\* One request is on the wire at a time: the oldest is executed, then its answer taken in.
Waits == wire # <<>> /\ Head(wire).value = 0
Arrived == wire # <<>> /\ Head(wire).value # 0
Execute(result) == Waits /\ wire' = [wire EXCEPT ![1].value = result]

LinkInit ==
    /\ view \in Views
    /\ state = "stopped" /\ visible = TRUE /\ now = 0 /\ since = 0 /\ wire = <<>> /\ events = 0
    /\ status = "starting" /\ unheard = FALSE

LinkTypeOK ==
    /\ view \in Views /\ state \in {"stopped", "connected", "running"} /\ visible \in BOOLEAN
    /\ now \in Nat /\ since \in 0..now /\ events \in 0..MaxEvents[view]
    /\ (\A i \in DOMAIN wire : wire[i].value \in 0..now + 1) /\ (state = "stopped" => wire = <<>>)
    /\ unheard \in BOOLEAN
    /\ status \in {"starting", "noSession", "connected", "running", "error"}
=============================================================================
