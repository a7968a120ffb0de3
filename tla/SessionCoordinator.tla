------------------------- MODULE SessionCoordinator -------------------------
(***************************************************************************)
(* The session life cycle of                                               *)
(* src/src/emulator/session/session-coordinator.ts: Run Project, debug     *)
(* launch, borrowed attach, stop and shutdown over one emulator socket.    *)
(*                                                                         *)
(* Transitions run one at a time on transitionTail, but every `await` in   *)
(* one of them lets other things happen: the socket is lost, the emulator  *)
(* process exits, a newer transition is submitted, the debug adapter       *)
(* detaches, a program reload finishes.  One action is the code between    *)
(* two awaits; job.pc names the await the running transition is at.        *)
(*                                                                         *)
(* Session keys and connection epochs are only ever compared for equality  *)
(* with a captured value, so a capture is modelled by whether the identity *)
(* is still the captured one: job.live for the lease of an opening,        *)
(* job.same and job.sameProgram for the context of a stop, reload for the  *)
(* lease of a program reload.                                              *)
(***************************************************************************)
EXTENDS Integers, Sequences, FiniteSets

CONSTANTS Procs,        \* emulator processes that can be launched
          None,         \* absence of a process or peer
          External,     \* an emulator this extension did not launch
          MaxAttempts,  \* CONNECT_MAX_RETRIES
          ForeignRun,   \* may External hold the fixed port of Run Project?
          PromptExit,   \* does an emulator whose socket is lost exit within 2 s?
          MaxRequests   \* bound: transitions and detaches submitted by users,
                        \* the final shutdown not counted

ASSUME SessionAssumption ==
    /\ None \notin Procs /\ External \notin Procs /\ None # External
    /\ MaxAttempts \in Nat \ {0}
    /\ ForeignRun \in BOOLEAN /\ PromptExit \in BOOLEAN
    /\ MaxRequests \in Nat

VARIABLES
    session,       \* _state, _owner, mode, emulatorProcess, program,
                   \* debuggerAttached and _serverInfo of the coordinator
    opening,       \* a transition is between launch and its publication
    requestId,     \* last submitted transition
    queue,         \* transitions waiting on transitionTail
    job,           \* the running transition and what it captured
    stopInFlight,  \* id of the shared stop, or 0
    shutdown,      \* progress of shutdown(), called at deactivation
    reload,        \* lease of a reload in progress: "idle", "live" or "gone"
    link,          \* the IPC client: "none", "connecting" or "open"
    peer,          \* environment: who answers on the socket
    proc,          \* environment: "none", "alive" or "dead" per process
    killed,        \* processes sent a kill
    released,      \* processes detached from on purpose by disconnect()
    exitSent       \* peers that were sent EXIT

vars == <<session, opening, requestId, queue, job, stopInFlight, shutdown,
          reload, link, peer, proc, killed, released, exitSent>>
hostVars == <<requestId, queue, stopInFlight, shutdown>>

Peers == Procs \cup {External}
Kinds == {"run", "debug", "attach", "stop", "shutdown"}
Modes == {"none", "run", "debug", "attach"}
Owners == {"none", "run", "debug"}
Usable == {"connected", "running"}

NoSession == [state |-> "stopped", owner |-> "none", mode |-> "none",
              process |-> None, program |-> FALSE, attached |-> FALSE,
              info |-> FALSE]
Sessions == [state : {"stopped", "launching"} \cup Usable, owner : Owners,
             mode : Modes, process : Procs \cup {None}, program : BOOLEAN,
             attached : BOOLEAN, info : BOOLEAN]

PCs == {"idle", "detaching", "pausing", "saving", "exiting", "waiting",
        "stopped", "port", "connecting", "retrying", "negotiating",
        "attaching", "loading"}
Idle == [id |-> 0, kind |-> "stop", pc |-> "idle", attempt |-> 0,
         process |-> None, owner |-> "none", same |-> FALSE,
         sameProgram |-> FALSE, linked |-> FALSE, saved |-> FALSE,
         live |-> FALSE]
Jobs == [id : Nat, kind : Kinds, pc : PCs, attempt : Nat,
         process : Procs \cup {None}, owner : Owners, same : BOOLEAN,
         sameProgram : BOOLEAN, linked : BOOLEAN, saved : BOOLEAN,
         live : BOOLEAN]

TypeOK ==
    /\ session \in Sessions
    /\ opening \in BOOLEAN
    /\ requestId \in Nat
    /\ queue \in Seq([id : Nat, kind : Kinds])
    /\ job \in Jobs
    /\ stopInFlight \in Nat
    /\ shutdown \in {"no", "first", "retry", "second", "done"}
    /\ reload \in {"idle", "live", "gone"}
    /\ link \in {"none", "connecting", "open"}
    /\ peer \in Peers \cup {None}
    /\ proc \in [Procs -> {"none", "alive", "dead"}]
    /\ killed \subseteq Procs /\ released \subseteq Procs
    /\ exitSent \subseteq Peers \cup {None}

Init ==
    /\ session = NoSession
    /\ opening = FALSE
    /\ requestId = 0
    /\ queue = <<>>
    /\ job = Idle
    /\ stopInFlight = 0
    /\ shutdown = "no"
    /\ reload = "idle"
    /\ link = "none"
    /\ peer = None
    /\ proc = [p \in Procs |-> "none"]
    /\ killed = {} /\ released = {} /\ exitSent = {}

-----------------------------------------------------------------------------
(* Connection and session identity.                                        *)

\* Mutants: the 'disconnect' listener forgets the state, or the debugger.
DroppedSilently == IF link = "none" THEN session
                   ELSE [session EXCEPT !.info = FALSE, !.attached = FALSE]
DroppedAttached == IF link = "none" THEN session
                   ELSE [session EXCEPT !.info = FALSE,
                                        !.state = IF opening THEN @ ELSE "stopped"]

\* Effect on the session of client.disconnect() or of losing the socket: the
\* client's 'disconnect' event runs the coordinator's listener.
Dropped == IF link = "none" THEN session
           ELSE [session EXCEPT !.info = FALSE, !.attached = FALSE,
                                !.state = IF opening THEN @ ELSE "stopped"]

\* A new sessionKey and, if a socket existed, a new epoch.
Forget(j) == [j EXCEPT !.live = FALSE, !.same = @ /\ link = "none"]

\* Mutant: a lease outlives its session.
ReloadStays == reload
ReloadGone == IF reload = "live" THEN "gone" ELSE reload

Unlink == link' = "none" /\ peer' = None /\ reload' = ReloadGone

\* disconnectCurrent(), and the process monitor: everything is cleared.
DisconnectCurrent == Unlink /\ session' = NoSession

\* Mutant: the process is dropped without being killed.
CleanupWithoutKill == DisconnectCurrent /\ UNCHANGED killed

\* cleanup() followed by owner = null and setState('stopped').
Cleanup ==
    /\ DisconnectCurrent
    /\ killed' = killed \cup ({session.process} \cap Procs)

-----------------------------------------------------------------------------
(* Submitting transitions.                                                 *)

\* submitTransition(): takes an id, cancels an opening, joins the tail.
Submit(kind) ==
    /\ requestId' = requestId + 1
    /\ queue' = Append(queue, [id |-> requestId + 1, kind |-> kind])
    /\ IF opening
       THEN Unlink /\ session' = Dropped /\ job' = Forget(job)
       ELSE UNCHANGED <<link, peer, reload, session, job>>
    /\ UNCHANGED <<opening, proc, killed, released, exitSent>>

\* start / restart, startDebug and attach.
Open(kind) ==
    /\ kind \in {"run", "debug", "attach"}
    /\ shutdown = "no" /\ requestId < MaxRequests
    /\ Submit(kind)
    /\ UNCHANGED <<stopInFlight, shutdown>>

\* Mutant: every stop is a transition of its own.
AlwaysSubmitStop(kind) == Submit(kind) /\ stopInFlight' = requestId + 1

\* stop(reason): concurrent stops share one transition.
JoinOrSubmitStop(kind) ==
    IF stopInFlight # 0
    THEN UNCHANGED <<session, opening, requestId, queue, job, stopInFlight,
                     reload, link, peer, proc, killed, released, exitSent>>
    ELSE Submit(kind) /\ stopInFlight' = requestId + 1

Stop ==
    /\ shutdown = "no" /\ requestId < MaxRequests
    /\ JoinOrSubmitStop("stop")
    /\ UNCHANGED shutdown

\* shutdown(): joins a stop in flight, and tries once more if that one fails.
Shutdown ==
    /\ shutdown = "no"
    /\ JoinOrSubmitStop("shutdown")
    /\ shutdown' = "first"

ShutdownAgain ==
    /\ shutdown = "retry"
    /\ JoinOrSubmitStop("shutdown")
    /\ shutdown' = "second"

\* Public disconnect(), called by the debug adapter's cleanup while the client
\* is connected: the emulator is left running.
Disconnect ==
    /\ shutdown = "no" /\ requestId < MaxRequests
    /\ link = "open"
    /\ requestId' = requestId + 1
    /\ DisconnectCurrent
    /\ job' = Forget(job)
    /\ released' = released \cup ({session.process} \cap Procs)
    /\ UNCHANGED <<opening, queue, stopInFlight, shutdown, proc, killed, exitSent>>

-----------------------------------------------------------------------------
(* The end of a transition, and failure of an opening.                     *)

\* Mutant: a stop that fails is not tried again by shutdown().
FinishOnce(id, ok) ==
    /\ job' = Idle
    /\ IF id = stopInFlight
       THEN /\ stopInFlight' = 0
            /\ shutdown' = IF ok /\ shutdown # "no" THEN "done" ELSE shutdown
       ELSE UNCHANGED <<stopInFlight, shutdown>>

\* The promise of transition id settles: clear() forgets a stop that was in
\* flight, and a shutdown waiting on it goes on.
Finish(id, ok) ==
    /\ job' = Idle
    /\ IF id = stopInFlight
       THEN /\ stopInFlight' = 0
            /\ shutdown' = CASE shutdown = "first" -> IF ok THEN "done" ELSE "retry"
                             [] shutdown = "second" -> "done"
                             [] OTHER -> shutdown
       ELSE UNCHANGED <<stopInFlight, shutdown>>

\* Mutant: no `finally`, the opening never ends.
FailOpeningHalfway ==
    /\ IF job.kind = "attach"
       THEN DisconnectCurrent /\ UNCHANGED killed
       ELSE Cleanup
    /\ Finish(job.id, FALSE)
    /\ UNCHANGED <<opening, requestId, queue, proc, released, exitSent>>

\* The catch blocks: startRunNow and startDebugNow clean up the process they
\* launched, attach only disconnects; `finally` ends the opening.
FailOpening ==
    /\ IF job.kind = "attach"
       THEN DisconnectCurrent /\ UNCHANGED killed
       ELSE Cleanup
    /\ opening' = FALSE
    /\ Finish(job.id, FALSE)
    /\ UNCHANGED <<requestId, queue, proc, released, exitSent>>

\* Mutant: assertRequest never throws.
NeverSuperseded == FALSE
Superseded == job.id # requestId

-----------------------------------------------------------------------------
(* Stopping: stopNow(reason), run by every transition but attach.          *)

\* context.assertCurrent of the stop.
StopCurrent == /\ session.process = job.process /\ session.owner = job.owner
               /\ job.same /\ job.sameProgram /\ link = "open"

StopCaptured(t, pc) ==
    [Idle EXCEPT !.id = t.id, !.kind = t.kind, !.pc = pc,
                 !.process = session.process, !.owner = session.owner,
                 !.same = TRUE, !.sameProgram = TRUE, !.linked = link = "open"]

\* Mutant: a shutdown's tolerance of failures applies to every stop.
NeverRequired == FALSE
SaveRequired == job.kind # "shutdown"

\* Mutant: a borrowed session is stopped like an owned one.
BeginOwnedStop(t) ==
    /\ job' = StopCaptured(t, IF session.state = "stopped" /\ session.process = None
                              THEN "stopped"
                              ELSE IF link = "open" THEN "pausing" ELSE "waiting")
    /\ UNCHANGED <<session, link, peer, reload>>

\* The beginning of stopNow, as far as its first await.
BeginStop(t) ==
    \/ /\ session.state = "stopped" /\ session.process = None
       /\ job' = StopCaptured(t, "stopped")
       /\ UNCHANGED <<session, link, peer, reload>>
    \/ /\ session.state # "stopped" \/ session.process # None
       /\ session.mode = "attach"
       /\ IF link = "open" /\ session.attached
          THEN /\ job' = StopCaptured(t, "detaching")
               /\ UNCHANGED <<session, link, peer, reload>>
          ELSE /\ job' = StopCaptured(t, "stopped")
               /\ DisconnectCurrent
    \/ /\ session.state # "stopped" \/ session.process # None
       /\ session.mode # "attach"
       /\ job' = StopCaptured(t, IF link = "open" THEN "pausing" ELSE "waiting")
       /\ UNCHANGED <<session, link, peer, reload>>

\* DEBUG_ATTACH false answered or failed: the borrowed emulator is left alone.
Detached ==
    /\ job.pc = "detaching"
    /\ DisconnectCurrent
    /\ job' = [Forget(job) EXCEPT !.pc = "stopped"]
    /\ UNCHANGED <<opening, hostVars, proc, killed, released, exitSent>>

\* EXIT goes only to the captured process on the captured connection.
ExitOrWait(j) ==
    IF session.process = j.process /\ j.same
    THEN /\ job' = [j EXCEPT !.pc = "exiting"]
         /\ exitSent' = exitSent \cup {peer}
    ELSE /\ job' = [j EXCEPT !.pc = "waiting"]
         /\ UNCHANGED exitSent

\* STOP answered or failed: setExecutionRunning(false), then the participants
\* run unless the session is no longer the one being stopped.
Paused ==
    /\ job.pc = "pausing"
    /\ session' = IF session.state \in Usable
                  THEN [session EXCEPT !.state = "connected"] ELSE session
    /\ \/ /\ StopCurrent
          /\ job' = [job EXCEPT !.pc = "saving"]
          /\ UNCHANGED <<hostVars, exitSent>>
       \/ /\ ~StopCurrent /\ SaveRequired
          /\ Finish(job.id, FALSE)
          /\ UNCHANGED <<requestId, queue, exitSent>>
       \/ /\ ~StopCurrent /\ ~SaveRequired
          /\ ExitOrWait(job)
          /\ UNCHANGED hostVars
    /\ UNCHANGED <<opening, reload, link, peer, proc, killed, released>>

\* The stop participants (the disk save) settle: a failure, or a session that
\* changed meanwhile, rejects a normal stop and is logged by a shutdown.
Saved ==
    /\ job.pc = "saving"
    /\ \E ok \in BOOLEAN :
       \/ /\ ok /\ StopCurrent
          /\ ExitOrWait([job EXCEPT !.saved = TRUE])
          /\ UNCHANGED hostVars
       \/ /\ ~(ok /\ StopCurrent) /\ SaveRequired
          /\ Finish(job.id, FALSE)
          /\ UNCHANGED <<requestId, queue, exitSent>>
       \/ /\ ~(ok /\ StopCurrent) /\ ~SaveRequired
          /\ ExitOrWait(job)
          /\ UNCHANGED hostVars
    /\ UNCHANGED <<session, opening, reload, link, peer, proc, killed, released>>

\* EXIT answered or failed.
ExitAnswered ==
    /\ job.pc = "exiting"
    /\ job' = [job EXCEPT !.pc = "waiting"]
    /\ UNCHANGED <<session, opening, hostVars, reload, link, peer, proc, killed,
                   released, exitSent>>

\* The process exited or two seconds passed: clean up, unless the session or
\* its connection is no longer the captured one.
Waited ==
    /\ job.pc = "waiting"
    /\ ~(PromptExit /\ ~job.same /\ job.process # None /\ session.process = job.process)
    /\ IF session.process # job.process \/ session.owner # job.owner \/ ~job.same
       THEN /\ job' = [job EXCEPT !.pc = "stopped"]
            /\ UNCHANGED <<session, link, peer, reload, killed>>
       ELSE /\ job' = [Forget(job) EXCEPT !.pc = "stopped"]
            /\ Cleanup
    /\ UNCHANGED <<opening, hostVars, proc, released, exitSent>>

-----------------------------------------------------------------------------
(* Opening.                                                                *)

\* The next transition leaves the tail; one that was superseded is rejected.
Begin ==
    /\ job.pc = "idle" /\ queue # <<>>
    /\ LET t == Head(queue) IN
       \/ /\ t.id # requestId
          /\ Finish(t.id, FALSE)
          /\ UNCHANGED <<session, opening, link, peer, reload>>
       \/ /\ t.id = requestId /\ t.kind # "attach"
          /\ BeginStop(t)
          /\ UNCHANGED <<opening, stopInFlight, shutdown>>
       \/ /\ t.id = requestId /\ t.kind = "attach" /\ session.owner # "none"
          /\ Finish(t.id, FALSE)
          /\ UNCHANGED <<session, opening, link, peer, reload>>
       \/ /\ t.id = requestId /\ t.kind = "attach" /\ session.owner = "none"
          /\ job' = [Idle EXCEPT !.id = t.id, !.kind = "attach",
                                 !.pc = "connecting", !.attempt = MaxAttempts]
          /\ session' = [NoSession EXCEPT !.mode = "attach", !.state = "launching"]
          /\ opening' = TRUE
          /\ link' = "connecting" /\ peer' = None /\ reload' = ReloadGone
          /\ UNCHANGED <<stopInFlight, shutdown>>
    /\ queue' = Tail(queue)
    /\ UNCHANGED <<requestId, proc, killed, released, exitSent>>

\* stopNow returned: a stop is done, a superseded start is rejected.
EndStop ==
    /\ job.pc = "stopped"
    /\ job.kind \in {"stop", "shutdown"} \/ Superseded
    /\ Finish(job.id, job.kind \in {"stop", "shutdown"})
    /\ UNCHANGED <<session, opening, requestId, queue, reload, link, peer, proc,
                   killed, released, exitSent>>

\* Mutant: ownership is claimed only by the connection, not by the launch.
OpenedUnowned(p) == [session EXCEPT !.mode = job.kind, !.state = "launching",
                                    !.process = p]
Opened(p) == [session EXCEPT !.mode = job.kind, !.owner = job.kind,
                             !.state = "launching", !.process = p]

Launched(p) == /\ proc[p] = "none"
               /\ proc' = [proc EXCEPT ![p] = "alive"]
               /\ link' = IF link = "open" THEN "open" ELSE "connecting"

\* stopNow returned to start: the image is prepared and the emulator launched
\* without an await in between; both may throw.
StartRun ==
    /\ job.pc = "stopped" /\ job.kind = "run" /\ ~Superseded
    /\ \/ /\ \E p \in Procs : Launched(p) /\ session' = Opened(p)
                              /\ job' = [job EXCEPT !.pc = "connecting",
                                                    !.attempt = 1, !.process = p]
          /\ opening' = TRUE
          /\ reload' = ReloadGone
          /\ UNCHANGED <<hostVars, peer, killed, released, exitSent>>
       \/ FailOpening

\* stopNow returned to startDebug, which looks for a free port first.
StartDebug ==
    /\ job.pc = "stopped" /\ job.kind = "debug" /\ ~Superseded
    /\ session' = Opened(session.process)
    /\ job' = [job EXCEPT !.pc = "port"]
    /\ opening' = TRUE
    /\ reload' = ReloadGone
    /\ UNCHANGED <<hostVars, link, peer, proc, killed, released, exitSent>>

LaunchDebug ==
    /\ job.pc = "port" /\ ~Superseded
    /\ \E p \in Procs : Launched(p) /\ session' = [session EXCEPT !.process = p]
                        /\ job' = [job EXCEPT !.pc = "connecting",
                                              !.attempt = 1, !.process = p]
    /\ UNCHANGED <<opening, hostVars, reload, peer, killed, released, exitSent>>

\* No port, no emulator, or superseded meanwhile.
LaunchDebugFails ==
    /\ job.pc = "port"
    /\ FailOpening

\* Mutant: a debug launch reuses the fixed port.
AnsweringOnFixedPort == {External} \cup {p \in {job.process} : p \in Procs /\ proc[p] = "alive"}

\* Who can answer: the launched process, or whoever holds the fixed port.
Answering == CASE job.kind = "attach" -> {External}
               [] job.kind = "debug"  -> {p \in {job.process} : proc[p] = "alive"}
               [] OTHER -> {p \in {job.process} : proc[p] = "alive"}
                             \cup (IF ForeignRun THEN {External} ELSE {})

\* The socket connects; negotiate captures its lease.
Connects ==
    /\ job.pc = "connecting" /\ link = "connecting" /\ ~Superseded
    /\ link' = "open"
    /\ peer' \in Answering
    /\ job' = [job EXCEPT !.pc = "negotiating", !.live = TRUE]
    /\ UNCHANGED <<session, opening, hostVars, reload, proc, killed, released,
                   exitSent>>

\* Connecting fails or was cancelled; a launch waits and tries again.
ConnectFails ==
    /\ job.pc = "connecting" /\ link # "open"
    /\ IF Superseded \/ job.attempt >= MaxAttempts
       THEN FailOpening
       ELSE /\ job' = [job EXCEPT !.pc = "retrying"]
            /\ link' = "none"
            /\ UNCHANGED <<session, opening, hostVars, reload, peer, proc, killed,
                           released, exitSent>>

\* Mutant: the attempts are counted the wrong way.
RetryForEver ==
    /\ job.pc = "retrying" /\ ~Superseded
    /\ job' = [job EXCEPT !.pc = "connecting", !.attempt = @ - 1]
    /\ link' = "connecting"
    /\ UNCHANGED <<session, opening, hostVars, reload, peer, proc, killed,
                   released, exitSent>>

Retry ==
    /\ job.pc = "retrying" /\ ~Superseded
    /\ job' = [job EXCEPT !.pc = "connecting", !.attempt = @ + 1]
    /\ link' = "connecting"
    /\ UNCHANGED <<session, opening, hostVars, reload, peer, proc, killed,
                   released, exitSent>>

RetrySuperseded ==
    /\ job.pc = "retrying" /\ Superseded
    /\ FailOpening

\* GET_SERVER_INFO and PING were answered on the leased connection.
Negotiated ==
    /\ job.pc = "negotiating" /\ job.live /\ ~Superseded
    /\ session' = [session EXCEPT !.info = TRUE]
    /\ job' = [job EXCEPT !.pc = IF job.kind = "run" THEN "loading" ELSE "attaching"]
    /\ UNCHANGED <<opening, hostVars, reload, link, peer, proc, killed, released,
                   exitSent>>

\* DEBUG_ATTACH true was answered.
DebuggerAttached ==
    /\ job.pc = "attaching" /\ job.live /\ ~Superseded
    /\ session' = [session EXCEPT !.attached = TRUE]
    /\ job' = [job EXCEPT !.pc = "loading"]
    /\ UNCHANGED <<opening, hostVars, reload, link, peer, proc, killed, released,
                   exitSent>>

\* The remaining commands were answered: Run Project has loaded its program and
\* runs, a debug session is paused.  The opening is published.
Publish ==
    /\ job.pc = "loading" /\ job.live /\ ~Superseded
    /\ \E debugger \in BOOLEAN :
         session' = IF job.kind = "run"
                    THEN [session EXCEPT !.state = "running", !.program = TRUE,
                                         !.attached = debugger]
                    ELSE [session EXCEPT !.state = "connected"]
    /\ opening' = FALSE
    /\ Finish(job.id, TRUE)
    /\ UNCHANGED <<requestId, queue, reload, link, peer, proc, killed, released,
                   exitSent>>

\* Any of those commands fails, or finds its lease inactive.
OpeningFails ==
    /\ job.pc \in {"negotiating", "attaching", "loading"}
    /\ FailOpening

-----------------------------------------------------------------------------
(* What happens between the awaits.                                        *)

\* The emulator closes the socket, or a request times out on it.
LinkLost ==
    /\ link = "open"
    /\ Unlink
    /\ session' = Dropped
    /\ job' = Forget(job)
    /\ UNCHANGED <<opening, hostVars, proc, killed, released, exitSent>>

\* A process exits; monitorProcess clears the session that still refers to it.
ProcessExits(p) ==
    /\ proc[p] = "alive"
    /\ proc' = [proc EXCEPT ![p] = "dead"]
    /\ IF session.process = p
       THEN DisconnectCurrent /\ job' = Forget(job)
       ELSE UNCHANGED <<session, reload, link, peer, job>>
    /\ UNCHANGED <<opening, hostVars, killed, released, exitSent>>

\* The execution controller publishes a run or a pause.
SetExecutionRunning ==
    /\ session.state \in Usable
    /\ \E s \in Usable : session' = [session EXCEPT !.state = s]
    /\ UNCHANGED <<opening, hostVars, job, reload, link, peer, proc, killed,
                   released, exitSent>>

\* reloadRunProgram and loadDebugProgram: lease first, record when loaded.  Their callers
\* have a usable session: the Run command asks for `running`, a debugger for its own lease.
ReloadBegins ==
    /\ reload = "idle"
    /\ session.state \in Usable /\ link = "open"
    /\ reload' = "live"
    /\ UNCHANGED <<session, opening, hostVars, job, link, peer, proc, killed,
                   released, exitSent>>

ReloadEnds ==
    /\ reload # "idle"
    /\ reload' = "idle"
    /\ \/ UNCHANGED <<session, job>>
       \/ /\ reload = "live"
          /\ session' = [session EXCEPT !.program = TRUE]
          /\ job' = [job EXCEPT !.sameProgram = FALSE]
    /\ UNCHANGED <<opening, hostVars, link, peer, proc, killed, released, exitSent>>

-----------------------------------------------------------------------------
JobStep == \/ Begin \/ EndStop
           \/ Detached \/ Paused \/ Saved \/ ExitAnswered \/ Waited
           \/ StartRun \/ StartDebug \/ LaunchDebug \/ LaunchDebugFails
           \/ Connects \/ ConnectFails \/ Retry \/ RetrySuperseded
           \/ Negotiated \/ DebuggerAttached \/ Publish \/ OpeningFails

Next ==
    \/ \E kind \in Kinds : Open(kind)
    \/ Stop \/ Shutdown \/ ShutdownAgain \/ Disconnect
    \/ Begin \/ EndStop
    \/ Detached \/ Paused \/ Saved \/ ExitAnswered \/ Waited
    \/ StartRun \/ StartDebug \/ LaunchDebug \/ LaunchDebugFails
    \/ Connects \/ ConnectFails \/ Retry \/ RetrySuperseded
    \/ Negotiated \/ DebuggerAttached \/ Publish \/ OpeningFails
    \/ LinkLost
    \/ \E p \in Procs : ProcessExits(p)
    \/ SetExecutionRunning
    \/ ReloadBegins \/ ReloadEnds

\* Every await of a transition settles: IPC requests and connection attempts
\* have timeouts, the wait for the exit is two seconds.  A killed process exits,
\* and so does, if it exits promptly, one that a stop waits for.
Exiting(p) == \/ p \in killed
              \/ PromptExit /\ job.pc = "waiting" /\ ~job.same /\ session.process = p
Fairness == /\ WF_vars(JobStep)
            /\ WF_vars(ShutdownAgain)
            /\ \A p \in Procs : WF_vars(Exiting(p) /\ ProcessExits(p))

Spec == Init /\ [][Next]_vars /\ Fairness

-----------------------------------------------------------------------------
(* Properties.                                                             *)

Alive == {p \in Procs : proc[p] = "alive"}

\* Outside an opening the published state is usable exactly when the socket is
\* open; during one it never is.  Eight places set _state, two of them from
\* events that arrive in the middle of a transition.
StateMatchesLink ==
    IF opening THEN session.state \notin Usable
               ELSE session.state \in Usable <=> link = "open"

\* A usable session is either owned, and then commands go to the very process
\* it launched, or borrowed without process (docs/architecture-owners.md:6:
\* "Owned Run/Debug versus borrowed attach; one connection identity").
OwnedOrBorrowed ==
    session.state \in Usable =>
        \/ /\ session.mode = "attach" /\ session.owner = "none"
           /\ session.process = None /\ peer = External
        \/ /\ session.mode \in {"run", "debug"} /\ session.owner = session.mode
           /\ session.process = peer

\* Ownership and process are given up together, whichever of cleanup, the
\* monitor and disconnectCurrent does it; so attach never drops a process.
OwnerlessMeansNoProcess == session.owner = "none" => session.process = None

\* A launched emulator that was neither killed nor detached from on purpose is
\* still the one the coordinator holds: no launch overwrites a live process.
NoProcessForgotten == Alive \ (killed \cup released) \subseteq {session.process}

\* What was learnt from a server is not kept past its connection.
ServerFactsAreCurrent == session.info \/ session.attached => link = "open"

\* What is published agrees with the connection at every await of a transition.
LinkFacts == StateMatchesLink /\ ServerFactsAreCurrent

\* A reload that finishes after its session is gone records no program, which
\* a later stop would save to disk.
ProgramBelongsToSession == session.program => session.mode # "none"

\* An external emulator is never told to exit (docs/emulator.md:28).
ExitOnlyOwned == exitSent \subseteq Procs

\* Every emulator is accounted for: the one a session uses is the one it owns or
\* has borrowed, and every one it launched is held until it is killed or released.
ProcessesAccounted ==
    /\ OwnedOrBorrowed /\ OwnerlessMeansNoProcess /\ NoProcessForgotten
    /\ ExitOnlyOwned /\ ProgramBelongsToSession

\* Concurrent stops share one transition (docs/commands.md:85), and the shared
\* one is forgotten exactly when it settles.
StopIsShared ==
    LET stops == {i \in 1..Len(queue) : queue[i].kind \in {"stop", "shutdown"}}
        running == job.pc # "idle" /\ job.kind \in {"stop", "shutdown"}
    IN /\ Cardinality(stops) + (IF running THEN 1 ELSE 0)
            = (IF stopInFlight = 0 THEN 0 ELSE 1)
       /\ running => job.id = stopInFlight

\* A stop that began on a live connection kills an emulator only after the disk
\* save succeeded, unless the extension is shutting down
\* (docs/commands.md:85: "A save failure rejects normal stop").
SavedBeforeKill ==
    [][job.pc = "waiting" /\ job.linked /\ killed' # killed =>
          job.saved \/ job.kind = "shutdown"]_vars

\* The latest request wins: a session is published only by the transition that
\* was submitted last, with nothing waiting behind it.
LatestWins ==
    [][session.state \notin Usable /\ session'.state \in Usable =>
          job.id = requestId /\ queue = <<>>]_vars

\* The coordinator's opening flag and the tail cannot get stuck: every
\* submitted transition runs or is rejected.
TransitionsSettle == queue # <<>> \/ opening ~> queue = <<>> /\ ~opening

\* Deactivation ends even when the stop it joined fails.
ShutdownEnds == shutdown # "no" ~> shutdown = "done"

TransitionsEnd == TransitionsSettle /\ ShutdownEnds

\* When shutdown() settles no owned emulator is left behind: "shutdown must
\* still release resources" (session-coordinator.ts:409), "extension
\* deactivation ... still tears down the owned emulator" (docs/commands.md:85).
ShutdownReleases ==
    [][shutdown # "done" /\ shutdown' = "done" =>
          Alive \subseteq killed \cup released]_vars

\* Nor does anything start afterwards: shutdown() is the last transition.
NothingAfterShutdown == shutdown = "done" => queue = <<>> /\ job.pc = "idle"
=============================================================================
