------------------------------ MODULE Execution ------------------------------
(***************************************************************************)
(* Execution control of a debug session:                                   *)
(* src/src/debug/session/execution-controller.ts, its poll loop            *)
(* stop-monitor.ts, and the requests and the stop handler of               *)
(* src/src/debug/adapter/v6-debug-adapter.ts that drive it.                *)
(*                                                                         *)
(* Nothing serializes the requests, polls and stop handlers: each is a     *)
(* task, and task[t].pc names the await it is at.  Control commands share  *)
(* one wire in the order they were sent, and the emulator carries out the  *)
(* one at its head; the other awaits (registers, breakpoints, loading) end *)
(* in any order.  The emulator numbers its stops; a stop record is the     *)
(* number and the cause of the last one.                                   *)
(***************************************************************************)
EXTENDS Integers, Sequences, FiniteSets

CONSTANTS MaxTasks,      \* bound: requests, polls and stop handlers at a time
          Kinds,         \* the requests the user makes
          Logpoints,     \* does the program run into logpoints?
          NoAnswer,
          MaxRequests,   \* bound: requests
          MaxStops,      \* bound: stops at breakpoints and logpoints
          MaxRefusals    \* bound: commands the emulator refuses

Tasks == 1..MaxTasks
Restarts == {"restart", "reset", "reload"}

ASSUME ExecutionAssumption ==
    /\ Kinds \subseteq {"continue", "pause", "step", "next", "detach"} \cup Restarts
    /\ Logpoints \in BOOLEAN
    /\ {MaxTasks, MaxRequests, MaxStops, MaxRefusals} \subseteq Nat

VARIABLES
    cpu, seq, why,   \* environment: the emulator, its last stop and the cause
    wire,            \* tasks whose command is sent and not answered, in order
    answer,          \* what the emulator answered to the head of the wire
    task,            \* the asynchronous functions under way
    timer,           \* the armed timer of the monitor's current revision
    state,           \* ExecutionController.state
    pendingPause, pendingStep,
    last,            \* lastStopSequence, -1 when undefined
    records,         \* stopRecordsSupported
    ui,              \* what VS Code shows, from the events it was sent
    live,            \* is the session current?
    requests, stops, refusals, \* counters of the bounds
    seen,            \* history: stop numbers given to onStop
    held             \* history: paused after the start, nothing asked since

emulator == <<cpu, seq, why, stops>>
flags == <<state, pendingPause, pendingStep, last>>
world == <<emulator, records, requests, refusals>>
rest == <<world, live, seen, held>>
vars == <<rest, wire, answer, task, timer, flags, ui>>

Causes == {"stop", "logpoint"}
Records == [seq : Nat \cup {-1}, why : Causes]
NoRecord == [seq |-> -1, why |-> "stop"]
Record == [seq |-> answer.seq, why |-> answer.why]

Commands == {"basing", "starting", "stopping", "aiming", "stepping", "stepped",
             "asking", "reading", "halting", "resetting", "restarting",
             "clearing", "rebasing", "resuming"}
Awaits == {"syncing", "locating", "inspecting", "preparing", "reloading",
           "refreshing", "cancelling", "leaving"}
Answers == [ok : BOOLEAN, cpu : {"running", "stopped"}, seq : Nat, why : Causes]
Idle == [pc |-> "idle", kind |-> "none", asks |-> FALSE, current |-> FALSE,
         resume |-> FALSE, record |-> NoRecord]

TypeOK ==
    /\ cpu \in {"running", "stopped"} /\ seq \in Nat /\ why \in Causes
    /\ wire \in Seq(Tasks)
    /\ answer \in Answers \cup {NoAnswer}
    /\ task \in [Tasks -> [pc : {"idle"} \cup Commands \cup Awaits,
                           kind : {"none", "begin", "poll", "continue", "pause",
                                   "step", "next", "detach"} \cup Restarts,
                           asks : BOOLEAN, current : BOOLEAN, resume : BOOLEAN,
                           record : Records]]
    /\ timer \in BOOLEAN
    /\ state \in {"running", "paused", "disconnected"}
    /\ pendingPause \in BOOLEAN /\ pendingStep \in BOOLEAN
    /\ last \in Nat \cup {-1}
    /\ records \in BOOLEAN /\ live \in BOOLEAN
    /\ ui \in {"running", "stopped"}
    /\ {requests, stops, refusals} \subseteq Nat
    /\ seen \subseteq Nat /\ held \in BOOLEAN

\* configurationDone: it runs the program, or reports the stop on entry.
Init ==
    /\ cpu \in {"running", "stopped"} /\ seq = 0 /\ why = "stop"
    /\ wire = <<>> /\ answer = NoAnswer /\ timer = FALSE
    /\ records \in BOOLEAN
    /\ \/ /\ ui = "running"
          /\ task = [t \in Tasks |->
                        IF t = 1 THEN [Idle EXCEPT !.kind = "begin", !.pc = "syncing"]
                                 ELSE Idle]
       \/ /\ ui = "stopped" /\ cpu = "stopped"
          /\ task = [u \in Tasks |-> Idle]
    /\ state = "paused" /\ pendingPause = FALSE /\ pendingStep = FALSE
    /\ last = -1 /\ live = TRUE
    /\ requests = 0 /\ stops = 0 /\ refusals = 0 /\ seen = {} /\ held = FALSE

-----------------------------------------------------------------------------
(* Tasks.                                                                  *)

\* Task t goes on as r, with the other tasks as in ts: the answer it waited
\* for is taken, and a command it goes on to wait for is sent.
Goes(ts, t, r) ==
    LET sent == task[t].pc \in Commands
        left == IF sent THEN Tail(wire) ELSE wire
    IN /\ task' = [ts EXCEPT ![t] = r]
       /\ wire' = IF r.pc \in Commands THEN Append(left, t) ELSE left
       /\ answer' = IF sent THEN NoAnswer ELSE answer
Becomes(t, r) == Goes(task, t, r)
At(t, pc) == [task[t] EXCEPT !.pc = pc]

\* The slot of a new task.
Free(t) == task[t].pc = "idle" /\ \A u \in 1..t-1 : task[u].pc # "idle"

\* Mutant: the revision is not advanced.
SameRevision == task
\* StopMonitor.stop(): no poll of an earlier start may go on.
NextRevision == [u \in Tasks |-> [task[u] EXCEPT !.current = FALSE]]

\* Task t is at await pc, and it is over: with a command, by its answer.
Answered(t, pc) == /\ task[t].pc = pc /\ wire # <<>> /\ Head(wire) = t
                   /\ answer # NoAnswer
Ends(t, pc) == task[t].pc = pc
\* The command was acknowledged, and assertCurrent() holds.
Acknowledged == live /\ answer.ok

\* An exception ends the task; next drops its flag, and a failed start of the
\* session ends that (cleanup).
Abort(t) ==
    LET over == task[t].kind = "begin" IN
    /\ IF over THEN Goes(NextRevision, t, Idle) ELSE Becomes(t, Idle)
    /\ pendingStep' = (pendingStep /\ task[t].kind # "next")
    /\ live' = (live /\ ~over)
    /\ timer' = (timer /\ ~over)
    /\ state' = IF over THEN "disconnected" ELSE state
    /\ UNCHANGED <<world, pendingPause, last, ui, seen, held>>

\* A command of t was refused, or its session is over.
Refused(t) ==
    /\ \E pc \in Commands \ {"asking", "reading", "resuming"} : Answered(t, pc)
    /\ ~Acknowledged
    /\ Abort(t)

\* The session was replaced during an await: assertCurrent() throws.
Stale(t) ==
    /\ task[t].pc \in {"syncing", "preparing", "reloading"}
    /\ ~live
    /\ Abort(t)

-----------------------------------------------------------------------------
(* run() and the stop handler.                                             *)

\* The flags are reset just before RUN is sent.
SendRun(t) == /\ Becomes(t, At(t, "starting"))
              /\ pendingPause' = FALSE /\ pendingStep' = FALSE

Synchronized(t) ==
    /\ Ends(t, "syncing") /\ live
    /\ IF records
       THEN Becomes(t, At(t, "basing")) /\ UNCHANGED <<pendingPause, pendingStep>>
       ELSE SendRun(t)
    /\ UNCHANGED <<rest, timer, state, last, ui>>

Based(t) ==
    /\ Answered(t, "basing") /\ Acknowledged
    /\ last' = answer.seq
    /\ SendRun(t)
    /\ UNCHANGED <<rest, timer, state, ui>>

\* RUN is acknowledged: VS Code is told, and the monitor started.
Runs(t) ==
    /\ Goes(NextRevision, t, Idle)
    /\ state' = "running" /\ timer' = TRUE
    /\ UNCHANGED <<rest, pendingPause, pendingStep, last>>
Started(t) == Answered(t, "starting") /\ Acknowledged /\ Runs(t) /\ ui' = "running"

\* Mutant: the sequence is not remembered.
StopsUnnumbered(ts, t, record) ==
    /\ Goes(ts, t, [At(t, "inspecting") EXCEPT !.record = record, !.current = FALSE])
    /\ state' = "paused"
    /\ UNCHANGED last
    /\ seen' = IF record = NoRecord THEN seen ELSE seen \cup {record.seq}
    /\ UNCHANGED <<world, pendingPause, pendingStep, live, held>>

\* hooks.stopped: onStop refreshes the registers and the breakpoints first.
Stops(ts, t, record) ==
    /\ Goes(ts, t, [At(t, "inspecting") EXCEPT !.record = record, !.current = FALSE])
    /\ state' = "paused"
    /\ last' = IF record = NoRecord THEN last ELSE record.seq
    /\ seen' = IF record = NoRecord THEN seen ELSE seen \cup {record.seq}
    /\ UNCHANGED <<world, pendingPause, pendingStep, live, held>>

\* emitStopped.  Without a record a pending step hides a pending pause.
Publish(t) ==
    /\ Becomes(t, Idle)
    /\ ui' = "stopped"
    /\ pendingStep' = FALSE
    /\ pendingPause' = IF task[t].record = NoRecord /\ pendingStep THEN pendingPause
                                                                  ELSE FALSE
    /\ UNCHANGED <<rest, timer, state, last>>

\* A logpoint writes its message and resumes, everything else is published.
Inspected(t) ==
    /\ Ends(t, "inspecting")
    /\ IF task[t].record.why # "logpoint" THEN Publish(t)
       ELSE IF live
       THEN /\ Becomes(t, At(t, "rebasing"))
            /\ UNCHANGED <<rest, timer, flags, ui>>
       ELSE Abort(t)

Rebased(t) ==
    /\ Answered(t, "rebasing") /\ Acknowledged
    /\ last' = answer.seq
    /\ Becomes(t, At(t, "resuming"))
    /\ UNCHANGED <<rest, timer, state, pendingPause, pendingStep, ui>>

\* resumeLogpoint: VS Code never saw this stop; it does if RUN is refused.
Resumed(t) ==
    /\ Answered(t, "resuming")
    /\ IF Acknowledged THEN Runs(t) /\ UNCHANGED ui
       ELSE IF live
       THEN /\ Becomes(t, Idle)
            /\ state' = "paused" /\ ui' = "stopped"
            /\ UNCHANGED <<rest, timer, pendingPause, pendingStep, last>>
       ELSE Abort(t)

-----------------------------------------------------------------------------
(* The stop monitor.                                                       *)

\* Mutant: the poll is not repeated.
PollOnce(t) ==
    /\ Becomes(t, Idle)
    /\ UNCHANGED <<rest, timer, flags, ui>>

\* schedule(): only for the current revision.
Schedule(t) ==
    /\ Becomes(t, Idle)
    /\ timer' = (timer \/ task[t].current)
    /\ UNCHANGED <<rest, flags, ui>>

Poll(t) ==
    /\ timer /\ Free(t)
    /\ timer' = FALSE
    /\ Becomes(t, [Idle EXCEPT !.kind = "poll", !.pc = "asking", !.current = TRUE])
    /\ UNCHANGED <<rest, flags, ui>>

\* The poll of an old revision is dropped at its next answer.
Dropped(t) ==
    /\ Answered(t, "asking") \/ Answered(t, "reading")
    /\ ~task[t].current
    /\ Schedule(t)

\* Mutant: a failed poll is tried again.
PollAgain(t) == Schedule(t)

\* An exception ends the polling, and nobody is told: of a refused record, or
\* of a session that is over (if not in this poll, in the next one).
Silenced(t) ==
    /\ Goes(NextRevision, t, Idle)
    /\ timer' = FALSE
    /\ UNCHANGED <<rest, flags, ui>>

\* IS_RUNNING answered.
Polled(t) ==
    /\ Answered(t, "asking") /\ task[t].current
    /\ IF ~live THEN Silenced(t)
       ELSE IF ~answer.ok \/ answer.cpu = "running" THEN Schedule(t)
       ELSE IF records
       THEN /\ Becomes(t, At(t, "reading"))
            /\ UNCHANGED <<rest, timer, flags, ui>>
       ELSE Stops(NextRevision, t, NoRecord) /\ timer' = FALSE /\ UNCHANGED ui

\* GET_STOP_RECORD answered.  An old record is a stop only if a pause waits
\* for it; a refusal ends the polling.
Read(t) ==
    /\ Answered(t, "reading") /\ task[t].current
    /\ IF ~Acknowledged THEN Silenced(t)
       ELSE IF answer.seq = last /\ ~pendingPause THEN Schedule(t)
       ELSE /\ Stops(NextRevision, t, IF answer.seq = last THEN NoRecord ELSE Record)
            /\ timer' = FALSE /\ UNCHANGED ui

-----------------------------------------------------------------------------
(* Requests.                                                               *)

Asked == \E t \in Tasks : task[t].asks

\* VS Code offers a request when it shows the state for it, and the user
\* waits for its response before making another.
Request(t, kind, asks, pc) ==
    /\ kind \in Kinds /\ requests < MaxRequests /\ live /\ ~Asked
    /\ kind \in {"continue", "step", "next"} => ui = "stopped"
    /\ kind = "pause" => ui = "running"
    /\ Free(t)
    /\ requests' = requests + 1
    /\ Goes(IF kind \in Restarts \cup {"detach"} THEN NextRevision ELSE task, t,
            [Idle EXCEPT !.kind = kind, !.asks = asks, !.pc = pc,
                         !.resume = kind \in Restarts /\ state = "running"])
    /\ held' = FALSE
    /\ UNCHANGED <<emulator, records, refusals, state, pendingPause, last, live, seen>>

Continue(t) ==
    /\ Request(t, "continue", TRUE, "syncing")
    /\ UNCHANGED <<pendingStep, timer, ui>>

Pause(t) ==
    /\ Request(t, "pause", TRUE, "stopping")
    /\ UNCHANGED <<pendingStep, timer, ui>>

\* STOP is acknowledged.
Paused(t) ==
    /\ Answered(t, "stopping") /\ Acknowledged
    /\ Goes(NextRevision, t, Idle)
    /\ pendingPause' = TRUE /\ timer' = TRUE
    /\ held' = \A u \in Tasks : task[u].kind # "begin"
    /\ UNCHANGED <<world, state, pendingStep, last, ui, live, seen>>

\* stepIn responds first, and VS Code shows a running program.
Step(t) ==
    /\ Request(t, "step", FALSE, IF records THEN "aiming" ELSE "stepping")
    /\ pendingStep' = TRUE /\ ui' = "running"
    /\ UNCHANGED timer

Aimed(t) ==
    /\ Answered(t, "aiming") /\ Acknowledged
    /\ last' = answer.seq
    /\ Becomes(t, At(t, "stepping"))
    /\ UNCHANGED <<rest, timer, state, pendingPause, pendingStep, ui>>

\* EXECUTE_INSTR is acknowledged; its record is read if there are any.
Stepped(t) ==
    /\ Answered(t, "stepping") /\ Acknowledged
    /\ ui' = "running"
    /\ IF records
       THEN /\ Becomes(t, At(t, "stepped"))
            /\ state' = "paused"
            /\ UNCHANGED <<rest, pendingPause, pendingStep, last>>
       ELSE Stops(task, t, NoRecord)
    /\ UNCHANGED timer

StepRead(t) ==
    /\ Answered(t, "stepped") /\ Acknowledged
    /\ IF answer.seq # last THEN Stops(task, t, Record)
       ELSE /\ Becomes(t, Idle)
            /\ UNCHANGED <<rest, flags>>
    /\ UNCHANGED <<timer, ui>>

NextLine(t) ==
    /\ Request(t, "next", TRUE, "locating")
    /\ pendingStep' = TRUE
    /\ UNCHANGED <<timer, ui>>

\* The address to run to is known and has its temporary breakpoint, or there
\* is none and one instruction is executed; both respond first.
Located(t) ==
    /\ Ends(t, "locating")
    /\ \/ /\ live
          /\ \E pc \in {"syncing", IF records THEN "aiming" ELSE "stepping"} :
                Becomes(t, [At(t, pc) EXCEPT !.asks = FALSE])
          /\ ui' = "running"
          /\ UNCHANGED <<rest, timer, flags>>
       \/ Abort(t)

\* restart, reset and reload: the poll ends, and steps are cancelled.
Restart(t, kind) ==
    /\ kind \in Restarts
    /\ Request(t, kind, kind = "restart", "preparing")
    /\ timer' = FALSE
    /\ UNCHANGED <<pendingStep, ui>>

Prepared(t) ==
    /\ Ends(t, "preparing") /\ live
    /\ Becomes(t, At(t, IF task[t].kind = "restart" THEN "restarting" ELSE "halting"))
    /\ pendingPause' = FALSE /\ pendingStep' = FALSE
    /\ UNCHANGED <<rest, timer, state, last, ui>>

PausedAt(t, pc) ==
    /\ Becomes(t, At(t, pc))
    /\ state' = "paused"
    /\ UNCHANGED <<rest, timer, pendingPause, pendingStep, last, ui>>

\* The program starts over: it runs on if it ran, or was reloaded.
RunsOn(t) == PausedAt(t, IF task[t].resume \/ task[t].kind = "reload" THEN "syncing"
                                                                 ELSE "refreshing")

Halted(t) == Answered(t, "halting") /\ Acknowledged /\ PausedAt(t, "resetting")
Reset(t) ==
    /\ Answered(t, "resetting") /\ Acknowledged
    /\ IF task[t].kind = "reset" THEN RunsOn(t)
       ELSE /\ Becomes(t, At(t, "restarting"))
            /\ UNCHANGED <<rest, timer, flags, ui>>
Restarted(t) ==
    /\ Answered(t, "restarting") /\ Acknowledged
    /\ IF task[t].kind = "restart" THEN RunsOn(t)
       ELSE /\ Becomes(t, At(t, "reloading"))
            /\ UNCHANGED <<rest, timer, flags, ui>>
Reloaded(t) ==
    /\ Ends(t, "reloading")
    /\ \/ /\ live
          /\ Becomes(t, At(t, "clearing"))
          /\ UNCHANGED <<rest, timer, flags, ui>>
       \/ Abort(t)
Cleared(t) == Answered(t, "clearing") /\ Acknowledged /\ RunsOn(t)
Refreshed(t) ==
    /\ Ends(t, "refreshing")
    /\ Becomes(t, Idle)
    /\ UNCHANGED <<rest, timer, flags, ui>>

\* disconnect from an emulator that keeps running: cleanup()
Detach(t) ==
    /\ Request(t, "detach", TRUE, "cancelling")
    /\ timer' = FALSE
    /\ UNCHANGED <<pendingStep, ui>>

Cancelled(t) ==
    /\ Ends(t, "cancelling")
    /\ Becomes(t, At(t, "leaving"))
    /\ state' = "disconnected"
    /\ UNCHANGED <<rest, timer, pendingPause, pendingStep, last, ui>>

\* Mutant: the sequence is left undefined.
LeftUndefined(t) ==
    /\ Ends(t, "leaving")
    /\ Becomes(t, Idle)
    /\ live' = FALSE /\ last' = NoAnswer
    /\ UNCHANGED <<world, timer, state, pendingPause, pendingStep, ui, seen, held>>

\* The breakpoints are deleted and the client is given up; with it goes
\* every task that waits for an answer.
Left(t) ==
    /\ Ends(t, "leaving")
    /\ Becomes(t, Idle)
    /\ live' = FALSE /\ last' = -1
    /\ UNCHANGED <<world, timer, state, pendingPause, pendingStep, ui, seen, held>>

-----------------------------------------------------------------------------
(* The emulator and the session.                                           *)

Halts(cause) == /\ cpu' = "stopped" /\ why' = cause /\ seq' = seq + 1

\* The command at the head of the wire is carried out, or refused.
Obeys ==
    LET pc == task[Head(wire)].pc IN
    CASE pc \in {"starting", "resuming"} -> cpu' = "running" /\ UNCHANGED <<seq, why>>
      [] pc \in {"stopping", "halting"} /\ cpu = "running" -> Halts("stop")
      [] pc = "stepping" -> Halts("stop")
      [] OTHER -> UNCHANGED <<cpu, seq, why>>

Execute ==
    /\ wire # <<>> /\ answer = NoAnswer
    /\ \/ /\ live /\ Obeys
          /\ answer' = [ok |-> TRUE, cpu |-> cpu', seq |-> seq', why |-> why']
          /\ UNCHANGED refusals
       \/ /\ live => refusals < MaxRefusals
          /\ answer' = [ok |-> FALSE, cpu |-> cpu, seq |-> seq, why |-> why]
          /\ refusals' = IF live THEN refusals + 1 ELSE refusals
          /\ UNCHANGED <<cpu, seq, why>>
    /\ UNCHANGED <<stops, records, requests, wire, task, timer, flags, ui, live, seen, held>>

\* The program reaches a breakpoint, watchpoint or fault, or a logpoint.
ProgramStops(cause) ==
    /\ cpu = "running" /\ stops < MaxStops
    /\ cause = "logpoint" => Logpoints
    /\ Halts(cause)
    /\ stops' = stops + 1
    /\ UNCHANGED <<records, requests, refusals, wire, answer, task, timer, flags, ui, live, seen, held>>

\* The session ends and the adapter emits 'terminated'.
SessionEnds ==
    /\ live
    /\ live' = FALSE
    /\ task' = NextRevision /\ timer' = FALSE
    /\ state' = "disconnected"
    /\ UNCHANGED <<world, wire, answer, pendingPause, pendingStep, last, ui, seen, held>>

Resume(t) ==
    \/ Refused(t) \/ Stale(t)
    \/ Synchronized(t) \/ Based(t) \/ Started(t)
    \/ Inspected(t) \/ Rebased(t) \/ Resumed(t)
    \/ Dropped(t) \/ Polled(t) \/ Read(t)
    \/ Paused(t) \/ Aimed(t) \/ Stepped(t) \/ StepRead(t) \/ Located(t)
    \/ Prepared(t) \/ Halted(t) \/ Reset(t) \/ Restarted(t) \/ Reloaded(t)
    \/ Cleared(t) \/ Refreshed(t) \/ Cancelled(t) \/ Left(t)

Next ==
    \/ \E t \in Tasks : Continue(t) \/ Pause(t) \/ Step(t) \/ NextLine(t) \/ Detach(t)
    \/ \E t \in Tasks, kind \in Restarts : Restart(t, kind)
    \/ \E t \in Tasks : Poll(t) \/ Resume(t)
    \/ Execute \/ SessionEnds
    \/ \E cause \in Causes : ProgramStops(cause)

\* Timers fire, the emulator answers or the request times out, and every await
\* of the adapter ends.
Fairness == /\ WF_vars(Execute)
            /\ WF_vars(\E t \in Tasks : Poll(t))
            /\ \A t \in Tasks : WF_vars(Resume(t))

Spec == Init /\ [][Next]_vars /\ Fairness

-----------------------------------------------------------------------------
(* Properties.                                                             *)

\* Each stop is handled once, whoever finds it: the monitor, a step, or a
\* second monitor started by a pause.
HandledOnce ==
    [][\A t \in Tasks : task[t].pc # "inspecting" /\ task'[t].pc = "inspecting" =>
          \/ task'[t].record = NoRecord
          \/ task'[t].record.seq \notin seen]_vars

\* One poll loop at a time, whichever of run, pause and step started it last: a
\* poll under way when it was stopped does not arm the timer of the next one.
NonOverlapping ==
    /\ TypeOK
    /\ Cardinality({t \in Tasks : task[t].current}) + (IF timer THEN 1 ELSE 0) <= 1

\* What a session leaves under way may arm the poll timer again while cleanup()
\* waits, but the polling ends.
PollingEnds == ~live ~> [](~timer /\ \A t \in Tasks : ~task[t].current)

\* "Serialize pause/continue/step transitions": once a pause is acknowledged
\* nothing runs the program until the user asks for something.
PauseHolds ==
    [][held /\ cpu = "stopped" => cpu' = "stopped"]_vars

\* Every stop of a program the controller runs is found, unless a command was
\* refused.
StopsAreFound ==
    live /\ state = "running" /\ cpu = "stopped" ~>
        ~live \/ state # "running" \/ cpu = "running" \/ refusals > 0
=============================================================================
