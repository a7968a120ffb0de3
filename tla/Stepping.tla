-------------------------------- MODULE Stepping --------------------------------
(***************************************************************************)
(* Stepping in the debug adapter: onNext, onStepIn, onStepOut, the source    *)
(* steps built on SourceStepService and LogicalLocationIndex, the temporary  *)
(* breakpoints they acquire, and the part of onStop that carries a source     *)
(* step on.  Requests, stop handlers and the reset command are tasks that     *)
(* interleave at their awaits.                                              *)
(*                                                                         *)
(* The program is a set of addresses; some begin a row of the line table.     *)
(* Polling and stop records are those of Execution, reduced here to "a stop   *)
(* is found"; the breakpoints' bookkeeping is that of BreakpointCoordinator,  *)
(* whose queue makes each acquire and release one step.                     *)
(***************************************************************************)
EXTENDS Integers, FiniteSets, FiniteSetsExt

CONSTANTS None,
          Size,             \* addresses are 1..Size
          Programs,         \* the programs that are debugged
          MaxInstructions, MaxCandidates,  \* limits of a source step
          MaxTasks,         \* bound: tasks at a time
          MaxRequests,      \* bound: requests and commands of the user
          MaxFailures       \* bound: refused or failed commands

Addr == 1..Size
Tasks == 1..MaxTasks

ASSUME SteppingAssumption ==
    /\ Size \in Nat \ {0} /\ MaxTasks \in Nat \ {0} /\ MaxInstructions \in Nat
    /\ \A p \in Programs :
          /\ \A a \in Addr : p.row[a] = None \/ (p.row[a].loc \in Nat /\ p.row[a].depth \in Nat)
          /\ p.succ \in [Addr -> SUBSET Addr] /\ \A a \in Addr : p.succ[a] # {}
          /\ p.user \subseteq Addr /\ p.skip \subseteq Nat
          /\ p.back = None \/ p.back \in Addr
          /\ p.after \in [Addr -> Addr]

VARIABLES
    prog,        \* the program: rows, filtered sources, successors, user breakpoints, caller
    records,     \* stopRecordsSupported
    pc, cpu,     \* where the program is, "running" or "stopped"
    cause,       \* why it stopped last
    temps,       \* temporaries the emulator holds (autoDelete)
    refs,        \* StepBreakpointStore: references of each address
    op,          \* SourceStepService.operation
    late,        \* the step has taken more than maxElapsedMs
    addresses,   \* sourceStepAddresses
    over,        \* pendingStepOverAddr
    pendingPause, pendingStep,
    state,       \* ExecutionController.state
    polling,     \* the stop monitor is active
    handled,     \* lastStopSequence is that of the last stop
    task,        \* the asynchronous functions under way
    ui,          \* what VS Code shows
    requests, failures,  \* counters of the bounds
    crossed,     \* history: the program was let go before a pause or reset was over
    unheard      \* history: the stop at a user breakpoint that was not reported yet

emulator == <<pc, cpu, cause, temps>>
steps == <<refs, op, late, addresses, over>>
flags == <<pendingPause, pendingStep, state, polling, handled>>
fixed == <<prog, records, crossed>>
steppingVars == <<fixed, emulator, steps, flags, task, ui, requests, failures, unheard>>

Awaits == {"idle", "acquiring", "syncing", "starting", "stepping", "inspecting",
           "deciding", "halting", "resetting"}
Idle == [at |-> "idle", todo |-> {}, why |-> "none", resume |-> FALSE]
At(await) == [Idle EXCEPT !.at = await]
Free(t) == task[t].at = "idle" /\ \A u \in 1..t-1 : task[u].at # "idle"
Becomes(t, r) == task' = [task EXCEPT ![t] = r]

SteppingTypeOK ==
    /\ prog \in Programs /\ records \in BOOLEAN
    /\ pc \in Addr /\ cpu \in {"running", "stopped"}
    /\ cause \in {"user", "temporary", "step", "pause", "watchpoint"}
    /\ temps \subseteq Addr /\ addresses \subseteq Addr /\ refs \in [Addr -> Nat]
    /\ op = None \/ (op.kind \in {"into", "over", "out"} /\ op.count \in 0..MaxInstructions)
    /\ over \in Addr \cup {None}
    /\ {pendingPause, pendingStep, polling, handled, unheard, crossed, late} \subseteq BOOLEAN
    /\ state \in {"running", "paused"}
    /\ \A t \in Tasks : task[t].at \in Awaits /\ task[t].todo \subseteq Addr
    /\ ui \in {"running", "stopped"}
----------------------------------------------------------------------------
(***************************************************************************)
(* LogicalLocationIndex: the statement of a row is every row of its location, *)
(* and the next ones are those that begin after its last address.           *)
(***************************************************************************)
Statement(a) == {b \in Addr : prog.row[b] = prog.row[a]}
Later(a) == {b \in Addr : /\ prog.row[b] # None /\ prog.row[b] # prog.row[a]
                          /\ b > Max(Statement(a))}

\* Step Over runs to the first of them that is not filtered,
OverCandidates(a) ==
    LET wanted == {b \in Later(a) : prog.row[b].loc \notin prog.skip}
    IN  IF wanted = {} THEN {} ELSE Statement(Min(wanted))
\* Step Out of an inline frame to all of them outside of it,
OutCandidates(a) ==
    UNION {Statement(b) : b \in {c \in Later(a) : prog.row[c].depth < prog.row[a].depth}}
\* and Step Into executes instruction after instruction.
Candidates(kind, a) ==
    CASE kind = "into" -> {} [] kind = "over" -> OverCandidates(a) [] kind = "out" -> OutCandidates(a)

(***************************************************************************)
(* StepBreakpointStore, through the coordinator's queue.                    *)
(***************************************************************************)
Acquire(a) ==
    /\ refs' = [refs EXCEPT ![a] = @ + 1]
    /\ temps' = IF refs[a] = 0 /\ a \notin prog.user THEN temps \cup {a} ELSE temps

Release(S) ==
    /\ refs' = [a \in Addr |-> IF a \in S /\ refs[a] > 0 THEN refs[a] - 1 ELSE refs[a]]
    /\ temps' = temps \ {a \in S : refs[a] = 1 /\ a \notin prog.user}

(***************************************************************************)
(* SourceStepService.                                                       *)
(***************************************************************************)
Begin(kind) == [kind |-> kind, loc |-> prog.row[pc].loc, depth |-> prog.row[pc].depth, count |-> 0]

\* The physical depth is passed as 0 wherever the program is.
Completes(here) ==
    LET elsewhere == here.loc # op.loc \/ here.depth # op.depth
    IN  CASE op.kind = "into" -> elsewhere
          [] op.kind = "over" -> here.depth < op.depth \/ (here.depth = op.depth /\ elsewhere)
          [] op.kind = "out" -> here.depth < op.depth

\* observe() at a row that is not filtered, tick() elsewhere.
Observed == prog.row[pc] # None /\ prog.row[pc].loc \notin prog.skip
Counted == op.count + (IF Observed /\ addresses # {} THEN 0 ELSE 1)
StepIsOver == Counted > MaxInstructions \/ late \/ (Observed /\ Completes(prog.row[pc]))

\* Mutant: a step that ends keeps its addresses.
EndKeeps == op' = None /\ UNCHANGED <<addresses, refs, temps, late, over>>
\* finish() and cancel() release through the adapter's hook.
EndStep == op' = None /\ addresses' = {} /\ Release(addresses) /\ UNCHANGED <<late, over>>
Cancel == IF op # None THEN EndStep ELSE UNCHANGED <<steps, temps>>
----------------------------------------------------------------------------
(***************************************************************************)
(* run() and singleStep().                                                  *)
(***************************************************************************)
\* synchronize and baseline are over.
Synced(t) ==
    /\ task[t].at = "syncing" /\ Becomes(t, [task[t] EXCEPT !.at = "starting"])
    /\ pendingPause' = FALSE /\ pendingStep' = FALSE /\ handled' = TRUE
    /\ UNCHANGED <<fixed, emulator, steps, state, polling, ui, requests, failures, unheard>>

\* Mutant: the monitor is not started.
StartUnpolled(t) ==
    /\ task[t].at = "starting" /\ Becomes(t, Idle)
    /\ cpu' = "running" /\ state' = "running" /\ ui' = "running"
    /\ UNCHANGED <<fixed, pc, cause, temps, steps, pendingPause, pendingStep, polling, handled, requests, failures, unheard>>

\* RUN is answered.
Start(t) ==
    /\ task[t].at = "starting" /\ Becomes(t, Idle)
    /\ cpu' = "running" /\ state' = "running" /\ polling' = TRUE /\ ui' = "running"
    /\ UNCHANGED <<fixed, pc, cause, temps, steps, pendingPause, pendingStep, handled, requests, failures, unheard>>

\* EXECUTE_INSTR; its stop is handled by the same task.
ExecuteOne(t) ==
    /\ task[t].at = "stepping"
    /\ \E a \in prog.succ[pc] : pc' = a
    /\ cpu' = "stopped" /\ cause' = "step" /\ state' = "paused" /\ handled' = TRUE /\ ui' = "running"
    /\ Becomes(t, [Idle EXCEPT !.at = "inspecting", !.why = IF records THEN "step" ELSE "none"])
    /\ UNCHANGED <<fixed, temps, steps, pendingPause, pendingStep, polling, requests, failures, unheard>>

\* Where a step goes on once it may: to its candidates, or by one instruction.
Onward == IF addresses = {} THEN At("stepping") ELSE At("syncing")

\* A command is refused or times out and the exception ends the task.
Fails(t) ==
    /\ task[t].at \in {"acquiring", "syncing", "starting", "stepping"}
    /\ failures < MaxFailures /\ failures' = failures + 1
    /\ pendingStep' = (pendingStep /\ task[t].why # "next")
    /\ Becomes(t, Idle)
    /\ UNCHANGED <<fixed, emulator, steps, pendingPause, state, polling, handled, ui, requests, unheard>>
----------------------------------------------------------------------------
(***************************************************************************)
(* Requests.                                                                *)
(***************************************************************************)
Request(t) == Free(t) /\ requests < MaxRequests /\ requests' = requests + 1
\* VS Code offers steps at a stop, and waits for the response to one.
Offered(t) ==
    /\ Request(t) /\ ui = "stopped"
    /\ \A u \in Tasks : task[u].at \in {"idle", "halting", "resetting"}
    /\ crossed' = (crossed \/ pendingPause \/ polling \/ \E u \in Tasks : task[u].at # "idle")

\* startSourceStep and startInlineStepOut: the references of a step that failed
\* before are dropped with its addresses.
SourceStep(t, kind) ==
    /\ Offered(t) /\ prog.row[pc] # None
    /\ kind = "out" => prog.row[pc].depth > 0
    /\ addresses' = {} /\ late' = FALSE
    /\ IF Cardinality(Candidates(kind, pc)) > MaxCandidates
       THEN op' = None /\ UNCHANGED task
       ELSE /\ op' = Begin(kind)
            /\ Becomes(t, [At("acquiring") EXCEPT !.todo = Candidates(kind, pc), !.why = kind])
    /\ UNCHANGED <<prog, records, emulator, refs, over, flags, ui, failures, unheard>>

\* Where there is no row under the program, or a single instruction is asked for.
InstructionStep(t) ==
    /\ Offered(t)
    /\ \/ /\ Becomes(t, At("stepping"))
          /\ ui' = "running"
       \/ /\ Becomes(t, [At("acquiring") EXCEPT !.todo = {prog.after[pc]}, !.why = "next"])
          /\ UNCHANGED ui
    /\ pendingStep' = TRUE
    /\ UNCHANGED <<prog, records, emulator, steps, pendingPause, state, polling, handled, failures, unheard>>

\* onStepOut to a verified caller.
StepOut(t) ==
    /\ Offered(t) /\ prog.back # None
    /\ Cancel
    /\ Becomes(t, [At("acquiring") EXCEPT !.todo = {prog.back}, !.why = "return"])
    /\ UNCHANGED <<prog, records, pc, cpu, cause, flags, ui, failures, unheard>>

\* One temporary after the other; the answer to the last lets the program go.
Acquired(t) ==
    LET r == task[t]
        a == Min(r.todo)
    IN  /\ r.at = "acquiring" /\ r.todo # {}
        /\ Acquire(a)
        /\ addresses' = CASE r.why = "next" -> addresses
                          [] r.why = "return" -> {a}
                          [] OTHER -> addresses \cup {a}
        /\ over' = IF r.why = "next" THEN a ELSE over
        /\ Becomes(t, [r EXCEPT !.todo = @ \ {a}])
        /\ UNCHANGED <<fixed, pc, cpu, cause, op, late, flags, ui, requests, failures, unheard>>

\* The response is sent before the program runs.
Responds(t) ==
    /\ task[t].at = "acquiring" /\ task[t].todo = {}
    /\ Becomes(t, IF task[t].why = "next" THEN [task[t] EXCEPT !.at = "syncing"] ELSE Onward)
    /\ ui' = "running" /\ pendingStep' = TRUE
    /\ UNCHANGED <<fixed, emulator, steps, pendingPause, state, polling, handled, requests, failures, unheard>>

\* A refused temporary: an error, and a source step is cancelled.
Rejected(t) ==
    /\ task[t].at = "acquiring" /\ task[t].todo # {}
    /\ failures < MaxFailures /\ failures' = failures + 1
    /\ IF task[t].why \in {"next", "return"} THEN UNCHANGED <<steps, temps>> ELSE Cancel
    /\ pendingStep' = (pendingStep /\ task[t].why # "next")
    /\ Becomes(t, Idle)
    /\ UNCHANGED <<fixed, pc, cpu, cause, pendingPause, state, polling, handled, ui, requests, unheard>>

Continue(t) ==
    /\ Offered(t) /\ Cancel
    /\ Becomes(t, At("syncing"))
    /\ UNCHANGED <<prog, records, pc, cpu, cause, flags, ui, failures, unheard>>

\* onPause: STOP follows the cancellation.
Pause(t) ==
    /\ Request(t) /\ ui = "running" /\ Cancel
    /\ Becomes(t, At("halting"))
    /\ UNCHANGED <<fixed, pc, cpu, cause, flags, ui, failures, unheard>>

\* The program is stopped, and the monitor finds the stop.
Halted(t) ==
    /\ task[t].at = "halting" /\ Becomes(t, Idle)
    /\ cpu' = "stopped" /\ cause' = IF cpu = "running" THEN "pause" ELSE cause
    /\ pendingPause' = TRUE /\ polling' = TRUE
    /\ handled' = (handled /\ cpu = "stopped")
    /\ UNCHANGED <<fixed, pc, temps, steps, pendingStep, state, ui, requests, failures, unheard>>

\* The Reset command, at any time: prepare() releases every temporary.
Reset(t) ==
    /\ Request(t)
    /\ polling' = FALSE /\ pendingPause' = FALSE /\ pendingStep' = FALSE
    /\ op' = None /\ addresses' = {} /\ over' = None
    /\ Release(addresses \cup (IF over = None THEN {} ELSE {over}))
    /\ Becomes(t, [At("resetting") EXCEPT !.resume = state = "running"])
    /\ UNCHANGED <<fixed, late, pc, cpu, cause, state, handled, ui, failures, unheard>>

\* STOP and RESET; the program runs on if it ran before.
ResetDone(t) ==
    /\ task[t].at = "resetting"
    /\ cpu' = "stopped" /\ pc' = 1 /\ cause' = "pause" /\ unheard' = FALSE
    /\ state' = "paused" /\ handled' = (handled /\ cpu = "stopped")
    /\ Becomes(t, IF task[t].resume THEN [task[t] EXCEPT !.at = "syncing"] ELSE Idle)
    /\ UNCHANGED <<fixed, temps, steps, pendingPause, pendingStep, polling, ui, requests, failures>>
----------------------------------------------------------------------------
(***************************************************************************)
(* Stops.                                                                   *)
(***************************************************************************)
\* The program goes on to its next address, where a breakpoint may stop it; a
\* temporary deletes itself.
Advance ==
    /\ cpu = "running"
    /\ \E a \in prog.succ[pc] :
          /\ pc' = a
          /\ IF a \in temps \cup prog.user
             THEN cpu' = "stopped" /\ cause' = IF a \in prog.user THEN "user" ELSE "temporary"
             ELSE UNCHANGED <<cpu, cause>>
          /\ temps' = temps \ {a}
    /\ unheard' = (cause' = "user" /\ cpu' = "stopped")
    /\ handled' = (handled /\ cpu' = "running")
    /\ UNCHANGED <<fixed, steps, pendingPause, pendingStep, state, polling, task, ui, requests, failures>>

\* Date.now() passes the limit of a step, whatever it is.
TimePasses ==
    /\ op # None /\ ~late /\ late' = TRUE
    /\ UNCHANGED <<fixed, emulator, refs, op, addresses, over, flags, task, ui, requests, failures, unheard>>

Watchpoint ==
    /\ cpu = "running" /\ requests < MaxRequests /\ requests' = requests + 1
    /\ cpu' = "stopped" /\ cause' = "watchpoint" /\ handled' = FALSE
    /\ UNCHANGED <<fixed, pc, temps, steps, pendingPause, pendingStep, state, polling, task, ui, failures, unheard>>

\* The monitor finds the stop and calls onStop: with its record, or without one
\* when there are no records or it answers a pause of a stop that was handled.
StopFound(t) ==
    /\ polling /\ cpu = "stopped" /\ Free(t)
    /\ records /\ handled => pendingPause
    /\ polling' = FALSE /\ state' = "paused" /\ handled' = TRUE
    /\ Becomes(t, [At("inspecting") EXCEPT !.why = IF records /\ ~handled THEN cause ELSE "none"])
    /\ UNCHANGED <<fixed, emulator, steps, pendingPause, pendingStep, ui, requests, failures, unheard>>

\* The registers are there: what a finished step left is released.
Inspected(t) ==
    LET why == task[t].why
        left == IF op = None THEN addresses ELSE {}
        reached == over # None /\ pc = over /\ why \in {"none", "user", "temporary"}
    IN  /\ task[t].at = "inspecting" /\ Becomes(t, [task[t] EXCEPT !.at = "deciding"])
        /\ addresses' = addresses \ left
        /\ over' = IF reached THEN None ELSE over
        /\ Release(left \cup (IF reached THEN {over} ELSE {}))
        /\ UNCHANGED <<fixed, pc, cpu, cause, op, late, flags, ui, requests, failures, unheard>>

\* emitStopped; a record clears both flags, otherwise a pending step hides a pause.
Report(t) ==
    /\ Becomes(t, Idle) /\ ui' = "stopped" /\ unheard' = FALSE
    /\ pendingStep' = FALSE
    /\ pendingPause' = (pendingPause /\ task[t].why = "none" /\ pendingStep)

\* Mutant: a breakpoint of the user is not looked for while a step is active.
ForeignCauses(why) == why \in {"watchpoint", "pause"}
\* Causes of a stop that a source step does not continue from.
HigherPriority(why) == why \in {"user", "watchpoint", "pause"}

\* The breakpoints are synchronized: an active source step goes on, or ends.
Decided(t) ==
    LET why == task[t].why
    IN  /\ task[t].at = "deciding"
        /\ IF pendingPause \/ HigherPriority(why) \/ op = None
           THEN (IF HigherPriority(why) THEN Cancel ELSE UNCHANGED <<steps, temps>>) /\ Report(t)
           ELSE IF StepIsOver THEN EndStep /\ Report(t)
           ELSE /\ op' = [op EXCEPT !.count = Counted]
                /\ UNCHANGED <<refs, temps, late, addresses, over>>
                /\ Becomes(t, Onward)
                /\ UNCHANGED <<pendingPause, pendingStep, ui, unheard>>
        /\ UNCHANGED <<fixed, pc, cpu, cause, state, polling, handled, requests, failures>>

SteppingInit ==
    /\ prog \in Programs /\ records \in BOOLEAN
    /\ pc = 1 /\ cpu = "stopped" /\ cause = "pause" /\ temps = {}
    /\ refs = [a \in Addr |-> 0] /\ op = None /\ late = FALSE /\ addresses = {} /\ over = None
    /\ pendingPause = FALSE /\ pendingStep = FALSE /\ polling = FALSE
    /\ state = "paused" /\ handled = TRUE
    /\ task = [t \in Tasks |-> Idle] /\ ui = "stopped"
    /\ requests = 0 /\ failures = 0 /\ unheard = FALSE /\ crossed = FALSE

Goes(t) == \/ Synced(t) \/ Start(t) \/ ExecuteOne(t) \/ Acquired(t) \/ Responds(t)
           \/ Halted(t) \/ ResetDone(t) \/ Inspected(t) \/ Decided(t)

SteppingNext ==
    \/ \E t \in Tasks : Goes(t) \/ Fails(t) \/ Rejected(t) \/ StopFound(t)
    \/ \E t \in Tasks, kind \in {"into", "over", "out"} : SourceStep(t, kind)
    \/ \E t \in Tasks : InstructionStep(t) \/ StepOut(t) \/ Continue(t) \/ Pause(t) \/ Reset(t)
    \/ Advance \/ TimePasses \/ Watchpoint

\* The emulator answers, timers fire and the program runs.
SteppingFairness ==
    /\ \A t \in Tasks : WF_steppingVars(Goes(t))
    /\ WF_steppingVars(\E t \in Tasks : StopFound(t))
    /\ WF_steppingVars(Advance) /\ WF_steppingVars(TimePasses)

SteppingSpec == SteppingInit /\ [][SteppingNext]_steppingVars /\ SteppingFairness
----------------------------------------------------------------------------
Quiet == ui = "stopped" /\ \A t \in Tasks : task[t].at = "idle"

(* A source step that ended, was cancelled, or was interrupted by a breakpoint *)
(* of the user, a watchpoint, a pause or a reset leaves nothing behind: once    *)
(* VS Code shows the stop, no step is active and its temporaries are released.  *)
(* (A step begun before the stop of a pause asked for earlier is reported is      *)
(* taken for the paused one and stays active.)                               *)
StepsEndClean ==
    /\ SteppingTypeOK
    /\ Quiet /\ failures = 0 /\ ~crossed => op = None /\ addresses = {}

(* A stop at a breakpoint of the user reaches the user: neither a source step    *)
(* nor a late handler goes on before VS Code was told of it.  (Resets, and steps  *)
(* begun before the stop of an earlier pause was reported, excepted.)            *)
UserBreakpointsHold ==
    [][records /\ unheard /\ cpu = "stopped" /\ ~crossed
           /\ (\A t \in Tasks : ~task[t].resume /\ task[t].at # "resetting")
       => cpu' = "stopped" /\ pc' = pc]_steppingVars

(* A source step ends: by arriving, by its budget or by an interruption, unless *)
(* the program runs for ever, a command failed or a pause crossed it.         *)
StepsEnd == []<>(op = None) \/ <>[](cpu = "running") \/ <>(failures > 0 \/ crossed)

(* docs/debugging.md:95: "Step Over remains in the selected semantic frame and *)
(* skips a deeper inline frame."  So while a step over is active the program    *)
(* does not run through another statement of its frame (filtered ones, which   *)
(* are to be passed, aside).                                               *)
StepOverStaysInFrame ==
    op # None /\ op.kind = "over" /\ cpu = "running" /\ prog.row[pc] # None /\ records
        => \/ prog.row[pc].depth # op.depth \/ prog.row[pc].loc = op.loc
           \/ prog.row[pc].loc \in prog.skip
=============================================================================
