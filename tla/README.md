# Specifications of the v6vscode extension

TLA+ models, model checks and proofs for the program logic of this repository:
the VS Code extension that launches the v6emul emulator, talks to it over one
TCP socket and debugs the programs it runs.  Paths are relative to the
repository root.

## 1. The system

The extension is single-threaded JavaScript.  All its concurrency is
*interleaving at awaits*: while one operation waits for a reply, a timer or a
process, events (socket data, socket close, process exit, user commands, debug
requests, view refreshes) run other code over the same fields.  The second
source of difficulty is the peer: the emulator is another process that stops,
crashes or hangs when it likes, and whose protocol has no correlation ids.

| Component | State it keeps | Operations | Talks to | Hard behaviour | Correctness |
|---|---|---|---|---|---|
| IPC client `src/emulator/client/ipc-client.ts` | socket, epoch, priority queue, active request, receive buffer, timers | connect, disconnect, send, sendRaw; socket events | socket; everyone above | timeouts racing replies, split frames, failure drains, stale scopes | one reply per request and its own; nothing lost, replayed or reordered; limits |
| Session coordinator `src/emulator/session/session-coordinator.ts` | state, owner, mode, process, program, session key, transition tail | start, restart, startDebug, attach, stop, shutdown, disconnect, reload | IPC client, launcher, stop participants, panels, debug adapter | transitions interleaved with socket loss, exit, newer transitions | owned or borrowed; no process forgotten; save before kill; latest wins |
| Session operations `src/emulator/session/session-operations.ts`, `src/platform/async/scoped-task-queue.ts` | session key, revision, queue tail per key, pending refresh per key | capture, enqueue, refresh, dispose | coordinator's state events, IPC client | work queued in one session and run in another | old work never reaches the wire nor publishes |
| Breakpoint coordinator `src/debug/session/breakpoint-coordinator.ts`, `step-breakpoint-store.ts` | breakpoints per address, per source and instruction sets, temporary references | setSource, setInstructions, acquire/release temporary, synchronize, clear | emulator's breakpoint set | partial failure of a reconciliation; shared addresses | the emulator's set is the union of what is referenced |
| Execution controller `src/debug/session/execution-controller.ts`, `stop-monitor.ts` | run state, pending pause/step, last stop sequence, poll revision | run, pause, step, restart, logpoint resume | emulator CPU | a stop racing a run or a pause; stale polls | each stop is published once, and none is missed |
| Debug adapter `src/debug/adapter/` | stopped generation, handles, source step, step-over address | the DAP requests | both above, metadata | handles of an old stop; a step loop | no value of an old stop is shown as current |
| Scripts, watchpoints, memory edits, trace log, performance, ports, statistics `src/debug/*/` | a mirror of an emulator collection and its revision | list, poll, add, edit, delete | session operations | a mirror updated by an old session's answer | the mirror is a state the emulator had in this session |
| Memory service `src/emulator/memory/` | byte cache with validity | refreshVisible, readCached, writeByte, clear | IPC client | a read that spans a clear | a valid byte was read in this session |
| FDD persistence `src/emulator/persistence/fdd-persistence.ts` | none | persistOnStop, persistDriveIfNeeded | coordinator, file system | failure after the write | the dirty flag is cleared only when the file is written |
| Refresh controller `src/platform/async/refresh-controller.ts` | in-flight, pending, revision, failures | request, start, stop, dispose | every polling view | a request joining a refresh that ends | a request is followed by a refresh that began after it |
| Display panel `src/emulator/panel/` | frame loop, key state, settings | show, hide, frame, key, settings | coordinator, IPC client | frames of an old session, overlapping saves | a shown frame is of the current session |
| Debug metadata `src/debug/metadata/` | immutable indexes, artifact cache | load, look up, unwind, locate | debug adapter, Symbols panel, language support | the instruction before and after a prologue or a call; loads that overlap | callers and variables are those of the program; sources resolve both ways |
| Values and expressions `src/debug/values/`, `src/debug/expressions/` | none | evaluate, format, write | debug adapter, hovers | width-limited arithmetic | sequential and pure |
| Projects `src/project/` | active project, persisted files | load, save, select | commands, settings panel | a save racing a read | an old read does not overwrite a save |
| Launcher `src/emulator/launcher/`, `src/platform/process/` | none | launch, kill, output routing | operating system | process I/O | modelled as events of the coordinator |
| Views and webviews `src/debug/views/`, `assets/` | ranges, rows, windows, timers, cached blocks on both sides | messages of the webview, refreshes | services above | messages and answers that cross session ends and each other | nothing of an old session; an action is about the row that was seen; a paused view converges |
| Language support, commands, activation | presentation | - | - | - | presentation |

`PROJECT.json` names every component with its status, and every hazard at the
line where it bites.

## 2. Modules

| Module | Models |
|---|---|
| `IpcPromise` | what the IPC client promises its callers: an abstract specification |
| `IpcClient` | the IPC client, with the socket and the server as environment |
| `IpcClientProofs` | the client's theorems |
| `MCIpcClient` | requests, priorities, sizes and scopes for TLC |
| `SessionCoordinator` | the session coordinator, with processes, socket and peer as environment |
| `SessionCoordinatorProofs` | the session coordinator's theorems on its state, the order of transitions, the stops and the emulators it owns |
| `MCSessionCoordinator` | processes for TLC |
| `BreakpointCoordinator` | the breakpoint coordinator and the step breakpoint store, with the emulator's breakpoints, the program's hits and the adapter's cleanup as environment |
| `BreakpointCoordinatorProofs` | the breakpoint coordinator's theorems |
| `MCBreakpoints` | addresses, sources and configurations for TLC |
| `Execution` | the execution controller, the stop monitor and the adapter's requests and stop handler, with the emulator's CPU, VS Code and the user as environment |
| `ExecutionProofs` | the theorems on polling and on stops |
| `Collections` | scripts, watchpoints, memory edits and performance tests: service, session operations, refresh controller and panel of each, with the emulator's collection and other clients as environment |
| `CollectionsProofs` | the theorems of the four services and their panels |
| `ViewLink` | what the live views share: the session they observe, visibility, the connection |
| `HexViewer`, `TraceLog`, `Hardware`, `Display`, `Symbols` | the live views with their services and webviews; each EXTENDS `ViewLink` |
| `MCViews` | the five views on one `ViewLink`, with their common properties, and values for TLC |
| `ViewsProofs` | the theorems of the views; EXTENDS `MCViews` |
| `Stepping` | the source steps and instruction steps of the debug adapter over temporary breakpoints |
| `Inspection` | what the adapter shows of a stop: stack traces, scopes, variables, evaluations |
| `AdapterProofs` | the theorems on steps and the user's breakpoints, and on what is shown of a stop; EXTENDS both |
| `CallStacks` | frame descriptions and unwinding; call chains from the execution history |
| `Variables` | scopes, inlined functions, locations and values of the variables of a frame; EXTENDS `CallStacks` |
| `LineTable` | line programs, the source index, matching of paths |
| `LineTableProofs` | the theorem on breakpoints, what is shown of them, and copies of sources |
| `MCDebugger` | the parts of the debugger side by side, and small programs for TLC |

### IpcClient

One action per handler of `ipc-client.ts`, each atomic because JavaScript runs
a handler to its next await.  `outcome` is the promise of each request,
`timer` its armed timer (`queueTimer` or `wireTimer` of the code), `active` the
request on the wire, `queue` the waiting requests: a set ordered by `Ahead`
(priority, then sequence number), which is what the code's stable sort gives.
`buffer` is the receive buffer and `wire` the chunks in flight towards it.
`link` is `none`, `dialing` or `open`, and `epoch` the code's `epoch`.

* A chunk is abstracted to what the frame reader tells apart: a whole frame,
  the head or the tail of one, a frame with bytes after it, a malformed or
  oversized frame.
* The window in which `socket.destroyed` is already true and the `close`
  listener has not run is folded into `FailConnection`, which the code calls on
  every such path; frames in flight are dropped with the listeners.
* A write error, `end`, `close` and `error` all call `failConnection` and are
  one action, `SocketFails`.
* The server is environment: it answers each frame at most once, in any
  chunking.  Bytes nobody asked for fail the connection (`UnaskedBytes`).
* `ScopeEnds` is the end of a session lease: the request it guards must not be
  written any more.

### SessionCoordinator

Transitions run one at a time on `transitionTail`.  An action is the code
between two awaits, and `job.pc` is the await the running transition is at:
`detaching`, `pausing`, `saving`, `exiting` and `waiting` in `stopNow`, `port`,
`connecting`, `retrying`, `negotiating`, `attaching` and `loading` in the
openings.  Everything that can happen at an await is an action of its own:
`LinkLost`, `ProcessExits`, `Open`, `Stop`, `Shutdown`, `Disconnect`,
`SetExecutionRunning`, `ReloadBegins`, `ReloadEnds`.

* Session keys, epochs and program objects are only compared for equality with
  a captured value.  A capture is a flag, true while the identity is still the
  captured one (`job.live`, `job.same`, `job.sameProgram`, `reload`).
* A sequence of commands under one lease, with no change of the coordinator's
  fields in between, is one wait (`negotiating`, `loading`); any of them may
  fail (`OpeningFails`).
* `Disconnect` happens only with an open socket: its caller, the debug
  adapter's cleanup (`src/debug/adapter/v6-debug-adapter.ts:1475-1489`), checks
  that first.
* Transitions of users are not submitted after `shutdown()` began: VS Code has
  deactivated the extension.
* `PromptExit` says whether an emulator that lost its socket exits within the
  two seconds `stopNow` waits.  `ForeignRun` says whether another emulator may
  hold the fixed port of Run Project.

### BreakpointCoordinator

`breakpoint-coordinator.ts` and `step-breakpoint-store.ts` reconcile three
owners (source files, the instruction view, stepping) with the one breakpoint
set of the emulator.  `known` is `breakpointsByAddress`, the acknowledged
configurations (the store's set of user-owned addresses is kept equal to its
domain by the code, so it has no variable of its own); `sources`,
`instructions`, `refs` and `announced` are the four sets of the code.

* `enqueue` runs one operation at a time.  A waiting one holds no state but its
  arguments, so the queue is replaced by `Start`: when none is running, any
  operation may begin.
* `op` is the running operation.  In the awaits `adding`, `deleting`,
  `restoring`, `acquiring`, `releasing` and `listing` everything else may
  happen; in `items` and `deletions` JavaScript is running, and only the
  operation's own actions are enabled.  The loops are thereby split into one
  small action per entry without adding an interleaving.
* A configuration is what two requests can differ in; `BackendOf` is the part
  the emulator is told (condition and hit count, not the log message).  Ids
  follow the addresses and are left out.
* A command is carried out and answered (`Accepted`), refused by the emulator
  or failed with its connection (`Failed`); a stale operation throws
  (`StaleAnswer`), which changes nothing.
* `Leave`, `LeaveDeletes` and `Clear` are `cleanup()` of the debug adapter: it
  deletes a snapshot of the acknowledged addresses and clears the coordinator.
  The deletions do not go through `enqueue`; the IPC client sends commands of
  one priority in the order of submission, so they follow the running
  operation's command (the guard of `LeaveDeletes`).
* `Modes` are the kinds of emulator and request explored: one that refuses
  commands, with single breakpoints and duplicates, and one that obeys, with
  requests of two.
* `TemporaryHit` is the program reaching a self-deleting breakpoint.  `lapsed`
  remembers the temporaries that are gone although stepping refers to them.
* Initially the emulator may hold breakpoints of somebody else (`Foreign`),
  which `synchronize` announces.

### Execution

`execution-controller.ts`, its poll loop `stop-monitor.ts`, and what the debug
adapter makes of a request and of a stop.  Nothing serializes these: every
asynchronous call is a task, `task[t].pc` is the await it is at, and a task
goes on (`Resume`) when that await ends.

* Control commands share `wire`, in the order they were sent (`IpcClient`
  shows that commands of one priority keep their order).  `Execute` is the
  emulator carrying out and answering the head; the task goes on later, so the
  program may stop between a command and the code that sees its answer.
* `state`, `pendingPause`, `pendingStep` and `last` (`lastStopSequence`) are
  the controller's fields.  `timer` is the armed timer of the monitor, and
  `task[t].current` is `current()` of a poll: `NextRevision`, the model of
  `stop()`, makes all polls under way old.
* The emulator numbers its stops; a stop record is a number and whether it is
  a logpoint.  `records` says whether the emulator has stop records; without
  them every stop is published.
* `ui` is what VS Code shows from the events it was sent.  It offers
  continue and steps when it shows a stopped program and pause when it shows a
  running one; `reset` and `reload` are commands, offered at any time.
  `asks` marks a request the user still waits for.
* Awaits that change nothing here (registers, breakpoints, a step-over address,
  loading) end at any time; their commands have lower priority.
* `Detach` is `cleanup()` of an attached session, with its awaits.
  `SessionEnds` is the end of an owned one, whose `lifecycle.stop()` is in
  `SessionCoordinator`.
* Source stepping is in `Stepping`; here no source step is active.  The
  display's running flag is written and never read here, and left out.

### Collections

Each of the four services keeps a mirror of a collection that lives in the
emulator, and its panel shows and changes it.  `view` says which service a
behaviour is about; `ScriptCommands`, `WatchpointCommands`, `EditCommands` and
`PerformanceCommands` are the commands that each operation exchanges, read off
each service.

* A job of the service is a sequence of commands; `todo` is what it has still
  to exchange, and the first of `queue` is the running job.  This is
  `ScopedTaskQueue` with the session as its key: losing the session rejects the
  command in flight and everything queued.
* `RefreshController` is `refreshing`, `again` and `polling`: a refresh in
  flight, the request that joined it, the timer.  After a refresh, failed or
  not, the timer fires again, whatever the backoff.
* `asked` of a job is the session in which the user asked for it, a history
  variable.  Modal questions are answered at any time later.
* The emulator's other clients change the collections in `Shared`; in the run these
  are all four.
* `overtaken` is a history variable: another client's change that no list has shown
  lies behind a counter the service takes over (`BetweenListAndCounter`,
  `TakesCounterOver`).  The next list makes up for it.
* `ById` is a mirror's order: the lists are sorted by identifier on arrival
  (scripts, watchpoints) or refused unless they are (edits, performance).

### The live views

`ViewLink` has the session as a view observes it, the version of everything the
emulator holds (`now`, which grows while the program runs), the requests of the
view on the connection and the messages its webview has sent.  A view adds its
own fields and says, for each change of the session, what its listener does.

* `HexViewer`: the provider, `MemoryService` and the browser's cache.  One read
  at a time and one pending; symbols are loaded from disk before each.
* `TraceLog`: filter results are numbered; the service and the webview hold
  blocks of the latest one, and an action names a row by result and position.
* `Hardware`: statistics and ports, one refresh at a time which others join,
  and the operations on a drive with their questions, the save
  (`FddPersistence`), the command and the verification.
* `Display`: the frame loop, the recreation of the panel, and overlays, whose
  update flags the emulator clears when it reports them.  Deleting all scripts, which
  clears the overlays at once, is not modelled apart from removing one.
* `Symbols`: the panel, `DebugSymbolService`, `ArtifactRepository` and the
  active project: three asynchronous levels, each with its own generation.

What a view shows is the version it was read at.  The webview's messages wait
in `inbox`; those to it are delivered at once.  Two history variables remember
what the code leaves stale without a word: `unheard`, that the view's last read was
left out, dropped or failed, and `dropped`, the scripts whose last overlay report was
not taken.  Each is cleared by the next read that makes up for it.  `ViewsConverge`
is about everything else; section 6 lists the cases.

### Stepping

Requests, stop handlers and the reset command are tasks; `task[t].at` is the
await a task is at.  The program is a set of addresses, some of which begin a
row of the line table with a location and an inline depth.  `op` is
`SourceStepService.operation`, `refs` the references of `StepBreakpointStore`,
`addresses` the adapter's `sourceStepAddresses`, `temps` what the emulator
holds; a temporary deletes itself when it is hit.  Handling a stop is
`Inspected`, then `Decided`, with an await between them.  Polling and stop
records are reduced to "a stop is found": they are the subject of `Execution`.

### Inspection

Registers, memory and frames are reduced to the moment they are of.  `gen` is
`stoppedGeneration`, `context` the captured `DebugStopContext`, `stack` the
frames of `StackTraceService`, `pending` the capture that others join,
`handles` the variable handles.  VS Code keeps frames and references and uses
them late.  A read may be answered after the program was let go, because
control commands overtake reads.

### CallStacks and Variables

A machine with a stack executes small programs; `calls` is a history variable
with the calls under way, to compare with.

* `RowsOf` interprets a frame description as `readInstructions` does, with its
  aliasing of the last row; `RowOf` is `rowAt`.  `Unwinding` is `unwind()`, which
  stops at the first place that repeats and at `MaxFrames`.
* `Visits` is `reconstructFunctionChain()` asking the emulator what entered a
  region last; `Erases` drops excursions.
* `Variables` takes the debug entries in their order, finds the innermost scope,
  the inline chain and the visible variables, reads range and location lists
  with their bases, and evaluates expressions on the registers recovered for
  the frame.  Operations go by number, because the code tests ranges of
  numbers.  A program also carries what its source means: which variable holds
  the value at entry, or the present one, at which addresses.
* Words are the unit of the stack, and a register pair is one register.

### LineTable

Rows are written one by one.  `Program` encodes them as the format demands
(external); `Rows` is the reader, and `ResolveAddress`, `ResolveBreakpoint`,
`PrecedingStatement` and `ResolveFile` are the index and the matching of paths.
The index is a set of positions in the rows: the first of a kind is the least
position, which is what the code's sorts and insertions in order of emission keep.

## 3. Runs

| Run | Asks | Bounds |
|---|---|---|
| `ipc_client` | no promise lost, mixed up, replayed or out of order; every request and connect() ends; refinement of `IpcPromise` | 3 requests of 2 priorities, 2 sizes and 2 scopes, queue of 2 and 3 bytes, 2 callers of connect(), 3 connections |
| `session` | the life cycle: owners, processes, state and leases agree; save before kill; the latest wins; transitions and shutdown() end | 3 processes, 3 user operations, 2 connection attempts, prompt exits |
| `breakpoints` | what is acknowledged or stepped to is installed; nothing else is left; owners do not disturb each other | 2 addresses, 2 sources, 3 configurations, 3 operations, 2 references; a refusing and an obedient emulator |
| `execution` | one poll loop at a time; each stop handled once | 2 requests of 6 kinds after the start, 1 stop of the program, 1 refusal, 3 tasks at a time |
| `execution_live` | every stop is found; polling ends with the session | 2 requests of 5 kinds, 1 stop, no refusal |
| `collections` | changes reach the session they were asked in and keep what they do not change; mirrors are honest and converge but for two named orders; polling goes on | 4 services, each with another client, 2 entries, 2 texts, 3 events, 2 jobs (881,912 states) |
| `views` | nothing of an old session is shown; actions are about the row that was seen; a drive's changes are not lost; paused views converge, say that they failed, or are a named silent gap; frames flow | 6 views; 2 events for the Hex Viewer and the Trace Log, 3 for the others; 1 message on its way, 3 ranges, 3 scroll positions, blocks of 2 rows (508,543 states) |
| `debugger` | steps end and leave nothing behind; user breakpoints hold; answers are of their stop; frames stay open; stacks, variables and lines are right | see below |
| `session_hung_shutdown`, `breakpoints_refused`, `execution_pause`, `step_over_inline` | findings, see 6 | 1 to 3 operations |

`debugger` has four parts; a behaviour is about one.  Stepping: 4 programs of 4
addresses (a call, a branch with a user breakpoint, an inlined function, a
caller), 3 requests, 2 tasks, 1 failure, 2 instructions or candidates per step.
Inspection: 3 moments, 3 requests of VS Code at 2 readers, 1 refused read, 3
handles.  Call stacks: 2 machine programs (nested calls with a region inside a
function, two levels of inlined functions and a block that hides a variable; a
recursive function called from a macro without a function), 25 instructions, a
stack of 6 words, 4 frames, 26 visits, expressions of 64 values.  Lines: 3 rows
with address steps 0, 1, 18 and line steps -6, 0, 1, 9, on both sides of what a
special opcode reaches with line base -5, line range 14 and opcode base 13; up
to 3 sources with 6 paths.

The bounds are the least at which every action fires and each mutant of
`PROJECT.json` is caught.  Three requests are needed for one to be active while
two compete; two connections for a stale reply, a third for a request to survive
two failures.  Three processes and three operations for a restart that is
superseded while a stop is joined.  Two sources for a shared address, two
addresses for a deletion loop that stops halfway, three operations to set, share
and remove a breakpoint.  Three tasks for a request to arrive while the start
or a stop handler waits and a poll is on the wire, and two requests for one to
overtake the other.  Three events in a collection for another client's change
to fall between two commands of a job in a session that is lost; three in a view
for a session to end and begin under a request and the user to act.  Three
requests for a step, a pause over it and a step after it.

The two runs of `Execution` together offer every kind of request: `execution`
leaves out `next` and `reset`, `execution_live` leaves out `step`, `restart` and
`reload`, with which its states exceed what the liveness check can hold.

No run checks for deadlock: users stop, requests and events are bounded, and the
emulator may fall silent for good, so each system may rest.

**Fairness.**  The client: an armed timer fires, a connection attempt times out
(`IpcClient` sets both).  The server is never assumed to answer.  The session
coordinator: each await of a transition settles, because every command and
connection attempt has a timeout and the wait for the exit has one of two
seconds; a killed process exits, and so does one that a stop waits for if
`PromptExit` says so (`Exiting`).  Nothing is assumed of users or of other
processes.  `Execution`: the emulator answers or the request times out, the poll
timer fires, and every await ends, each task for itself.  `Collections`: a
queued job begins, a command on the wire is executed or fails and its answer is
handled; the poll timer, which losing the session or hiding the panel disarms,
fires if it is armed again and again.  The views: requests are answered or fail,
files are read or fail, timers fire, messages are handled.  `Stepping`: every
await of a task ends, a stop is found while the monitor polls, the program
advances, time passes.  `BreakpointCoordinator`, `Inspection`, `CallStacks` and
`LineTable` are checked for safety only.

## 4. Proofs

All theorems hold for every value of the constants that the module's assumption
admits; two state a further hypothesis, named below.  TLC has checked each
proved property, and each inductive invariant, on the instances above.

### IpcClientProofs

The client's type invariant, all its safety properties, and that it implements
`IpcPromise`.

* *The inductive invariant* `ClientInv` is the conjunction of the type
  invariant, "pending means queued or active" (`NoRequestLost`), "a timer runs
  for what is waiting" (`TimersMatch`) and "what waits was accepted on the open
  connection" (`PendingOnThisConnection`); the last three are `RequestsAreHeld`.
  `WireInv` adds "what is in the buffer and on the wire answers the active
  request".  None of them is inductive alone: a reply completes the active
  request and dispatches the next, so they need each other.
* `FailConnection` and `CompleteActive` occur in many actions; a lemma about
  each says what it keeps.
* `UrgentFirst` and `StaleScopeIsSilent` are action properties and follow from
  the same invariant, step by step; so does the refinement.
* `QueueIsAccountedFor`: `AccountInv` says that the counter of queued bytes is the
  sum of the frames that wait and within its limit, over a finite set of requests.
  The sum is a fold over a set, and the library's induction over finite sets takes
  an operator as a parameter, out of the provers' reach.  So what is needed of the
  fold is proved by minimal counterexamples: of the finite sets without the fact
  one is smallest (`MinimalSubset`, from the well-foundedness of strict inclusion),
  and taking one request out of it contradicts that.  This gives that the fold
  exists (`FoldsExist`) and that adding or removing a request adds or removes its
  size (`FrameSum...`).
* The only assumption is `ClientAssumption`.

### SessionCoordinatorProofs

* `SessionTypeCorrect`: `TypeOK` is inductive.  Most of the proof is the
  records: what `Dropped`, `Forget` and the other helpers keep is a lemma each.
* `PublishedFactsAgree`: `LinkFacts` says that the published state agrees with
  the link and that the server's facts are of this connection.  The inductive
  invariant `LinkInv` adds that the opening flag agrees with the await of the
  running transition (`Phases`), and that a lease taken by an opening lives no
  longer than its connection (`LeaseIsOpen`).  Without the second, `Publish`
  could declare a session usable over a closed socket.
* `OnlyTheLatestOpens`: the invariant `InOrder` says that waiting transitions
  have increasing ids between the running one's and the last one given out; so
  the transition that passes `assertRequest` has nothing behind it.
* `OneStopForAll`: `StopIsShared` speaks of the running and the waiting
  transitions at once; `Shared` says that the stop in flight is one of them and
  that no other is a stop, which with the ids in order is inductive.
* `NoKillBeforeSave`: `SavedOrShutdown` carries the outcome of the save past the
  exit command to the kill.
* No assumption on `PromptExit` or `ForeignRun` is used by these theorems.

The theorems on ownership say who owns the emulator that answers, at every await
of every transition.

* The inductive invariant `Held` extends `LinkInv`: what a detaching transition
  still holds (`Owned`), what a stop captured and has yet to let go (`Stopping`),
  that an opening's process is the session's for as long as it lives
  (`Launching`), and the property itself (`Counted`).  The property alone is not
  inductive: whether a loss of the connection strands a process depends on the
  await the running transition is at.
* `NothingLeftBehind` adds `LastStop`, the second stop of `shutdown()`: it is the
  newest transition, so what it leaves behind is what `shutdown()` leaves behind.
* These two theorems assume `~ForeignRun` and `PromptExit`.  Neither can be dropped:
  without the first, Run Project takes whoever holds its port for its process;
  without the second, `session_hung_shutdown` finds an emulator left running (6).

### BreakpointCoordinatorProofs

* `BooksStayKept`: `BooksInv` is `BooksAreKept` in parts, with `Placed`: a
  temporary in flight is at an address of no user and its reference is not
  counted yet, or no longer.  Without it the answer to an acquisition could
  replace a user's breakpoint.
* `OwnersAreUndisturbed`: `InFlight` says that a command decided upon before its
  await is still allowed after it: what is being replaced belongs to the
  operation alone, and what is being deleted has no reference.
* `OwnersBooksAndEmulatorAgree`: `Settled` is the property up to what the running
  operation has yet to do, split into referred-is-acknowledged, acknowledged-is-
  referred, installed-is-acknowledged and no-orphan, each with the addresses the
  operation still owes.  It holds for an emulator that refuses nothing and
  requests without duplicates (`mode`), and fails otherwise: `breakpoints_refused`
  and the limits in 6.
* The only assumption is `BreakpointAssumption`.

### ExecutionProofs

* `OnePollLoop`: `OnePoller` adds the armed timer to the polls under way; a poll
  re-arms it, so that neither fact is inductive alone.
* `StopsAreHandledOnce`: `Numbered` puts the handled stops, the last number
  remembered, the number of the answer on its way and the emulator's counter in
  one order.  A monitor restarted by a pause reads the same record again; it is
  the order that shows it handled.
* What the many continuations of a task have in common is one predicate
  (`Moved`), and the step lemma is proved from it.

### CollectionsProofs

Of all four services at once; `view` is a parameter of every step.

* The inductive invariant `ServiceInv` has four parts: the session and what the
  service knows in it (`LinkOK`), the running job, whose commands are well formed
  and which has a session (`JobOK`), the queue and the polling panel (`PanelOK`),
  and the messages and dialogs of the user, each of this session or of an earlier
  generation (`UserOK`).  They need each other: a queue is of this session because
  messages are, and messages are dropped because the generation moved with it.
* `ChangesReachTheirSession` follows from `PanelOK`, for messages, dialogs and
  queues of any length.  `APollIsNeverLost` is proved in each step's lemma.
* `MirrorsAreHonest` has no hypothesis on who else changes the collections.  It needs
  `Vouched`: an answer on its way is of the emulator's present state, and a job asks
  for the counter only right after a list, both unless a change came in between
  (`overtaken`).  `CounterVouches` says when the remembered counter may be believed:
  list and counter are two commands for watchpoints, and a script's change brings a
  counter with it, so the invariant follows `overtaken` through the job that reads
  them, and shows that a whole list clears it and that nothing but those two orders
  sets it (6).
* `ASwitchKeepsTheText` needs `TextsInv`: mirror and emulator agree on the texts
  of the entries both have, except between a command that writes a text and the
  list behind it; such a command comes first in its job and is of no switch
  (`Shaped`), so what a switch writes was built from a mirror that agreed.  Every
  job's commands are shown to have that shape (`CommandsAreShaped`).  TLC checked
  `TextsInv` on 4.8 million states before.  The proof needs `NoneIsNoCollection`:
  a refusal is not a collection.
* The proof found two `CASE`s of the model whose guards overlapped (`Commands` and
  `Cleanup`); TLC takes the first, the language does not say which.  They are
  decided by `IF` now.

### AdapterProofs

Two specifications side by side, which share no variable.

The first theorems are of `SteppingSpec`, the part of `debugger` that is about steps,
for every program, every number of tasks at a time and every limit.

* `StepsLeaveNothing`: the property is about quiet states, and says nothing of
  what a step owes while it is under way.  `HeldInTime` does: with the stop shown
  a step is held only while its temporaries are acquired, and a stop that is
  being decided finds no temporaries without a step.  It needs `OneThread`: an
  active source step has one task at a time, or the program runs and is watched,
  and no pause is pending; so whoever reports a stop has ended the step before.
* `UserStopsAreReported`: `OneThread` also follows a stop at a user's breakpoint
  from the emulator to the decision (`cause`, then the task's `why`), and
  `StartsAlone` says that a task that is about to let the program go is the only
  one, at a stop that was reported.  `OnItsWay` and `Watched` close the circle: what
  was not reported is still watched or handled, so that the next step is not
  offered on top of it.
* `StepsLeaveNothing` is about behaviours with no refused command, and both
  except steps begun across a pause (`crossed`, 6): these conditions are part of
  the properties.
* The only assumption is `SteppingAssumption`: successors, callers and the address
  after an instruction are addresses, rows have a location and a depth.

The others are of `InspectionSpec`, the part of `debugger` that is about one
stop and its readers.

* `AnswersAreMadeOfOneStop`: the inductive invariant `InspectionInv` says of the
  context that it is of the stop shown while the program stands (`Stopped`), of
  the frames of this generation that they are of that stop (`Stacked`), of every
  request that what it was asked with agrees with the stop it was asked of or is
  of an older generation (`Reading`), and of captures that their revisions tell
  them apart and that who joined one waits for a request of the same stop
  (`Capturing`).  The comparisons the code makes late, `StillCurrent` and the
  capture's revision, turn "of an older generation" into silence.
* `OpenFramesStay` adds `Holding`: a frame VS Code has is of the stop it shows, and
  a handle in the store is of a known context.
* The excuse `kept` (6) is part of both properties.

### ViewsProofs

Of all views, for any number of events, ranges, requests on their way and
messages.  A behaviour is about one view.  `ViewInv` says that this view keeps its
own invariant and that the variables of the others stay as they began.

* `ViewsAreOfThisSession`: a view shows what was read in the session it observes,
  and nothing between sessions.  `LinkOK` orders the versions (`since` is no later
  than `now`); the rest is about what is on its way, of each view in its own words:
  * `HexInv`: an answer on the wire was read in this session and no request
    outlives it.  `SymbolsLoaded` and the pending read start only in a session.
  * `TraceInv`: `OneResult` says that the filter result in force, the blocks of the
    service and the rows of the webview bear one number, and `OneLatest` that at
    most one request could still become the result, and only while there is none.
    A result that comes late bears an older number, and is dropped.
  * `HwInv`: `HwData` says of each answer by its kind what it tells of the drive.
  * `DisplayInv`: requests are executed one at a time (`OnlyFirst`); a report of
    overlays is newer than every removal before it; with the page ready, canvas and
    cache agree (`Cached`), otherwise the canvas has none.
  * `SymInv`: the index, and the load that will replace it, are of the active project
    and of a session (`IndexIsOfProject`).  Of three asynchronous levels with a
    generation each, only the newest load has a number that will be looked at.
* `ActionsHitWhatWasSeen`: an action names a row as it was shown.  `TraceInv` says
  that a row the host acts on is of the result in force; `SymInv` that a row, or a
  message about one, whose generation is the index's shows the index (`TrueRows`).
  Generations only grow when another index comes into force (`IndexMoves`), so a
  message that waited while it changed is of an older one.
* `DrivesAreKept`: changes of a drive that were not saved are lost only when the user
  was asked.  `OneOperation` says that one operation is under way, and that the one
  command it waits for is on the wire as its phase says; `StillTrue` that while
  nothing else changed the drive since the operation's snapshot, what it was told
  is what the drive holds: a drive with changes was seen so, a queued mount was
  agreed to, and a reset comes after the save of what the drive has.
* The assumptions are those of `ViewLink` and of each view.  The proof made three of
  them explicit: there is a greatest scroll position of the trace log (a list has an
  end) and some query to filter with, each space of the hex viewer has a first range
  (where it is opened), and `None` is no filter result.

### LineTableProofs

`SourcesAreResolved` is of `LineSpec`, the part of `debugger` that is about line
programs and paths: for every line base, line range and first special opcode, every
number of rows in any number of sequences, and every set of sources.

* *The inductive invariant* `LineInv` says that the reader of the program written
  so far stands where the last row left it (`AfterRows`): it has emitted the rows
  that were written, its registers are those of the last row, or as at the beginning
  behind the end of a sequence.  That the rows agree is not inductive alone: a row
  is encoded by its distance to the one before.
* `WritesAreRead` follows one row through its encoding: set of file, change of
  statement, then a special opcode, one behind a constant advance, or advances with
  a copy.  `SpecialIsRead` undoes the packing of address and line in one opcode; it
  rests on division with remainder (`Division`).
* `Rows` folds over a program and `Program` flattens the encodings of its rows, both
  by recursive functions over data.  What is needed of them, that the functions exist
  (`FoldsExist`, `JoinsExist`) and that one more instruction or row is read behind
  the others (`ReadsOneMore`, `FlattensOneMore`), is proved by minimal
  counterexamples, as for the client's queue.
* With the rows at hand, `BreakpointIsFound`, `BreakpointIsShown` and
  `CallerIsBefore` are facts about least and greatest members of finite sets.
* `IsNeverAnotherFile`: the copy of a source ends with the source, so the longest
  common end of two paths is at least that; a longer one would be the whole copy.
* `LineTableAssumption` says of `Paths` that no source is, or ends with, the path of
  a copy: a copy of the tree lies outside it.  Where a source `x/edited/p` is
  beside `p`, the file `edited/p` names the former just as well.

### Model-checked only

* Liveness: fairness and `ENABLED` are out of the prover's reach.
* `StacksAreCalls`: what `CallStacks` and `Variables` compute is compared with
  references on bounded programs.  For every program it is an induction over programs:
  a machine's run and its frame descriptions would have to be related by an invariant
  of their own, which there is not yet, since the descriptions are given with each
  program and not derived from it.

## 5. Not modelled

| Part | Why |
|---|---|
| ELF sections, decoding of debug entries and of types, protocol field validators, expression parser and value formatting | sequential functions of one input, whose tests enumerate their cases |
| Program loader | its order of commands is a wait of `SessionCoordinator` (`loading`) which may fail; what it loads is data |
| Launcher, process runner | operating-system I/O; `SessionCoordinator` models launch and exit as events |
| Settings panel and project files | left out: forms over project files; the active project's change event is in `Symbols` |
| Run-once output, compilation results, tooltips, HTML, drawing, language support, commands, activation | presentation |
| The adapter's threads and exceptionInfo answers | they change no state of the adapter |

Worth proving next: that frame descriptions written by a compiler's rules describe
the stack of every program, from which `StacksAreCalls` would follow.

## 6. Findings

Each is a run that TLC must find violated.

* `session_hung_shutdown`: `stopNow` returns without cleanup when the
  connection changed while it waited for the exit
  (`src/emulator/session/session-coordinator.ts:475`), also when the process is
  still the one it meant to stop.  An emulator that loses its socket in that
  window and does not exit by itself is neither killed nor tracked.  The same
  return lets a restart assign a new process over the live one.
  `session` checks the same property with emulators that exit promptly
  (`PromptExit`).
* `breakpoints_refused`: a refused deletion ends the loop over the previous
  addresses; those it had not reached stay installed without a reference
  (`src/debug/session/breakpoint-coordinator.ts:401`).
* `execution_pause`: the program stops at a logpoint and the user pauses before
  the stop handler is done.  The pause is acknowledged, but the handler resumes
  the program whatever `pendingPause` says
  (`src/debug/adapter/v6-debug-adapter.ts:1264`), and no stopped event follows.
* `step_over_inline`: a step over runs only to the first later statement
  (`src/debug/adapter/v6-debug-adapter.ts:925`).  If that is in a deeper inline
  frame its temporaries are used up there, the step is continued with no
  breakpoint left, and the program runs through the rest of its own frame.

Limits of the passing runs that come from the code.  The hazards of `PROJECT.json`
whose own case no passing property catches carry a note that says so: those of
the findings above, and those where a property has to name or leave out what the
code really does.

* `shutdown()` shares the promise of a stop in flight; a start queued behind
  that stop launches an emulator after `shutdown()` ended
  (`session-coordinator.ts:411`).  `NothingAfterShutdown` states that it does
  not; no run checks it, and `ShutdownReleases` speaks of the moment in which
  `shutdown()` ends.
* `ForeignRun` is FALSE in every run: Run Project connects to a fixed port and
  does not check that the server that answers is the process it launched, so
  `ProcessesAccounted` assumes that nobody else holds the port.
* The obedient emulator of `breakpoints` gets no request that names an address
  twice: of two instruction breakpoints at one new address of which one is
  refused, the refusal removes the address from the instruction set although
  the other was installed (`breakpoint-coordinator.ts:461`).
* `cleanup()` deletes a snapshot of the acknowledged addresses: a breakpoint
  whose ADD is in flight stays in an emulator that keeps running
  (`v6-debug-adapter.ts:1481`).
* `StopsAreFound` speaks of programs the controller takes for running.  A
  restart that overtakes the RUN of the session's start, or of a logpoint's
  resume, leaves `state` at `paused` while the program runs, and the next
  restart then ends the polling.
* `StopsAreFound` excludes refused commands: a refused GET_STOP_RECORD ends the
  polling and nobody is told (`stop-monitor.ts:57`).
* The watchpoint list and its counter are two commands
  (`watchpoint-service.ts:67-78`): a change by another client between the two is
  behind the counter from then on.  `ScriptService` takes over the counter of its
  own change (`script-service.ts:234`): a change of another client it has not read
  is behind the counter then, too.  `MirrorIsHonest` and `Converges` do not exclude
  these orders; they name them (`overtaken`) and say that no other leaves a mirror
  stale, and that the next list repairs it.  Without another change no list comes.
* `ScriptService` builds the record of a switched script before the job is queued
  (`script-service.ts:106`), so `SwitchKeepsText` leaves scripts out.
* Watchpoints and scripts do not look at the session again after a question, so
  `AskedHere` leaves their dialogs out; and a late answer of theirs may replace
  the "no session" banner.
* A visible view of a paused program can stay stale and say nothing.  These are the
  cases, and `ViewsConverge` excuses no other; with any one of them no longer
  excused TLC finds the property violated:
  * Hex Viewer: a read that no message waits for fails, begun by the end of another
    (`hex-viewer-provider.ts:297`), by the session's listener or by the timer.
  * Hardware Statistics: a refresh begun by a stop or by showing the panel fails
    (`hardware-statistics-service.ts:40`, `:72`).  The model also excuses the
    failures of a refresh the panel asked for, which the code does report
    (`hardware-statistics-provider.ts:55-61`).
  * Ports: the program ran during a refresh, whose answers are dropped
    (`ports-service.ts:107`), and the stop joined that same refresh (`:72`); or a
    direction fails while the program runs, which is not shown either (`:115`).
  * Display: an overlay report that a removal overtook is dropped
    (`script-overlay-service.ts:64`), and reading has cleared the flags, so that
    script's overlay stays the old one until it draws again (`dropped`).
  * Symbols: a panel that is on the screen when a session begins is not
    synchronized (`symbols-panel.ts:44-46`) and stays empty, although
    `design/features/symbols-panel-plan.md:60` says that symbols come from the
    artifact while a session is active; and a load that joins one under way, or
    that precedes a build of the artifact, lists the artifact of before.
* `DriveIsKept` is about operations whose program stayed paused since their
  snapshot (`op.true`): the code does not look at the drive again after the dialogs
  (`hardware-statistics-provider.ts:112`).
* `refreshRegs()` does not look at the generation: registers that were cached
  just before the program was let go are taken for the next stop's if its own
  refresh fails (`v6-debug-adapter.ts:1423`).  `AnswersAreOfTheirStop` excuses
  that stop (`kept`).
* A step begun while the stop of an earlier pause waits to be reported is taken
  for the paused one and stays active; a second reset meets the first
  (`crossed` in `Stepping`).
* A step that failed half-way leaves its temporaries installed
  (`v6-debug-adapter.ts:891`); `StepsEndClean` and `StepsEnd` excuse failures.
* `restore_state` right behind an advance replaces the state without the row
  that was pushed, and takes effect one advance late (`dwarf-cfi.ts:286`); the
  programs have none.
* Unwinding stops at a return address it has seen, so a recursive function shows
  one caller (`debug-stop-context.ts:64`); `UnwoundIsCalled` asks for a correct
  beginning there.
* The range taken for `DW_OP_breg0..31` (0x90 to 0xAF, `dwarf-expression.ts:49`;
  DWARF has 0x70 to 0x8F) covers `DW_OP_fbreg`, `DW_OP_call_frame_cfa` and
  `DW_OP_stack_value`, whose cases below it are never reached although
  `design/features/c-debug-dwarf-metadata-plan.md:271` requires them.  No memory
  is fetched before an expression is evaluated (`value-reader.ts:30`), so
  `DW_OP_deref` always fails.  The programs use none of the four.
* A default location entry is taken where it stands, even before one that
  matches (`dwarf-locations.ts:104`); the programs have it last, as compilers do.
* The end of a sequence emits a row for the address behind it
  (`dwarf4-line-reader.ts:311`); where two statements claim an address
  `SourcesResolve` does not say which is shown.
* `matchByTrailingSegments` takes the longest common end of two paths, which a
  file that is not in the build may share with one that is; `NeverAnotherFile`
  speaks of files of the build.
