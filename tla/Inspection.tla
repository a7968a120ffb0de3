------------------------------ MODULE Inspection ------------------------------
(***************************************************************************)
(* What the debug adapter shows of a stop: the registers and the context it  *)
(* captures (onStop, captureStopContext, invalidateStopContext), and the     *)
(* requests stackTrace, scopes, variables and evaluate, which read memory and *)
(* registers while the program may be let go, stop again or the session end.  *)
(*                                                                         *)
(* Registers, memory and frames are reduced to the moment they are of: moment *)
(* changes whenever the program runs.  IPC sends control before reads, so an  *)
(* answer is of any moment between the request and the answer.              *)
(***************************************************************************)
EXTENDS Integers, Sequences, FiniteSets

CONSTANTS Nothing,      \* absence of a value
          MaxMoment,    \* bound: moments of the program
          MaxAsked,     \* bound: requests of VS Code
          MaxRefused,   \* bound: refused reads
          MaxHandles    \* bound: handles given out

Readers == 1..2
Moments == 0..MaxMoment
Generations == 0..3 * MaxMoment + 3

ASSUME InspectionAssumption ==
    /\ MaxMoment \in Nat /\ MaxAsked \in Nat /\ MaxRefused \in Nat /\ MaxHandles \in Nat
    /\ Nothing \notin Nat
    /\ Nothing \notin [gen : Nat, moment : Nat] \cup [gen : Nat, by : Readers \cup {Nothing}]

VARIABLES
    moment, running,  \* the program
    gen,              \* stoppedGeneration
    context,          \* stopContext: its generation and the moment of its registers
    cachedRegs,       \* the moment of the cached registers
    stack,            \* StackTraceService: generation, frames and whether all are there
    revision, pending, \* captures: the last one begun, and the one that is joined
    history,          \* historyCapture: generation and the reader that collects it
    traced,           \* the program is traced: the stack comes from execution history
    handles, nextHandle, \* variablesHandles of the current generation
    reader,           \* the requests under way
    stopping,         \* where onStop, run(), singleStep() or restart() is
    shown,            \* VS Code: the moment of the stop it shows, or Nothing
    given,            \* VS Code: frames and handles it holds, with the stop they are of
    asked, refused,   \* counters of the bounds
    kept,             \* history: a refresh failed and older registers were captured
    said              \* history: the last answer VS Code used

machine == <<moment, running, kept>>
stopVars == <<gen, context, cachedRegs>>
traceVars == <<stack, revision, pending, history, traced>>
handleVars == <<handles, nextHandle>>
vscode == <<shown, given, said>>
inspectionVars == <<machine, stopVars, traceVars, handleVars, reader, stopping, vscode, asked, refused>>

Silent == [what |-> "nothing", stop |-> Nothing, data |-> {}]
NoStack == [gen |-> -1, of |-> Nothing, whole |-> TRUE]
Resting == [at |-> "idle", of |-> Nothing, gen |-> 0, ctx |-> Nothing, loc |-> Nothing,
            rev |-> 0, stale |-> FALSE]
Context(g, m) == [gen |-> g, moment |-> m]
OrNothing(S) == S \cup {Nothing}

InspectionTypeOK ==
    /\ moment \in Moments /\ running \in BOOLEAN /\ traced \in BOOLEAN /\ kept \in BOOLEAN
    /\ gen \in Nat /\ cachedRegs \in OrNothing(Moments)
    /\ context = Nothing \/ (context.gen <= gen /\ context.moment \in Moments)
    /\ pending \in OrNothing(Readers) /\ revision \in Nat
    /\ \A h \in handles : h.id < nextHandle
    /\ \A r \in Readers : reader[r].at \in {"idle", "registers", "unwind", "trace", "joined", "read", "evaluate"}
    /\ stopping \in {"no", "refresh", "logged", "letting", "resuming", "executing", "resetting"}
----------------------------------------------------------------------------
(***************************************************************************)
(* The stop and what invalidates it.                                        *)
(***************************************************************************)
\* StackTraceService.clear() and DapHandleStore.reset().  Whoever awaits the
\* capture still gets its result.
Forget ==
    /\ stack' = NoStack /\ revision' = revision + 1 /\ pending' = Nothing
    /\ handles' = {} /\ UNCHANGED <<nextHandle, traced>>

Invalidate ==
    /\ gen' = gen + 1 /\ context' = Nothing /\ history' = Nothing
    /\ Forget

\* GET_REGS of onStop: an answer or none, then captureStopContext. VS Code is
\* told, or the stop is a logpoint and the program goes on.
Refreshed ==
    /\ stopping = "refresh"
    /\ \/ cachedRegs' = moment /\ UNCHANGED <<refused, kept>>
       \/ /\ refused < MaxRefused /\ refused' = refused + 1 /\ UNCHANGED cachedRegs
          /\ kept' = (kept \/ cachedRegs \notin {Nothing, moment})
    /\ IF cachedRegs' = Nothing THEN UNCHANGED <<gen, context, handles>>
       ELSE /\ gen' = gen + 1 /\ context' = Context(gen + 1, cachedRegs')
            /\ handles' = {}
    /\ \/ shown' = moment /\ stopping' = "no"
       \/ shown = Nothing /\ UNCHANGED shown /\ stopping' = "logged"
    /\ UNCHANGED <<moment, running, traceVars, nextHandle, reader, given, said, asked>>

\* A stop is found; also that of a pause of a program that is stopped.
Stops ==
    /\ stopping = "no" /\ (running \/ (shown = moment /\ asked < MaxAsked))
    /\ stopping' = "refresh" /\ running' = FALSE
    /\ asked' = IF running THEN asked ELSE asked + 1
    /\ UNCHANGED <<moment, kept, stopVars, traceVars, handleVars, reader, vscode, refused>>

Runs ==
    /\ running /\ stopping = "no" /\ moment < MaxMoment /\ moment' = moment + 1
    /\ UNCHANGED <<running, kept, stopVars, traceVars, handleVars, reader, stopping, vscode, asked, refused>>

\* run() and resumeLogpoint(): what was captured is invalid before RUN is sent.
LetsGo ==
    /\ moment < MaxMoment
    /\ \/ stopping = "no" /\ shown # Nothing /\ stopping' = "letting"
       \/ stopping = "logged" /\ stopping' = "resuming"
    /\ cachedRegs' = Nothing /\ Invalidate
    /\ UNCHANGED <<machine, reader, vscode, asked, refused>>

\* VS Code hears of it, and drops the answers to what it asked before.
Continued ==
    /\ shown' = Nothing /\ given' = {} /\ said' = Silent
    /\ reader' = [r \in Readers |-> [reader[r] EXCEPT !.stale = TRUE]]

\* RUN is answered; after a logpoint VS Code is not told.
LetGo ==
    /\ stopping \in {"letting", "resuming"} /\ stopping' = "no"
    /\ running' = TRUE /\ moment' = moment + 1
    /\ IF stopping = "letting" THEN Continued ELSE UNCHANGED <<reader, vscode>>
    /\ UNCHANGED <<kept, stopVars, traceVars, handleVars, asked, refused>>

\* restart() of a stopped program: VS Code goes on showing its stop.
Reboot ==
    /\ stopping = "no" /\ shown # Nothing /\ moment < MaxMoment /\ stopping' = "resetting"
    /\ cachedRegs' = Nothing /\ Invalidate
    /\ UNCHANGED <<machine, reader, vscode, asked, refused>>

WasReset ==
    /\ stopping = "resetting" /\ stopping' = "no" /\ moment' = moment + 1
    /\ \/ cachedRegs' = moment' /\ UNCHANGED refused
       \/ refused < MaxRefused /\ refused' = refused + 1 /\ UNCHANGED cachedRegs
    /\ UNCHANGED <<running, kept, gen, context, traceVars, handleVars, reader, vscode, asked>>

\* singleStep(): EXECUTE_INSTR is answered before anything is invalid; its
\* answer is acted upon before that of a later read arrives.
StepOne ==
    /\ stopping = "no" /\ shown # Nothing /\ moment < MaxMoment /\ stopping' = "executing"
    /\ UNCHANGED <<machine, stopVars, traceVars, handleVars, reader, vscode, asked, refused>>

Executed ==
    /\ stopping = "executing" /\ stopping' = "refresh" /\ moment' = moment + 1
    /\ cachedRegs' = Nothing /\ Invalidate /\ Continued
    /\ UNCHANGED <<running, kept, asked, refused>>
----------------------------------------------------------------------------
(***************************************************************************)
(* Reads.                                                                   *)
(***************************************************************************)
\* Mutant: the reader does not ask whether its stop is still the current one.
AnyContext(ctx) == TRUE
\* StopMemoryReader: a read of an earlier stop, or a refused one, is unavailable.
StillCurrent(ctx) == ctx # Nothing /\ ctx.gen = gen

MayRefuse(ok) == \/ ok = TRUE /\ UNCHANGED refused
                 \/ ok = FALSE /\ refused < MaxRefused /\ refused' = refused + 1

Asks(r, entry) ==
    /\ reader[r].at = "idle" /\ \A q \in 1..r-1 : reader[q].at # "idle"
    /\ asked < MaxAsked /\ asked' = asked + 1
    /\ reader' = [reader EXCEPT ![r] = entry]
    /\ UNCHANGED <<machine, stopVars, stopping, shown, refused>>

\* VS Code asks of the stop it shows.
Ask(r, entry) == shown # Nothing /\ Asks(r, entry)

\* An answer with what it is made of; VS Code uses it unless the program went on.
Answers(r, what, data, gives) ==
    /\ reader' = [reader EXCEPT ![r] = Resting]
    /\ IF reader[r].stale THEN UNCHANGED <<given, said>>
       ELSE /\ said' = [what |-> what, stop |-> reader[r].of, data |-> data]
            /\ given' = given \cup gives
    /\ UNCHANGED shown

\* An answer at once.
Tells(what, stop, data, gives) ==
    /\ asked < MaxAsked /\ asked' = asked + 1 /\ shown # Nothing
    /\ said' = [what |-> what, stop |-> stop, data |-> data]
    /\ given' = given \cup gives
    /\ UNCHANGED <<machine, stopVars, stopping, shown, refused, reader>>

Frame(g, stop) == [kind |-> "frame", id |-> g, stop |-> stop]
Reference(id, stop) == [kind |-> "handle", id |-> id, stop |-> stop]
\* page(): whatever frames there are.
Page(stop) == IF stack.gen = -1 THEN {} ELSE {Frame(stack.gen, stop)}
PageOf(r) == Answers(r, "stack", IF stack.of = Nothing THEN {} ELSE {stack.of}, Page(reader[r].of))
----------------------------------------------------------------------------
(***************************************************************************)
(* stackTrace.                                                              *)
(***************************************************************************)
\* A machine frame of the registers, where no context could be captured.
TraceRegisters(r) ==
    /\ context = Nothing
    /\ \/ /\ cachedRegs = Nothing
          /\ Ask(r, [Resting EXCEPT !.at = "registers", !.of = shown])
          /\ UNCHANGED <<given, said>>
       \/ /\ cachedRegs # Nothing
          /\ Tells("registers", shown, {cachedRegs}, {})
    /\ UNCHANGED <<traceVars, handleVars>>

GotRegisters(r) ==
    /\ reader[r].at = "registers"
    /\ \E ok \in BOOLEAN : MayRefuse(ok) /\ cachedRegs' = IF ok THEN moment ELSE cachedRegs
    /\ Answers(r, "registers", {cachedRegs'} \ {Nothing}, {})
    /\ UNCHANGED <<machine, gen, context, traceVars, handleVars, stopping, asked>>

\* capture(): what is there is used, what is under way is joined.
Joins == /\ pending # Nothing /\ reader[pending].gen = gen /\ reader[pending].ctx = context
TraceCfi(r) ==
    /\ context # Nothing /\ ~traced
    /\ \/ /\ stack.gen = gen
          /\ Tells("stack", shown, {stack.of}, Page(shown))
          /\ UNCHANGED <<stack, revision, pending>>
       \/ /\ stack.gen # gen /\ Joins
          /\ Ask(r, [Resting EXCEPT !.at = "joined", !.of = shown, !.rev = pending])
          /\ UNCHANGED <<stack, revision, pending, given, said>>
       \/ /\ stack.gen # gen /\ ~Joins
          /\ Ask(r, [Resting EXCEPT !.at = "unwind", !.of = shown, !.gen = gen, !.ctx = context,
                                    !.rev = revision + 1])
          /\ revision' = revision + 1 /\ pending' = r
          /\ UNCHANGED <<stack, given, said>>
    /\ UNCHANGED <<history, traced, handleVars>>

\* Mutant: frames are kept whatever happened while they were collected.
AnyRevision(r) == TRUE
SameRevision(r) == reader[r].rev = revision

\* Those that joined a capture get its result with it.
Ends(r) ==
    [q \in Readers |-> IF q = r \/ (reader[q].at = "joined" /\ reader[q].rev = r) THEN Resting ELSE reader[q]]
Waiting(r) == {q \in Readers : (q = r \/ (reader[q].at = "joined" /\ reader[q].rev = r)) /\ ~reader[q].stale}

\* unwind(): memory that cannot be read ends it, honestly or not.
Unwound(r) ==
    LET e == reader[r] IN
    /\ e.at = "unwind"
    /\ \E ok \in BOOLEAN :
          /\ MayRefuse(ok)
          /\ IF SameRevision(r)
             THEN /\ stack' = [gen |-> e.gen, of |-> e.ctx.moment, whole |-> ok /\ StillCurrent(e.ctx)]
                  /\ \/ /\ Waiting(r) = {} /\ UNCHANGED <<given, said>>
                     \/ \E q \in Waiting(r) :
                           /\ said' = [what |-> "stack", stop |-> reader[q].of, data |-> {e.ctx.moment}]
                           /\ given' = given \cup {Frame(e.gen, reader[w].of) : w \in Waiting(r)}
             ELSE UNCHANGED <<stack, given, said>>
    /\ reader' = Ends(r)
    /\ pending' = IF pending = r THEN Nothing ELSE pending
    /\ UNCHANGED <<machine, stopVars, revision, history, traced, handleVars, stopping, shown, asked>>

\* reconstructFunctionChain: joined by generation, and checked around each query.
Collected == history # Nothing /\ history.gen = gen
TraceHistory(r) ==
    /\ context # Nothing /\ traced
    /\ \/ /\ Collected /\ history.by = Nothing
          /\ Tells("stack", shown, {stack.of} \ {Nothing}, Page(shown))
          /\ UNCHANGED history
       \/ /\ Collected /\ history.by # Nothing
          /\ Ask(r, [Resting EXCEPT !.at = "joined", !.of = shown, !.rev = history.by])
          /\ UNCHANGED <<history, given, said>>
       \/ /\ ~Collected
          /\ Ask(r, [Resting EXCEPT !.at = "trace", !.of = shown, !.gen = gen, !.ctx = context])
          /\ history' = [gen |-> gen, by |-> r]
          /\ UNCHANGED <<given, said>>
    /\ UNCHANGED <<stack, revision, pending, traced, handleVars>>

TracedInTime(r) == reader[r].gen = gen
Traced(r) ==
    LET e == reader[r]
        mine == history # Nothing /\ history.by = r /\ history.gen = e.gen
    IN  /\ e.at = "trace"
        /\ \E ok \in BOOLEAN :
              /\ MayRefuse(ok)
              /\ IF ok /\ TracedInTime(r)
                 THEN /\ stack' = [gen |-> e.gen, of |-> e.ctx.moment, whole |-> TRUE]
                      /\ history' = IF mine THEN [history EXCEPT !.by = Nothing] ELSE history
                      /\ \/ /\ Waiting(r) = {} /\ UNCHANGED <<given, said>>
                         \/ \E q \in Waiting(r) :
                               /\ said' = [what |-> "stack", stop |-> reader[q].of, data |-> {e.ctx.moment}]
                               /\ given' = given \cup {Frame(e.gen, reader[w].of) : w \in Waiting(r)}
                 ELSE /\ history' = IF mine THEN Nothing ELSE history
                      /\ UNCHANGED <<stack, given, said>>
        /\ reader' = Ends(r)
        /\ UNCHANGED <<machine, stopVars, revision, pending, traced, handleVars, stopping, shown, asked>>
----------------------------------------------------------------------------
(***************************************************************************)
(* scopes, variables and evaluate.                                          *)
(***************************************************************************)
FrameIs(g) == context # Nothing /\ stack.gen = gen /\ g = gen
Handle(kind, ctx, loc) == [id |-> nextHandle, kind |-> kind, ctx |-> ctx, loc |-> loc]
Gives(kind, ctx, loc) ==
    /\ nextHandle < MaxHandles
    /\ handles' = handles \cup {Handle(kind, ctx, loc)} /\ nextHandle' = nextHandle + 1

\* A frame that is not of this stop has no scopes.
Scopes ==
    \E f \in given :
       /\ f.kind = "frame" /\ FrameIs(f.id)
       /\ Gives("scope", Nothing, stack.of)
       /\ Tells("scopes", f.stop, {}, {Reference(nextHandle, f.stop)})
       /\ UNCHANGED traceVars

Held(id) == {h \in handles : h.id = id}

\* A scope is read of the stop that is current when it is asked for, the children
\* of a value of the stop it was read of.
Variables(r) ==
    /\ \E g \in given :
          /\ g.kind = "handle"
          /\ \E h \in Held(g.id) :
                /\ h.kind = "scope" => FrameIs(gen)
                /\ Ask(r, [Resting EXCEPT !.at = "read", !.of = g.stop,
                             !.ctx = IF h.kind = "scope" THEN context ELSE h.ctx,
                             !.loc = h.loc, !.gen = IF h.kind = "scope" THEN 1 ELSE 0])
    /\ UNCHANGED <<traceVars, handleVars, given, said>>

\* Values of the read, and a handle for one that has children: of the context of
\* now for those of a scope, of their own for the others.
Read(r) ==
    LET e == reader[r]
        ctx == IF e.gen = 1 THEN context ELSE e.ctx
    IN  /\ e.at = "read"
        /\ \E ok \in BOOLEAN :
              /\ MayRefuse(ok)
              /\ LET data == IF ok /\ StillCurrent(e.ctx) THEN {moment, e.loc} ELSE {}
                 IN  \/ Gives("value", ctx, e.loc)
                        /\ Answers(r, "variables", data, {Reference(nextHandle, e.of)})
                     \/ UNCHANGED handleVars /\ Answers(r, "variables", data, {})
        /\ UNCHANGED <<machine, stopVars, traceVars, stopping, asked>>

\* With a frame of this stop, or of the stop itself; also while the program runs
\* as far as VS Code knows.
Evaluate(r) ==
    /\ context # Nothing
    /\ Asks(r, [Resting EXCEPT !.at = "evaluate", !.of = IF shown = Nothing THEN moment ELSE shown,
                               !.ctx = context, !.gen = gen, !.loc = context.moment])
    /\ UNCHANGED <<traceVars, handleVars, given, said>>

\* An evaluation that outlives its stop fails.
Evaluated(r) ==
    LET e == reader[r] IN
    /\ e.at = "evaluate"
    /\ \E ok \in BOOLEAN :
          /\ MayRefuse(ok)
          /\ \/ /\ e.gen = gen /\ UNCHANGED handleVars
                /\ Answers(r, "evaluate", IF ok /\ StillCurrent(e.ctx) THEN {moment, e.loc} ELSE {}, {})
             \/ /\ e.gen = gen /\ Gives("value", e.ctx, e.loc)
                /\ Answers(r, "evaluate", IF ok /\ StillCurrent(e.ctx) THEN {moment, e.loc} ELSE {},
                           {Reference(nextHandle, e.of)})
             \/ e.gen # gen /\ UNCHANGED handleVars /\ Answers(r, "evaluate", {}, {})
    /\ UNCHANGED <<machine, stopVars, traceVars, stopping, asked>>

\* cleanup(): the session is over for the adapter.
Cleanup ==
    /\ stopping = "no" /\ ~running /\ shown # Nothing
    /\ cachedRegs' = Nothing /\ Invalidate /\ Continued
    /\ UNCHANGED <<machine, stopping, asked, refused>>

InspectionInit ==
    /\ moment = 0 /\ running = TRUE /\ gen = 0 /\ context = Nothing /\ cachedRegs = Nothing
    /\ stack = NoStack /\ revision = 0 /\ pending = Nothing /\ history = Nothing
    /\ traced \in BOOLEAN /\ handles = {} /\ nextHandle = 1
    /\ reader = [r \in Readers |-> Resting] /\ stopping = "no"
    /\ shown = Nothing /\ given = {} /\ said = Silent /\ asked = 0 /\ refused = 0 /\ kept = FALSE

Finishes(r) == GotRegisters(r) \/ Unwound(r) \/ Traced(r) \/ Read(r) \/ Evaluated(r)

InspectionNext ==
    \/ Refreshed \/ Stops \/ Runs \/ LetsGo \/ LetGo \/ Reboot \/ WasReset \/ StepOne \/ Executed \/ Cleanup
    \/ Scopes
    \/ \E r \in Readers : \/ TraceRegisters(r) \/ TraceCfi(r) \/ TraceHistory(r)
                          \/ Variables(r) \/ Evaluate(r) \/ Finishes(r)

InspectionSpec == InspectionInit /\ [][InspectionNext]_inspectionVars
----------------------------------------------------------------------------
(* A stack, a variable or an evaluation that VS Code uses is made of registers *)
(* and memory of the one stop it was asked for, although control overtakes     *)
(* reads, a stop is captured twice and references are used late.              *)
AnswersAreOfTheirStop ==
    /\ InspectionTypeOK
    /\ said.what \in {"stack", "variables", "evaluate"} /\ ~kept => said.data \subseteq {said.stop}

(* A frame VS Code was given of the stop that is current stays open until the  *)
(* program goes on, and its stack is whole: a capture begun before the stop    *)
(* was captured again neither replaces it late nor leaves it cut off where its  *)
(* memory became unavailable.                                              *)
FramesStayOpen ==
    \A f \in given : f.kind = "frame" /\ f.id = gen =>
                         stack.gen = gen /\ (refused = 0 => stack.whole)
=============================================================================
