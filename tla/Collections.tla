---------------------------- MODULE Collections ----------------------------
(***************************************************************************)
(* Four collections live in the emulator: scripts, watchpoints, memory      *)
(* edits and performance tests.  For each the extension has a service that  *)
(* keeps a mirror of it (ScriptService, WatchpointService,                  *)
(* MemoryEditService, PerformanceService) and a panel that shows the mirror  *)
(* and changes the collection.  The four follow one scheme and differ in    *)
(* the steps of their operations, so they are one module: "view" says which  *)
(* of them a behaviour is about.                                            *)
(*                                                                         *)
(* An operation is a job.  A service runs one job at a time; a job is a      *)
(* sequence of commands, each a round trip to the emulator, and between two *)
(* of them the panel, the session and other clients of the emulator act.    *)
(* Losing the session rejects the command in flight and everything queued   *)
(* (IpcClient), so it ends every job at once.                               *)
(***************************************************************************)
EXTENDS Integers, Sequences, FiniteSets, FiniteSetsExt

CONSTANTS None,         \* no entry, no message, a refusal
          Views,        \* the services explored: a subset of ViewNames
          Shared,       \* those whose collection other clients change too
          Ids,          \* identifiers the emulator hands out (addresses, for edits)
          Texts,        \* what an entry holds besides its activity
          MaxEvents,    \* bound, on all together: changes the user asks for, commands that fail,
                        \* changes by other clients, the panel shown or hidden, the program
                        \* started or stopped, sessions lost
          MaxQueue      \* bound: jobs waiting or running

ViewNames == {"scripts", "watchpoints", "edits", "performance"}

ASSUME CollectionsAssumption ==
    /\ Views \subseteq ViewNames /\ Shared \subseteq ViewNames
    /\ Ids \subseteq Nat \ {0} /\ IsFiniteSet(Ids) /\ Texts # {}
    /\ {MaxEvents, MaxQueue} \subseteq Nat

Entry == [text : Texts, on : BOOLEAN]
Collection == [Ids -> Entry \cup {None}]
Empty == [i \in Ids |-> None]
ASSUME NoneIsNoCollection == None \notin Collection
Active(c) == {i \in Ids : c[i] # None /\ c[i].on}
\* Mutant: the new record holds nothing else.
OnlyOff(e) == [on |-> FALSE]
Off(e) == [e EXCEPT !.on = FALSE]

VARIABLES
    view,        \* the service and panel of this behaviour
    session,     \* sessions opened so far; the number of the last one
    up,          \* the coordinator is connected and has server information
    supported,   \* the emulator advertises what the service needs
    coll,        \* the emulator's collection
    rev,         \* its update counter
    overtaken,   \* history: a change no list has shown is behind a counter the service takes over
    mirror,      \* the service's entries
    known,       \* its revision or updateCounter, -1 when undefined
    generation,  \* sessionGeneration
    queue,       \* its jobs, the running one first
    running,     \* the first job has begun
    todo,        \* the commands it has still to exchange, the current one first
    failing,     \* it has thrown; what it still does is its clean-up
    wire,        \* the current command is "sent" or "answered"; else "idle"
    answer,      \* its answer
    visible,     \* the panel is visible and ready
    polling,     \* its timer is set
    refreshing,  \* the RefreshController's drain: "idle", "current", or "stale" after stop()
    again,       \* its pending flag
    waiting,     \* who awaits the drain: "sync" and "poll" (its timer, to be set again)
    message,     \* the webview message on its way to the panel
    dialog,      \* the modal question that waits for an answer
    banner,      \* the state the panel shows
    undisturbed, \* nothing but the user's own changes has happened
    events       \* how many of what MaxEvents bounds

service == <<mirror, known, generation, queue, running, todo, failing, wire, answer>>
panel == <<visible, polling, refreshing, again, waiting, message, dialog, banner>>
emulator == <<coll, rev, overtaken>>
link == <<view, session, up, supported>>
bounds == <<undisturbed, events>>
vars == <<service, panel, emulator, link, bounds>>

\* The panels built on RefreshController recheck the generation after each wait.
Guarded == view \in {"edits", "performance"}
Counted == ~Guarded      \* the other services poll an update counter
----------------------------------------------------------------------------
(***************************************************************************)
(* The operations.  A job names the operation, its entry, the value, and    *)
(* the session in which the user asked for it (0: nobody did).              *)
(***************************************************************************)
Job(op, i, e, asked, sync) == [op |-> op, id |-> i, value |-> e, asked |-> asked, sync |-> sync]
Cmd(kind, i, e) == [kind |-> kind, id |-> i, value |-> e]
Plain(kind) == Cmd(kind, 0, None)

\* What re-reading the collection takes: the counter is a second command only
\* where the list does not carry it.
Reread == IF view = "watchpoints" THEN <<Plain("getAll"), Plain("getUpdates")>> ELSE <<Plain("getAll")>>

\* A mirror is sorted by identifier.
ById(S) ==
    LET places == 1..Cardinality(S)
    IN  CHOOSE ids \in [places -> S] : \A m, n \in places : m < n => ids[m] < ids[n]

\* One command per active entry, each built from the mirror of this moment.
DisableEach ==
    LET ids == ById(Active(mirror))
    IN  [n \in 1..Len(ids) |-> Cmd("put", ids[n], Off(mirror[ids[n]]))]
ForAll(kind) ==
    LET ids == ById({i \in Ids : mirror[i] # None})
    IN  [n \in 1..Len(ids) |-> Cmd(kind, ids[n], None)]

ScriptCommands(j) ==
    CASE j.op = "add" -> <<Cmd("add", 0, j.value)>>
      [] j.op \in {"edit", "activity"} -> <<Cmd("put", j.id, j.value)>>
      [] j.op \in {"compile", "runOnce"} -> <<Cmd("touch", j.id, None)>>
      [] j.op = "disable" -> <<Cmd("disable", j.id, None)>>
      [] j.op = "delete" -> <<Cmd("delete", j.id, None)>> \o Reread
      [] j.op \in {"disableAll", "deleteAll"} -> <<Plain(j.op)>> \o Reread

WatchpointCommands(j) ==
    CASE j.op = "add" -> <<Cmd("add", 0, j.value)>> \o Reread
      [] j.op = "edit" -> <<Cmd("put", j.id, j.value)>> \o Reread
      [] j.op = "delete" -> <<Cmd("delete", j.id, None)>> \o Reread
      [] j.op = "disableAll" -> DisableEach \o Reread
      [] j.op = "deleteAll" -> <<Plain("deleteAll")>> \o Reread

\* Mutant: a switch writes the record the panel sent.
EditCommandsFromPanel(j) ==
    CASE j.op \in {"apply", "edit", "activity"} -> <<Cmd("put", j.id, j.value)>> \o Reread
      [] j.op = "disableAll" -> DisableEach \o Reread
      [] j.op \in {"delete", "restore"} -> <<Cmd(j.op, j.id, None)>> \o Reread
      [] j.op = "deleteAll" -> <<Plain("deleteAll")>> \o Reread
      [] j.op = "restoreAll" -> ForAll("restore") \o Reread
      [] OTHER -> <<Cmd("restore", j.id, None)>> \o Reread

EditCommands(j) ==
    CASE j.op \in {"apply", "edit"} -> <<Cmd("put", j.id, [j.value EXCEPT !.on = TRUE])>> \o Reread
      [] j.op = "activity" -> <<Cmd("put", j.id, [mirror[j.id] EXCEPT !.on = j.value.on])>> \o Reread
      [] j.op = "disableAll" -> DisableEach \o Reread
      [] j.op = "delete" -> <<Cmd("delete", j.id, None)>> \o Reread
      [] j.op = "deleteAll" -> <<Plain("deleteAll")>> \o Reread
      [] j.op = "restore" -> <<Cmd("restore", j.id, None)>> \o Reread
      [] j.op = "restoreAll" -> ForAll("restore") \o Reread
      [] j.op = "retain" -> <<Cmd("restore", j.id, None), Cmd("put", j.id, Off(mirror[j.id]))>> \o Reread

PerformanceCommands(j) ==
    CASE j.op = "add" -> <<Cmd("add", 0, j.value)>> \o Reread
      [] j.op = "edit" -> <<Cmd("put", j.id, j.value)>> \o Reread
      [] j.op = "activity" -> <<Cmd("put", j.id, [mirror[j.id] EXCEPT !.on = j.value.on])>> \o Reread
      [] j.op = "disableAll" -> DisableEach \o Reread
      [] j.op = "delete" -> <<Cmd("delete", j.id, None)>> \o Reread
      [] j.op = "deleteAll" -> <<Plain("deleteAll")>> \o Reread

Commands(j) ==
    IF j.op = "refresh" THEN Reread
    ELSE IF j.op = "poll" THEN <<Plain("check")>>
    ELSE CASE view = "scripts" -> ScriptCommands(j)
           [] view = "watchpoints" -> WatchpointCommands(j)
           [] view = "edits" -> EditCommands(j)
           [] view = "performance" -> PerformanceCommands(j)

\* requireEntry: operations that give up before they send anything.
NeedsEntry(j) == CASE view = "watchpoints" -> FALSE
                   [] OTHER -> j.op \in {"edit", "activity", "compile", "runOnce", "disable",
                                         "delete", "restore", "retain"}

\* What the operation checks once its commands have succeeded.
Achieved(j) ==
    CASE j.op \in {"delete", "restore"} -> mirror'[j.id] = None
      [] j.op \in {"deleteAll", "restoreAll"} -> mirror' = Empty
      [] j.op = "disableAll" -> view = "scripts" \/ Active(mirror') = {}
      [] j.op \in {"edit", "apply", "activity", "retain"} /\ view # "scripts" -> mirror'[j.id] # None
      [] OTHER -> TRUE

\* Clean-up after a failure: what the catch and finally clauses still send.
Cleanup(j, c) ==
    LET rereads ==
          \/ view = "scripts" /\ j.op \notin {"refresh", "poll"}
          \/ view = "performance" /\ j.op \in {"add", "edit", "activity"}
          \/ view = "performance" /\ j.op = "disableAll" /\ c.kind = "put"
          \/ view = "edits" /\ j.op = "restoreAll" /\ c.kind = "restore"
          \/ view = "edits" /\ j.op = "retain" /\ c.kind = "put"
    IN  IF rereads THEN Reread ELSE <<>>
Event == events < MaxEvents /\ events' = events + 1
Disturb == Event /\ undisturbed' = FALSE
Room == Len(queue) < MaxQueue
----------------------------------------------------------------------------
(***************************************************************************)
(* The panel's side of a refresh.                                           *)
(***************************************************************************)
Shows(b) == banner' = b

\* stop() and clearInterval: what is in flight goes on, but is no longer current.
StopPolling ==
    /\ polling' = FALSE
    /\ refreshing' = IF refreshing = "current" THEN "stale" ELSE refreshing
    /\ again' = FALSE
    /\ waiting' = waiting \ {"poll"}

\* RefreshController.request: join the drain in flight, or begin one.
RequestDrain(who) ==
    /\ waiting' = waiting \cup {who}
    /\ IF refreshing = "idle"
       THEN refreshing' = "current" /\ again' = FALSE
            /\ queue' = Append(queue, Job("refresh", 0, None, 0, FALSE))
       ELSE again' = TRUE /\ UNCHANGED <<refreshing, queue>>

\* ScriptService.refresh shares a refresh that is queued or running.
RequestRefresh(sync) ==
    LET joined == {n \in 1..Len(queue) : queue[n].op = "refresh"}
    IN  queue' = IF view = "scripts" /\ joined # {}
                 THEN [n \in 1..Len(queue) |-> IF n \in joined THEN [queue[n] EXCEPT !.sync = @ \/ sync]
                                                             ELSE queue[n]]
                 ELSE Append(queue, Job("refresh", 0, None, 0, sync))

\* syncSession, for the state and the visibility of the next state.
SyncSession ==
    CASE ~up' -> StopPolling /\ Shows("noSession") /\ UNCHANGED queue
      [] up' /\ ~visible' -> UNCHANGED <<polling, refreshing, again, waiting, banner, queue>>
      [] up' /\ visible' /\ ~supported' -> StopPolling /\ Shows("unsupported") /\ UNCHANGED queue
      [] OTHER -> /\ Shows("loading") /\ UNCHANGED polling
                  /\ IF Guarded THEN RequestDrain("sync")
                     ELSE RequestRefresh(TRUE) /\ UNCHANGED <<refreshing, again, waiting>>

----------------------------------------------------------------------------
(***************************************************************************)
(* The end of a job: its promise settles and the panel's code that awaited  *)
(* it runs.                                                                 *)
(***************************************************************************)
\* Mutant: after a failed refresh the timer is not set again.
DrainGivesUp(ok) ==
    /\ refreshing' = "idle" /\ waiting' = {} /\ UNCHANGED again
    /\ queue' = Tail(queue)
    /\ polling' = (visible /\ up /\ supported /\ ok /\ (polling \/ waiting # {}))
    /\ Shows(IF ok THEN "ready" ELSE "error")

\* The drain of a guarded panel: once more, or settle for everyone who waits.
DrainGoesOn(ok) ==
    LET heard == refreshing = "current"
        fails == heard /\ ~ok
        enabled == visible /\ up /\ supported
    IN  IF ~fails /\ again /\ enabled
        THEN /\ refreshing' = "current" /\ again' = FALSE
             /\ queue' = Append(Tail(queue), Job("refresh", 0, None, 0, FALSE))
             /\ IF ok /\ heard THEN Shows("ready") ELSE UNCHANGED banner
             /\ UNCHANGED <<polling, waiting>>
        ELSE /\ refreshing' = "idle" /\ waiting' = {} /\ UNCHANGED again
             /\ queue' = Tail(queue)
             /\ polling' = (enabled /\ (polling \/ "poll" \in waiting \/ (~fails /\ "sync" \in waiting)))
             /\ CASE fails -> Shows(IF waiting = {} THEN banner ELSE "error")
                  [] ~fails /\ (heard \/ "sync" \in waiting) -> Shows("ready")
                  [] OTHER -> UNCHANGED banner

\* Mutant: the timer is set without asking whether the panel is still visible.
JobEndsBlindly(ok) ==
    LET j == Head(queue)
    IN  /\ running' = FALSE /\ failing' = FALSE /\ todo' = <<>> /\ wire' = "idle" /\ answer' = None
        /\ IF Guarded /\ j.op = "refresh" THEN DrainGoesOn(ok)
           ELSE /\ queue' = Tail(queue) /\ polling' = (polling \/ (ok /\ j.sync))
                /\ Shows(IF ok THEN "ready" ELSE "error")
                /\ UNCHANGED <<refreshing, again, waiting>>

JobEnds(ok) ==
    LET j == Head(queue)
    IN  /\ running' = FALSE /\ failing' = FALSE /\ todo' = <<>> /\ wire' = "idle" /\ answer' = None
        /\ IF Guarded /\ j.op = "refresh" THEN DrainGoesOn(ok)
           ELSE /\ queue' = Tail(queue)
                /\ polling' = (polling \/ (ok /\ j.sync /\ visible))
                /\ CASE ~ok -> Shows("error")
                     [] ok /\ (j.sync \/ (j.op # "poll" /\ view # "watchpoints")) -> Shows("ready")
                     [] OTHER -> UNCHANGED banner
                /\ UNCHANGED <<refreshing, again, waiting>>

\* The next commands of the running job, or its end when there are none.
Continue(rest, bad) ==
    IF rest # <<>>
    THEN /\ todo' = rest /\ failing' = bad /\ wire' = "sent" /\ running' = TRUE /\ answer' = None
         /\ UNCHANGED <<queue, polling, refreshing, again, waiting, banner>>
    ELSE JobEnds(~bad)

Begin ==
    /\ queue # <<>> /\ ~running
    /\ LET j == Head(queue)
       IN  CASE ~supported -> JobEnds(FALSE)
             [] supported /\ NeedsEntry(j) /\ mirror[j.id] = None -> Continue(Cleanup(j, Plain("entry")), TRUE)
             [] OTHER -> Continue(Commands(j), FALSE)
    /\ UNCHANGED <<mirror, known, generation, visible, message, dialog, emulator, link, bounds>>

\* While the program runs, an emulator may not allow changes: the job ends unsent.
NotWhileRunning ==
    /\ queue # <<>> /\ ~running /\ Counted
    /\ Head(queue).op \notin {"refresh", "poll"}
    /\ JobEnds(FALSE)
    /\ UNCHANGED <<mirror, known, generation, visible, message, dialog, emulator, link, bounds>>

----------------------------------------------------------------------------
(***************************************************************************)
(* The emulator executes the command on the wire.                           *)
(***************************************************************************)
Answer(ok, c, i) == [ok |-> ok, coll |-> c, rev |-> rev', id |-> i]
Free == {i \in Ids : coll[i] = None}

\* The collection after command c, or None (refused) when it names no entry or is full.
Executed(c) ==
    CASE c.kind \in {"check", "getUpdates", "getAll"} -> coll
      [] c.kind = "add" -> IF Free = {} THEN None ELSE [coll EXCEPT ![Min(Free)] = c.value]
      [] c.kind = "put" /\ (view = "edits" \/ coll[c.id] # None) -> [coll EXCEPT ![c.id] = c.value]
      [] c.kind = "touch" /\ coll[c.id] # None -> coll
      [] c.kind = "disable" /\ coll[c.id] # None -> [coll EXCEPT ![c.id] = Off(@)]
      [] c.kind \in {"delete", "restore"} /\ coll[c.id] # None -> [coll EXCEPT ![c.id] = None]
      [] c.kind = "deleteAll" -> Empty
      [] c.kind = "disableAll" -> [i \in Ids |-> IF coll[i] = None THEN None ELSE Off(coll[i])]
      [] OTHER -> None

Reads(c) == c.kind \in {"check", "getUpdates", "getAll"}

\* ScriptService takes over the counter with the answer to its own change, without a list.
TakesCounterOver(c) == view = "scripts" /\ c.kind \in {"add", "put", "disable", "touch"}

\* WatchpointService has had the list executed, and the counter it asks for next not yet.
BetweenListAndCounter ==
    /\ view = "watchpoints"
    /\ \/ wire = "answered" /\ answer.ok /\ Head(todo).kind = "getAll"
       \/ wire = "sent" /\ Head(todo).kind = "getUpdates"

Execute ==
    /\ wire = "sent" /\ wire' = "answered"
    /\ LET c == Head(todo)
           r == Executed(c)
       IN  IF r = None
           THEN UNCHANGED emulator /\ answer' = Answer(FALSE, coll, 0)
           ELSE /\ coll' = r
                /\ rev' = IF Reads(c) THEN rev ELSE rev + 1
                /\ overtaken' = (c.kind # "getAll" /\ (overtaken \/ (TakesCounterOver(c) /\ rev # known)))
                /\ answer' = Answer(TRUE, r, IF c.kind = "add" THEN Min(Free) ELSE c.id)
    /\ UNCHANGED <<mirror, known, generation, queue, running, todo, failing, panel, link, bounds>>

\* The command has no effect, or has one but its answer is late or malformed.
Fail ==
    /\ wire = "sent" /\ wire' = "answered" /\ Disturb
    /\ \/ UNCHANGED emulator
       \/ /\ Executed(Head(todo)) # None /\ ~Reads(Head(todo))
          /\ coll' = Executed(Head(todo)) /\ rev' = rev + 1 /\ UNCHANGED overtaken
    /\ answer' = Answer(FALSE, coll', 0)
    /\ UNCHANGED <<mirror, known, generation, queue, running, todo, failing, panel, link>>

\* Mutant: a poll remembers the counter before it has re-read the collection.
PublishEarly(j, c, a) ==
    /\ mirror' = IF c.kind = "getAll" THEN a.coll ELSE mirror
    /\ known' = IF c.kind \in {"check", "getUpdates"} THEN a.rev ELSE known

\* publish, applyMutation and readUpdateCounter: what an answer does to the mirror.
Publish(j, c, a) ==
    /\ mirror' = CASE c.kind = "getAll" -> a.coll
                   [] view = "scripts" /\ (c.kind \in {"add", "put", "disable"} \/ (c.kind = "touch" /\ j.op # "runOnce"))
                        -> [mirror EXCEPT ![a.id] = a.coll[a.id]]
                   [] OTHER -> mirror
    /\ known' = CASE c.kind = "getUpdates" -> a.rev
                  [] view = "scripts" /\ (c.kind = "getAll" \/ TakesCounterOver(c)) -> a.rev
                  [] OTHER -> known

\* An answer arrives: the job takes it in and sends its next command or ends.
Receive ==
    /\ wire = "answered"
    /\ LET j == Head(queue)
           c == Head(todo)
           rest == IF c.kind = "check" /\ known # answer.rev THEN Reread ELSE Tail(todo)
       IN  /\ IF answer.ok THEN Publish(j, c, answer) ELSE UNCHANGED <<mirror, known>>
           /\ CASE ~answer.ok -> Continue(IF failing THEN <<>> ELSE Cleanup(j, c), TRUE)
                [] answer.ok /\ rest = <<>> /\ ~failing /\ ~Achieved(j) -> Continue(Cleanup(j, c), TRUE)
                [] OTHER -> Continue(rest, failing)
    /\ UNCHANGED <<generation, visible, message, dialog, emulator, link, bounds>>
----------------------------------------------------------------------------
(***************************************************************************)
(* The user: a message carries the generation of the snapshot it was made   *)
(* from, and a sweeping change is confirmed in a modal dialog.              *)
(***************************************************************************)
\* The messages each panel handles, and those of them it asks back about.
ScriptOperations == {"add", "edit", "activity", "compile", "runOnce", "disable", "disableAll",
                     "delete", "deleteAll"}
WatchpointOperations == {"add", "edit", "delete", "disableAll", "deleteAll"}
EditOperations == {"apply", "edit", "activity", "disableAll", "delete", "deleteAll", "restore",
                   "restoreAll", "retain"}
PerformanceOperations == {"add", "edit", "activity", "disableAll", "delete", "deleteAll"}

Operations ==
    CASE view = "scripts" -> ScriptOperations
      [] view = "watchpoints" -> WatchpointOperations
      [] view = "edits" -> EditOperations
      [] OTHER -> PerformanceOperations

ScriptDialogs == {"disableAll", "deleteAll"}
EditDialogs == {"deleteAll", "restoreAll"}
Dialogs == CASE view = "scripts" -> ScriptDialogs
             [] view = "edits" -> EditDialogs
             [] OTHER -> {"deleteAll"}

Sweeping == {"disableAll", "deleteAll", "restoreAll"}

\* The states of its panel in which a webview offers changes.
WatchpointsOffer == {"ready", "error"}
Offers == IF view = "watchpoints" THEN WatchpointsOffer ELSE {"ready"}

Click ==
    /\ message = None /\ visible /\ up /\ banner \in Offers
    /\ \E op \in Operations, i \in Ids, e \in Entry :
        /\ op \in Sweeping \cup {"add"} => i = Min(Ids)
        /\ op # "edit" => e.text = CHOOSE t \in Texts : TRUE
        /\ op # "activity" => e.on
        /\ message' = [op |-> op, id |-> i, value |-> e, generation |-> generation, asked |-> session]
    /\ Event /\ UNCHANGED undisturbed
    /\ UNCHANGED <<service, visible, polling, refreshing, again, waiting, dialog, banner, emulator, link>>

\* runOperation: the two tables that show progress say so, the service queues the job.
RunOperation(m) ==
    /\ queue' = Append(queue, Job(m.op, m.id, m.value, m.asked, FALSE))
    /\ IF view \in {"scripts", "performance"} THEN Shows("loading") ELSE UNCHANGED banner

\* ScriptService.setActivity builds its input before the job is queued.
Input(m) == IF view = "scripts" /\ m.op = "activity"
            THEN [m EXCEPT !.value = [mirror[m.id] EXCEPT !.on = m.value.on]]
            ELSE m

\* Mutant: the generation of the message is not looked at.
HandleAnyMessage ==
    /\ message # None /\ Room
    /\ message' = None
    /\ IF message.op \in Dialogs THEN dialog' = dialog \cup {message} /\ UNCHANGED <<queue, banner>>
       ELSE RunOperation(message) /\ UNCHANGED dialog
    /\ UNCHANGED <<mirror, known, generation, running, todo, failing, wire, answer, visible, polling,
                   refreshing, again, waiting, emulator, link, bounds>>

HandleMessage ==
    /\ message # None /\ Room
    /\ message' = None
    /\ CASE message.generation # generation -> UNCHANGED <<queue, banner, dialog>>
         [] message.generation = generation /\ message.op \in Dialogs ->
                dialog' = dialog \cup {message} /\ UNCHANGED <<queue, banner>>
         [] message.generation = generation /\ message.op = "activity" /\ view = "scripts"
              /\ mirror[message.id] = None -> Shows("error") /\ UNCHANGED <<queue, dialog>>
         [] OTHER -> RunOperation(Input(message)) /\ UNCHANGED dialog
    /\ UNCHANGED <<mirror, known, generation, running, todo, failing, wire, answer, visible, polling,
                   refreshing, again, waiting, emulator, link, bounds>>

\* The button is pressed.  Only the guarded panels ask whether the session is the same.
Confirm ==
    /\ Room
    /\ \E d \in dialog :
        /\ dialog' = dialog \ {d}
        /\ IF Guarded => d.generation = generation THEN RunOperation(d) ELSE UNCHANGED <<queue, banner>>
    /\ UNCHANGED <<mirror, known, generation, running, todo, failing, wire, answer, visible, polling,
                   refreshing, again, waiting, message, emulator, link, bounds>>

\* The timer: refreshIfChanged each second, or the controller's next request.
Poll ==
    /\ polling /\ Room
    /\ IF Guarded
       THEN polling' = FALSE /\ RequestDrain("poll")
       ELSE /\ \A n \in 1..Len(queue) : queue[n].op # "poll"
            /\ queue' = Append(queue, Job("poll", 0, None, 0, FALSE))
            /\ UNCHANGED <<polling, refreshing, again, waiting>>
    /\ UNCHANGED <<mirror, known, generation, running, todo, failing, wire, answer, visible, message, dialog,
                   banner, emulator, link, bounds>>
----------------------------------------------------------------------------
\* The panel becomes visible or is hidden.
ShowOrHide ==
    /\ Room /\ Disturb
    /\ visible' = ~visible
    /\ UNCHANGED link
    /\ IF visible' THEN SyncSession ELSE StopPolling /\ UNCHANGED <<banner, queue>>
    /\ UNCHANGED <<mirror, known, generation, running, todo, failing, wire, answer, message, dialog, emulator>>

\* A stateChange that keeps the session: the program ran or stopped.
StateChanged ==
    /\ Room /\ up /\ Disturb
    /\ UNCHANGED <<link, visible>>
    /\ SyncSession
    /\ UNCHANGED <<mirror, known, generation, running, todo, failing, wire, answer, message, dialog, emulator>>

\* A session opens on an emulator that may hold anything.
SessionOpens ==
    /\ ~up
    /\ up' = TRUE /\ session' = session + 1 /\ supported' \in BOOLEAN
    /\ \E S \in {{}, Ids} : coll' = [i \in Ids |-> IF i \in S THEN CHOOSE e \in Entry : e.on ELSE None]
    /\ rev' = 0 /\ overtaken' = FALSE
    /\ generation' = IF Guarded THEN generation + 1 ELSE generation
    /\ UNCHANGED <<view, visible>>
    /\ SyncSession
    /\ UNCHANGED <<mirror, known, running, todo, failing, wire, answer, message, dialog, bounds>>

\* The session ends: what was queued and in flight is rejected, the mirror is reset.
SessionLost ==
    /\ up /\ up' = FALSE /\ supported' = FALSE
    /\ Disturb
    /\ generation' = generation + 1
    /\ mirror' = Empty /\ known' = -1
    /\ queue' = <<>> /\ running' = FALSE /\ todo' = <<>> /\ failing' = FALSE /\ wire' = "idle"
    /\ answer' = None
    /\ polling' = FALSE /\ refreshing' = "idle" /\ again' = FALSE /\ waiting' = {}
    /\ Shows(IF Counted /\ queue # <<>> THEN "error" ELSE "noSession")
    /\ UNCHANGED <<view, session, visible, message, dialog, emulator>>

\* Another client of the emulator adds, changes or removes an entry.
OthersChange ==
    /\ up /\ view \in Shared
    /\ \E i \in Ids, e \in {None, CHOOSE x \in Entry : ~x.on} : e # coll[i] /\ coll' = [coll EXCEPT ![i] = e]
    /\ rev' = rev + 1
    /\ overtaken' = (overtaken \/ BetweenListAndCounter)
    /\ Disturb
    /\ UNCHANGED <<service, panel, link>>

Init ==
    /\ view \in Views
    /\ session = 0 /\ up = FALSE /\ supported = FALSE
    /\ coll = Empty /\ rev = 0 /\ overtaken = FALSE /\ mirror = Empty /\ known = -1 /\ generation = 0
    /\ queue = <<>> /\ running = FALSE /\ todo = <<>> /\ failing = FALSE /\ wire = "idle" /\ answer = None
    /\ visible = TRUE /\ polling = FALSE /\ refreshing = "idle" /\ again = FALSE /\ waiting = {}
    /\ message = None /\ dialog = {} /\ banner = "noSession"
    /\ undisturbed = TRUE /\ events = 0

\* A job begins in the microtask after the one before it, ahead of every event.
Next ==
    \/ Begin \/ NotWhileRunning
    \/ /\ running \/ queue = <<>>
       /\ \/ Execute \/ Fail \/ Receive
          \/ Click \/ HandleMessage \/ Confirm \/ Poll
          \/ ShowOrHide \/ StateChanged \/ SessionOpens \/ SessionLost \/ OthersChange

(***************************************************************************)
(* The event loop runs what is ready, the emulator answers what it is asked *)
(* while the session lasts, and a timer that is set fires.                  *)
(***************************************************************************)
Fairness == WF_vars(Begin) /\ WF_vars(Execute) /\ WF_vars(Receive) /\ SF_vars(Poll)

Spec == Init /\ [][Next]_vars /\ Fairness
----------------------------------------------------------------------------
(* The shape of the state: jobs, commands and answers of the service.       *)
TypeOK ==
    /\ view \in Views /\ session \in Nat /\ up \in BOOLEAN /\ supported \in BOOLEAN
    /\ coll \in Collection /\ mirror \in Collection
    /\ rev \in Nat /\ known \in Int /\ generation \in Nat /\ overtaken \in BOOLEAN
    /\ running \in BOOLEAN /\ failing \in BOOLEAN /\ visible \in BOOLEAN
    /\ Len(queue) <= MaxQueue + 1
    /\ wire # "idle" <=> todo # <<>>
    /\ running <=> todo # <<>>
    /\ refreshing \in {"idle", "current", "stale"} /\ again \in BOOLEAN /\ polling \in BOOLEAN
    /\ waiting \subseteq {"sync", "poll"}
    /\ banner \in {"noSession", "unsupported", "loading", "ready", "error"}

(* The services that poll a counter re-read the collection only when the     *)
(* counter has moved: whenever the counter they remember is the emulator's   *)
(* and no job is running, their entries must be the emulator's too, through   *)
(* every mixture of refused commands, lost answers, changes by other clients  *)
(* and new sessions.  Two orders break that in the code, and only they:       *)
(* another client changes the watchpoints after the list has been read and    *)
(* before the counter is (watchpoint-service.ts:67-78), and ScriptService     *)
(* takes over the counter of its own change when one it has not read came     *)
(* before (script-service.ts:234-239).  The next list makes up for either.    *)
UnchangedMeansCurrent ==
    Counted /\ up /\ queue = <<>> /\ known = rev => mirror = coll \/ overtaken

(* A change the user asks for reaches only the session he asked it in, and  *)
(* never its successor, however long the message, the dialog or the queue    *)
(* took.  Watchpoints and scripts do not recheck after their dialogs.        *)
AskedHere ==
    [][\A op \in Operations : wire = "sent" /\ wire' # "sent" /\ Head(queue).op = op
           /\ (Guarded \/ op \notin Dialogs) => Head(queue).asked = session]_vars

(* Switching an entry on or off leaves what else it holds, also when another *)
(* edit of the same entry was asked for just before: the services build the   *)
(* new record from the entry of the moment the job runs.  ScriptService      *)
(* builds it when the job is queued, and is left out.                        *)
SwitchKeepsText ==
    [][view # "scripts" /\ wire = "sent" /\ coll' # coll /\ undisturbed'
         /\ Head(queue).op \in {"activity", "disableAll"}
         => \A i \in Ids : coll[i] # None /\ coll'[i] # None => coll'[i].text = coll[i].text]_vars

(* A panel that is hidden or has no session has no timer, and once the       *)
(* session is gone nothing of it is left in the mirror and the guarded panels *)
(* say so, whatever answer, failure or dialog comes in later.                *)
QuietWithoutSession ==
    /\ polling => visible /\ up /\ supported
    /\ ~up => mirror = Empty /\ (Guarded => banner = "noSession")

(* What a service shows is what it has read in the session it belongs to:    *)
(* nothing of an earlier one, and nothing older than its counter.            *)
MirrorIsHonest == TypeOK /\ UnchangedMeansCurrent /\ QuietWithoutSession

(* Once a panel polls it goes on polling, failed answers or not, until it is  *)
(* hidden or the session is lost: between two timers a poll is under way.    *)
Polls == polling \/ "poll" \in waiting
PollingGoesOn == [][Polls /\ up' /\ visible' => Polls']_vars

(* While a visible panel polls a session that lasts, the mirror becomes and   *)
(* stays what the emulator holds, whatever fails on the way and whoever else   *)
(* changes the collection; or the counter remembered is the emulator's and    *)
(* hides a change, in one of the two orders named at UnchangedMeansCurrent.   *)
Converges ==
    <>[](up /\ visible) /\ []<>polling => <>[](mirror = coll \/ (overtaken /\ known = rev))

(* What the design says of every panel (v6emul-menu-and-panels-plan.md:238):  *)
(* when the session stops it shows "no session", without a stale error.      *)
NoSessionShown == ~up => banner = "noSession"
=============================================================================
