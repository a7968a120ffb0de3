--------------------------- MODULE ExecutionProofs ---------------------------
(***************************************************************************)
(* Safety of Execution for every number of tasks, requests, stops and      *)
(* refusals: there is one poll loop, and each stop is handled once.        *)
(***************************************************************************)
EXTENDS Execution, FiniteSetTheorems, TLAPS

TaskRecords == [pc : {"idle"} \cup Commands \cup Awaits,
                kind : {"none", "begin", "poll", "continue", "pause",
                        "step", "next", "detach"} \cup Restarts,
                asks : BOOLEAN, current : BOOLEAN, resume : BOOLEAN, record : Records]

Flags == /\ timer \in BOOLEAN
         /\ state \in {"running", "paused", "disconnected"}
         /\ pendingPause \in BOOLEAN /\ pendingStep \in BOOLEAN
         /\ last \in Nat \cup {-1}
         /\ live \in BOOLEAN /\ ui \in {"running", "stopped"} /\ requests \in Nat
         /\ seen \subseteq Nat /\ held \in BOOLEAN

\* The monitor has one poll under way, or one armed timer, or neither.
OnePoller ==
    /\ \A t, u \in Tasks : task[t].current /\ task[u].current => t = u
    /\ timer => \A t \in Tasks : ~task[t].current

\* Stops are numbered upwards and found in that order: what was handled is not
\* newer than the last number remembered, and no answer on its way is older.
Numbered ==
    live => /\ \A n \in seen : n <= last
            /\ last <= seq
            /\ answer # NoAnswer => last <= answer.seq /\ answer.seq <= seq

ExecutionInv == TypeOK /\ OnePoller /\ Numbered

\* What HandledOnce says of one step.
Handled == \A t \in Tasks : task[t].pc # "inspecting" /\ task'[t].pc = "inspecting" =>
              \/ task'[t].record = NoRecord
              \/ task'[t].record.seq \notin seen

\* The number in the answer is the last one from now on, and may be handled.
Takes == answer # NoAnswer /\ last' = answer.seq /\ seen' \subseteq seen \cup {answer.seq}

\* What every continuation of a task has in common: task t goes on as r.
Moved(t, ts, r) ==
    /\ Goes(ts, t, r) /\ ts \in {task, NextRevision} /\ r \in TaskRecords
    /\ task[t].pc \in Commands => wire # <<>>
    /\ Flags' /\ UNCHANGED <<emulator, records, refusals>>
    /\ r.current => task[t].current /\ ts = task
    /\ timer' => timer \/ ts = NextRevision \/ (task[t].current /\ ~r.current)
    /\ live' => live /\ (UNCHANGED <<last, seen>> \/ (Takes /\ task[t].pc \in Commands))
    /\ r.pc = "inspecting" =>
          \/ task[t].pc = "inspecting" \/ r.record = NoRecord
          \/ live /\ answer # NoAnswer /\ answer.seq # last /\ r.record.seq = answer.seq

-----------------------------------------------------------------------------
LEMMA TypedTask == TypeOK => task \in [Tasks -> TaskRecords] /\ Flags
  BY DEF TypeOK, TaskRecords, Flags

LEMMA IdleIsTask == Idle \in TaskRecords /\ ~Idle.current /\ Idle.pc = "idle"
  BY DEF Idle, TaskRecords, NoRecord, Records, Causes

LEMMA AtFields ==
  ASSUME TypeOK, NEW t \in Tasks, NEW pc \in {"idle"} \cup Commands \cup Awaits
  PROVE  /\ At(t, pc) \in TaskRecords /\ At(t, pc).pc = pc
         /\ At(t, pc).current = task[t].current /\ At(t, pc).record = task[t].record
  BY TypedTask DEF At, TaskRecords

LEMMA RevisionIsTasks ==
  ASSUME TypeOK
  PROVE  /\ NextRevision \in [Tasks -> TaskRecords]
         /\ \A u \in Tasks : /\ ~NextRevision[u].current /\ NextRevision[u].pc = task[u].pc
  BY TypedTask DEF NextRevision, TaskRecords

\* A continuation keeps the invariant, and handles no stop twice.
LEMMA MovedKeeps ==
  ASSUME ExecutionInv, NEW t \in Tasks, NEW ts, NEW r, Moved(t, ts, r)
  PROVE  ExecutionInv' /\ Handled
<1> USE DEF ExecutionInv
<1>1. /\ task \in [Tasks -> TaskRecords] /\ ts \in [Tasks -> TaskRecords]
      /\ \A u \in Tasks : ts[u].pc = task[u].pc /\ (ts[u].current => task[u].current /\ ts = task)
  BY TypedTask, RevisionIsTasks DEF Moved
<1>2. task' = [ts EXCEPT ![t] = r]
  BY DEF Moved, Goes
<1>3. answer' \in {answer, NoAnswer}
  BY DEF Moved, Goes
<1>4. wire' \in Seq(Tasks)
  <2>1. task[t].pc \in Commands => Tail(wire) \in Seq(Tasks)
    BY DEF Moved, TypeOK
  <2> QED
    BY <2>1 DEF Moved, Goes, TypeOK
<1>5. TypeOK'
  <2>1. task' \in [Tasks -> TaskRecords]
    BY <1>1, <1>2 DEF Moved
  <2> QED
    BY <1>3, <1>4, <2>1 DEF Moved, TypeOK, TaskRecords, Flags, emulator
<1>6. OnePoller'
  <2>1. \A u \in Tasks : task'[u].current => task[u].current /\ ts = task
    BY <1>1, <1>2 DEF Moved
  <2>2. task'[t] = r
    BY <1>1, <1>2
  <2> QED
    BY <1>1, <2>1, <2>2, RevisionIsTasks DEF OnePoller, Moved
<1>7. Numbered'
  <2> SUFFICES ASSUME live' PROVE Numbered'
    BY DEF Numbered
  <2>1. live /\ seq' = seq
    BY DEF Moved, emulator
  <2>2. last \in Int /\ seq \in Int /\ seen \subseteq Int /\ (answer # NoAnswer => answer.seq \in Int)
    BY DEF TypeOK, Answers
  <2>3. CASE UNCHANGED <<last, seen>>
    BY <1>3, <2>1, <2>3 DEF Numbered
  <2>4. CASE Takes /\ task[t].pc \in Commands
    <3>1. answer' = NoAnswer
      BY <2>4 DEF Moved, Goes
    <3>2. \A n \in seen' : n <= answer.seq
      BY <2>1, <2>2, <2>4 DEF Numbered, Takes
    <3> QED
      BY <2>1, <2>4, <3>1, <3>2 DEF Numbered, Takes
  <2> QED
    BY <2>3, <2>4 DEF Moved
<1>8. Handled
  <2> SUFFICES ASSUME NEW u \in Tasks, task[u].pc # "inspecting", task'[u].pc = "inspecting"
               PROVE  task'[u].record = NoRecord \/ task'[u].record.seq \notin seen
    BY DEF Handled
  <2>1. u = t /\ task'[u] = r
    BY <1>1, <1>2
  <2>2. r.record = NoRecord \/ (live /\ answer # NoAnswer /\ answer.seq # last /\ r.record.seq = answer.seq)
    BY <2>1 DEF Moved
  <2>3. last \in Int /\ seen \subseteq Int /\ (answer # NoAnswer => answer.seq \in Int)
    BY DEF TypeOK, Answers
  <2> QED
    BY <2>1, <2>2, <2>3 DEF Numbered
<1> QED
  BY <1>5, <1>6, <1>7, <1>8

\* The end of every await keeps it.
LEMMA ResumeKeeps ==
  ASSUME ExecutionInv, NEW t \in Tasks, Resume(t)
  PROVE  ExecutionInv' /\ Handled
<1> USE DEF ExecutionInv, rest, world, emulator, flags
<1>a. Flags /\ task[t] \in TaskRecords /\ task \in [Tasks -> TaskRecords]
  BY TypedTask
<1>b. Idle \in TaskRecords /\ ~Idle.current /\ Idle.pc # "inspecting"
  BY IdleIsTask
<1>c. \A pc \in {"idle"} \cup Commands \cup Awaits :
        /\ At(t, pc) \in TaskRecords /\ At(t, pc).pc = pc /\ At(t, pc).current = task[t].current
  BY AtFields
<1>d. \A pc : Answered(t, pc) => task[t].pc = pc /\ wire # <<>> /\ answer \in Answers /\ answer # NoAnswer
  BY DEF Answered, TypeOK
<1>e. \A pc : Ends(t, pc) => task[t].pc = pc
  BY DEF Ends
<1>f. answer \in Answers => answer.seq \in Nat /\ Record \in Records /\ Record.seq = answer.seq
  BY DEF Answers, Record, Records
<1>g. NoRecord \in Records
  BY DEF NoRecord, Records, Causes
\* A stop found by t: the next number, or none.
<1>1. ASSUME NEW ts \in {task, NextRevision}, NEW record \in {NoRecord, Record}, NEW pc, Answered(t, pc),
             Stops(ts, t, record), pc \in Commands, record = Record => live /\ answer.seq # last,
             timer' \in BOOLEAN, timer' => timer /\ ts = task, ui' \in {"running", "stopped"}
      PROVE  ExecutionInv' /\ Handled
  <2> DEFINE r == [At(t, "inspecting") EXCEPT !.record = record, !.current = FALSE]
  <2>a. record \in Records /\ At(t, "inspecting") \in TaskRecords
    BY <1>1, <1>c, <1>d, <1>f, <1>g DEF Awaits
  <2>1. /\ r \in TaskRecords /\ r.record = record /\ ~r.current
    BY <2>a DEF TaskRecords
  <2>b. record = NoRecord \/ (live /\ answer # NoAnswer /\ answer.seq # last /\ record.seq = answer.seq)
    BY <1>1, <1>d, <1>f
  <2>2. /\ UNCHANGED <<emulator, records, refusals, requests, pendingPause, pendingStep, live, held>>
        /\ state' = "paused"
        /\ UNCHANGED <<last, seen>> \/ Takes
    <3>1. CASE record = NoRecord
      BY <1>1, <3>1 DEF Stops
    <3>2. CASE record = Record /\ record # NoRecord
      <4>1. last' = record.seq /\ seen' = seen \cup {record.seq}
        BY <1>1, <3>2 DEF Stops
      <4>2. record.seq = answer.seq /\ answer # NoAnswer
        BY <1>1, <1>d, <1>f, <3>2
      <4>3. Takes
        BY <4>1, <4>2 DEF Takes
      <4> QED
        BY <1>1, <4>3 DEF Stops
    <3> QED
      BY <1>1, <3>1, <3>2
  <2>3. Flags'
    BY <1>1, <1>a, <1>d, <1>f, <2>2 DEF Flags, Takes
  <2>4. Moved(t, ts, r)
    <3>1. Goes(ts, t, r)
      BY <1>1 DEF Stops
    <3> HIDE DEF r
    <3> QED
      BY <1>1, <1>d, <2>1, <2>2, <2>3, <2>b, <3>1 DEF Moved
  <2> QED
    BY <2>4, MovedKeeps
\* An await that ends in another one.
<1>2. ASSUME Flags', UNCHANGED <<emulator, records, refusals>>, live' => live, timer' => timer,
             \/ UNCHANGED <<last, seen>>
             \/ Takes /\ task[t].pc \in Commands,
             NEW pc \in {"idle"} \cup Commands \cup Awaits, pc # "inspecting",
             Becomes(t, At(t, pc)), task[t].pc \in Commands => wire # <<>>
      PROVE  ExecutionInv' /\ Handled
  <2>1. Moved(t, task, At(t, pc))
    BY <1>2, <1>c DEF Moved, Becomes
  <2> QED
    BY <2>1, MovedKeeps
\* A task that is over, and what it leaves.
<1>3. ASSUME Flags', UNCHANGED <<emulator, records, refusals, last, seen>>, live' => live,
             NEW ts \in {task, NextRevision},
             Goes(ts, t, Idle), task[t].pc \in Commands => wire # <<>>,
             timer' => timer \/ task[t].current \/ ts = NextRevision
      PROVE  ExecutionInv' /\ Handled
  <2>1. Moved(t, ts, Idle)
    BY <1>3, <1>b DEF Moved
  <2> QED
    BY <2>1, MovedKeeps
<1>4. ASSUME Abort(t), task[t].pc \in Commands => wire # <<>> PROVE ExecutionInv' /\ Handled
  <2>1. Flags' /\ UNCHANGED <<emulator, records, refusals, last, seen>> /\ (live' => live) /\ (timer' => timer)
    BY <1>4, <1>a DEF Abort, Flags
  <2>2. Goes(NextRevision, t, Idle) \/ Goes(task, t, Idle)
    BY <1>4 DEF Abort, Becomes
  <2> QED
    BY <1>3, <1>4, <2>1, <2>2
<1>5. CASE Refused(t)
  BY <1>4, <1>5, <1>d DEF Refused
<1>6. CASE Stale(t)
  BY <1>4, <1>6 DEF Stale, Commands
<1>7. CASE Synchronized(t)
  <2>1. task[t].pc = "syncing" /\ Flags' /\ UNCHANGED <<emulator, records, refusals, last, seen, live, timer>>
    BY <1>7, <1>a, <1>e DEF Synchronized, SendRun, Flags
  <2>2. Becomes(t, At(t, "basing")) \/ Becomes(t, At(t, "starting"))
    BY <1>7 DEF Synchronized, SendRun
  <2> QED
    BY <1>2, <2>1, <2>2 DEF Commands
<1>8. CASE Based(t) \/ Rebased(t) \/ Aimed(t)
  <2>1. /\ task[t].pc \in Commands /\ wire # <<>> /\ Flags' /\ UNCHANGED <<emulator, records, refusals, live, timer>>
        /\ Takes
    BY <1>8, <1>a, <1>d, <1>f DEF Based, Rebased, Aimed, SendRun, Flags, Takes, Commands
  <2>2. \/ Becomes(t, At(t, "starting")) \/ Becomes(t, At(t, "resuming")) \/ Becomes(t, At(t, "stepping"))
    BY <1>8 DEF Based, Rebased, Aimed, SendRun
  <2> QED
    BY <1>2, <2>1, <2>2 DEF Commands
<1>9. ASSUME Runs(t), wire # <<>>, ui' \in {"running", "stopped"} PROVE ExecutionInv' /\ Handled
  BY <1>3, <1>9, <1>a DEF Runs, Flags
<1>10. CASE Started(t)
  BY <1>9, <1>10, <1>d DEF Started
<1>11. CASE Resumed(t)
  <2>1. wire # <<>>
    BY <1>11, <1>d DEF Resumed
  <2>2. CASE Acknowledged
    BY <1>9, <1>11, <1>a, <2>1, <2>2 DEF Resumed, Flags
  <2>3. CASE ~Acknowledged /\ live
    <3>1. Flags' /\ UNCHANGED <<emulator, records, refusals, last, seen, live, timer>>
      BY <1>11, <1>a, <2>3 DEF Resumed, Flags
    <3> QED
      BY <1>3, <1>11, <2>1, <2>3, <3>1 DEF Resumed, Becomes
  <2>4. CASE ~Acknowledged /\ ~live
    BY <1>4, <1>11, <2>1, <2>4 DEF Resumed
  <2> QED
    BY <2>2, <2>3, <2>4
<1>12. CASE Inspected(t)
  <2>1. task[t].pc \notin Commands
    BY <1>12, <1>e DEF Inspected, Commands
  <2>2. CASE Publish(t)
    <3>1. Flags' /\ UNCHANGED <<emulator, records, refusals, last, seen, live, timer>>
      BY <1>a, <2>2 DEF Publish, Flags
    <3> QED
      BY <1>3, <2>1, <2>2, <3>1 DEF Publish, Becomes
  <2>3. CASE Becomes(t, At(t, "rebasing")) /\ UNCHANGED <<rest, timer, flags, ui>>
    <3>1. Flags'
      BY <1>a, <2>3 DEF Flags
    <3> QED
      BY <1>2, <2>1, <2>3, <3>1 DEF Commands
  <2> QED
    BY <1>4, <1>12, <2>1, <2>2, <2>3 DEF Inspected
<1>13. ASSUME Schedule(t), wire # <<>> PROVE ExecutionInv' /\ Handled
  <2>1. Flags' /\ UNCHANGED <<emulator, records, refusals, last, seen, live>> /\ (timer' => timer \/ task[t].current)
    BY <1>13, <1>a DEF Schedule, Flags, TaskRecords
  <2> QED
    BY <1>3, <1>13, <2>1 DEF Schedule, Becomes
<1>14. ASSUME Silenced(t), wire # <<>> PROVE ExecutionInv' /\ Handled
  <2>1. Flags' /\ UNCHANGED <<emulator, records, refusals, last, seen, live>> /\ (timer' => timer \/ task[t].current)
    BY <1>14, <1>a DEF Silenced, Flags, TaskRecords
  <2> QED
    BY <1>3, <1>14, <2>1 DEF Silenced
<1>15. CASE Dropped(t)
  BY <1>13, <1>15, <1>d DEF Dropped
<1>16. CASE Polled(t)
  <2>1. Answered(t, "asking") /\ wire # <<>> /\ task[t].pc \in Commands
    BY <1>16, <1>d DEF Polled, Commands
  <2>2. CASE Becomes(t, At(t, "reading")) /\ UNCHANGED <<rest, timer, flags, ui>>
    <3>1. Flags'
      BY <1>a, <2>2 DEF Flags
    <3> QED
      BY <1>2, <2>1, <2>2, <3>1 DEF Commands
  <2>3. CASE Stops(NextRevision, t, NoRecord) /\ timer' = FALSE /\ UNCHANGED ui
    <3>1. NoRecord # Record
      BY <1>d, <1>f, <2>1 DEF NoRecord, Record
    <3> QED
      BY <1>1, <1>a, <2>1, <2>3, <3>1 DEF Commands, Flags
  <2> QED
    BY <1>13, <1>14, <1>16, <2>1, <2>2, <2>3 DEF Polled
<1>17. CASE Read(t)
  <2>1. Answered(t, "reading") /\ wire # <<>> /\ NoRecord # Record
    BY <1>17, <1>d, <1>f DEF Read, NoRecord, Record
  <2>2. CASE ~Acknowledged \/ (answer.seq = last /\ ~pendingPause)
    BY <1>13, <1>14, <1>17, <2>1, <2>2 DEF Read
  <2>3. CASE Acknowledged /\ ~(answer.seq = last /\ ~pendingPause)
    <3>1. Stops(NextRevision, t, IF answer.seq = last THEN NoRecord ELSE Record) /\ timer' = FALSE /\ UNCHANGED ui
      BY <1>17, <2>3 DEF Read
    <3> QED
      BY <1>1, <1>a, <2>1, <2>3, <3>1 DEF Commands, Flags, Acknowledged
  <2> QED
    BY <2>2, <2>3
<1>18. CASE Paused(t)
  <2>1. Flags' /\ UNCHANGED <<emulator, records, refusals, last, seen, live>> /\ wire # <<>>
    BY <1>18, <1>a, <1>d DEF Paused, Flags
  <2> QED
    BY <1>3, <1>18, <2>1 DEF Paused
<1>19. CASE Stepped(t)
  <2>1. Answered(t, "stepping") /\ wire # <<>> /\ task[t].pc \in Commands
    BY <1>19, <1>d DEF Stepped, Commands
  <2>2. CASE records
    <3>1. Becomes(t, At(t, "stepped")) /\ Flags' /\ UNCHANGED <<emulator, records, refusals, last, seen, live, timer>>
      BY <1>19, <1>a, <2>2 DEF Stepped, Flags
    <3> QED
      BY <1>2, <2>1, <3>1 DEF Commands
  <2>3. CASE ~records
    <3>1. Stops(task, t, NoRecord) /\ UNCHANGED timer /\ ui' = "running" /\ NoRecord # Record
      BY <1>19, <1>d, <1>f, <2>1, <2>3 DEF Stepped, NoRecord, Record
    <3> QED
      BY <1>1, <1>a, <2>1, <3>1 DEF Commands, Flags
  <2> QED
    BY <2>2, <2>3
<1>20. CASE StepRead(t)
  <2>1. Answered(t, "stepped") /\ wire # <<>> /\ Acknowledged /\ UNCHANGED <<timer, ui>>
    BY <1>20, <1>d DEF StepRead
  <2>2. CASE answer.seq # last
    <3>1. Stops(task, t, Record)
      BY <1>20, <2>2 DEF StepRead
    <3> QED
      BY <1>1, <1>a, <2>1, <2>2, <3>1 DEF Commands, Acknowledged, Flags
  <2>3. CASE answer.seq = last
    <3>1. Becomes(t, Idle) /\ Flags' /\ UNCHANGED <<emulator, records, refusals, last, seen, live>>
      BY <1>20, <1>a, <2>1, <2>3 DEF StepRead, Flags
    <3> QED
      BY <1>3, <2>1, <3>1 DEF Becomes
  <2> QED
    BY <2>2, <2>3
<1>21. CASE Located(t)
  <2>1. task[t].pc \notin Commands
    BY <1>21, <1>e DEF Located, Commands
  <2>2. ASSUME live, NEW pc \in {"syncing", "aiming", "stepping"},
               Becomes(t, [At(t, pc) EXCEPT !.asks = FALSE]), ui' = "running", UNCHANGED <<rest, timer, flags>>
        PROVE  ExecutionInv' /\ Handled
    <3> DEFINE r == [At(t, pc) EXCEPT !.asks = FALSE]
    <3>1. At(t, pc) \in TaskRecords /\ At(t, pc).pc = pc /\ At(t, pc).current = task[t].current
      BY <1>c, <2>2 DEF Commands, Awaits
    <3>2. r \in TaskRecords /\ r.pc = pc /\ r.current = task[t].current
      BY <3>1 DEF TaskRecords
    <3>3. Flags'
      BY <1>a, <2>2 DEF Flags
    <3>4. Goes(task, t, r)
      BY <2>2 DEF Becomes
    <3> HIDE DEF r
    <3>5. Moved(t, task, r)
      BY <2>1, <2>2, <3>2, <3>3, <3>4 DEF Moved
    <3> QED
      BY <3>5, MovedKeeps
  <2> QED
    BY <1>4, <1>21, <2>1, <2>2 DEF Located
<1>22. CASE Prepared(t)
  <2>1. /\ task[t].pc \notin Commands /\ Flags' /\ UNCHANGED <<emulator, records, refusals, last, seen, live, timer>>
    BY <1>22, <1>a, <1>e DEF Prepared, Flags, Commands
  <2>2. Becomes(t, At(t, "restarting")) \/ Becomes(t, At(t, "halting"))
    BY <1>22 DEF Prepared
  <2> QED
    BY <1>2, <2>1, <2>2 DEF Commands
<1>23. ASSUME NEW pc \in {"syncing", "refreshing", "resetting"}, PausedAt(t, pc), wire # <<>>
       PROVE  ExecutionInv' /\ Handled
  <2>1. Becomes(t, At(t, pc)) /\ Flags' /\ UNCHANGED <<emulator, records, refusals, last, seen, live, timer>>
    BY <1>23, <1>a DEF PausedAt, Flags
  <2> QED
    BY <1>2, <1>23, <2>1 DEF Commands, Awaits
<1>24. ASSUME RunsOn(t), wire # <<>> PROVE ExecutionInv' /\ Handled
  BY <1>23, <1>24 DEF RunsOn
<1>25. CASE Halted(t) \/ Cleared(t)
  BY <1>23, <1>24, <1>25, <1>d DEF Halted, Cleared
<1>26. ASSUME NEW pc \in {"restarting", "reloading", "clearing"}, Becomes(t, At(t, pc)),
              UNCHANGED <<rest, timer, flags, ui>>, task[t].pc \in Commands => wire # <<>>
       PROVE  ExecutionInv' /\ Handled
  <2>1. Flags'
    BY <1>26, <1>a DEF Flags
  <2> QED
    BY <1>2, <1>26, <2>1 DEF Commands, Awaits
<1>27. CASE Reset(t) \/ Restarted(t)
  <2>1. wire # <<>>
    BY <1>27, <1>d DEF Reset, Restarted
  <2> QED
    BY <1>24, <1>26, <1>27, <2>1 DEF Reset, Restarted
<1>28. CASE Reloaded(t)
  <2>1. task[t].pc \notin Commands
    BY <1>28, <1>e DEF Reloaded, Commands
  <2> QED
    BY <1>4, <1>26, <1>28, <2>1 DEF Reloaded
<1>29. CASE Refreshed(t)
  <2>1. task[t].pc \notin Commands /\ Flags'
    BY <1>29, <1>a, <1>e DEF Refreshed, Commands, Flags
  <2> QED
    BY <1>3, <1>29, <2>1 DEF Refreshed, Becomes
<1>30. CASE Cancelled(t)
  <2>1. task[t].pc \notin Commands /\ Flags'
    BY <1>30, <1>a, <1>e DEF Cancelled, Commands, Flags
  <2> QED
    BY <1>2, <1>30, <2>1 DEF Cancelled, Awaits
<1>31. CASE Left(t)
  <2>1. task[t].pc \notin Commands /\ Flags'
    BY <1>31, <1>a, <1>e DEF Left, Commands, Flags
  <2>2. Moved(t, task, Idle)
    BY <1>31, <1>b, <2>1 DEF Left, Becomes, Moved
  <2> QED
    BY <2>2, MovedKeeps
<1> QED
  BY <1>5, <1>6, <1>7, <1>8, <1>10, <1>11, <1>12, <1>15, <1>16, <1>17, <1>18, <1>19, <1>20, <1>21, <1>22, <1>25,
     <1>27, <1>28, <1>29, <1>30, <1>31 DEF Resume

\* A new request, poll or command of the emulator keeps it.
LEMMA RequestKeeps ==
  ASSUME ExecutionInv, NEW t \in Tasks, NEW kind, NEW asks \in BOOLEAN,
         NEW pc \in {"syncing", "stopping", "aiming", "stepping", "locating", "preparing", "cancelling"},
         Request(t, kind, asks, pc), pendingStep' \in BOOLEAN, timer' \in BOOLEAN, timer' => timer,
         ui' \in {"running", "stopped"}
  PROVE  ExecutionInv' /\ Handled
<1> USE DEF ExecutionInv, rest, world, emulator, flags
<1> DEFINE runs == kind \in Restarts /\ state = "running"
           r == [Idle EXCEPT !.kind = kind, !.asks = asks, !.pc = pc, !.resume = runs]
           ts == IF kind \in Restarts \cup {"detach"} THEN NextRevision ELSE task
<1>1. kind \in {"continue", "pause", "step", "next", "detach"} \cup Restarts
  BY ExecutionAssumption DEF Request
<1>2. r \in TaskRecords /\ ~r.current /\ r.pc # "inspecting"
  <2>1. runs \in BOOLEAN
    OBVIOUS
  <2>2. Idle \in TaskRecords /\ ~Idle.current
    BY IdleIsTask
  <2>3. ASSUME NEW i \in TaskRecords, ~i.current, NEW b \in BOOLEAN
        PROVE  LET n == [i EXCEPT !.kind = kind, !.asks = asks, !.pc = pc, !.resume = b] IN
               n \in TaskRecords /\ ~n.current /\ n.pc # "inspecting"
    <3>1. [i EXCEPT !.kind = kind, !.asks = asks, !.pc = pc, !.resume = b] \in TaskRecords
      BY <1>1, <2>3 DEF TaskRecords, Commands, Awaits
    <3> QED
      BY <2>3, <3>1 DEF TaskRecords
  <2> HIDE DEF runs
  <2> QED
    BY <2>1, <2>2, <2>3
<1>3. Goes(ts, t, r) /\ task[t].pc = "idle"
  BY DEF Request, Free
<1>5. /\ ts \in {task, NextRevision} /\ requests' = requests + 1 /\ held' = FALSE
      /\ UNCHANGED <<emulator, records, refusals, state, pendingPause, last, live, seen>>
  BY DEF Request
<1>4. Flags'
  <2>1. Flags
    BY TypedTask
  <2>2. requests' \in Nat /\ held' \in BOOLEAN /\ seen' \subseteq Nat
    <3>1. requests \in Nat /\ seen \subseteq Nat
      BY <2>1 DEF Flags
    <3>2. requests' = requests + 1
      BY <1>5
    <3>3. requests' \in Nat
      BY <3>1, <3>2
    <3>4. held' = FALSE /\ seen' = seen
      BY <1>5
    <3> QED
      BY <3>1, <3>3, <3>4
  <2>3. state' \in {"running", "paused", "disconnected"} /\ last' \in Nat \cup {-1}
    BY <1>5, <2>1 DEF Flags
  <2>4. pendingPause' \in BOOLEAN /\ live' \in BOOLEAN
    BY <1>5, <2>1 DEF Flags
  <2> QED
    BY <2>2, <2>3, <2>4 DEF Flags
<1> HIDE DEF r, ts
<1>6. Moved(t, ts, r)
  BY <1>2, <1>3, <1>4, <1>5 DEF Moved, Commands
<1> QED
  BY <1>6, MovedKeeps

\* Everything the tasks do keeps it, and so do the emulator and the session.
LEMMA ExecutionStep == ExecutionInv /\ [Next]_vars => ExecutionInv' /\ Handled
<1> SUFFICES ASSUME ExecutionInv, [Next]_vars PROVE ExecutionInv' /\ Handled
  OBVIOUS
<1> USE DEF ExecutionInv, rest, world, emulator, flags
<1>a. Flags /\ task \in [Tasks -> TaskRecords]
  BY TypedTask
\* Tasks that do not change, or only lose their revision.
<1>b. ASSUME task' \in {task, NextRevision} PROVE Handled
  BY <1>a, <1>b, RevisionIsTasks DEF Handled
<1>1. ASSUME NEW t \in Tasks, Continue(t) \/ Pause(t) \/ Step(t) \/ NextLine(t) \/ Detach(t)
      PROVE  ExecutionInv' /\ Handled
  <2>1. CASE Continue(t)
    BY <1>a, <2>1, RequestKeeps DEF Continue, Flags
  <2>2. CASE Pause(t)
    BY <1>a, <2>2, RequestKeeps DEF Pause, Flags
  <2>3. CASE Step(t)
    <3>1. CASE records
      BY <1>a, <2>3, <3>1, RequestKeeps DEF Step, Flags
    <3>2. CASE ~records
      BY <1>a, <2>3, <3>2, RequestKeeps DEF Step, Flags
    <3> QED
      BY <3>1, <3>2
  <2>4. CASE NextLine(t)
    BY <1>a, <2>4, RequestKeeps DEF NextLine, Flags
  <2>5. CASE Detach(t)
    BY <1>a, <2>5, RequestKeeps DEF Detach, Flags
  <2> QED
    BY <1>1, <2>1, <2>2, <2>3, <2>4, <2>5
<1>2. ASSUME NEW t \in Tasks, NEW kind \in Restarts, Restart(t, kind) PROVE ExecutionInv' /\ Handled
  <2>1. (kind = "restart") \in BOOLEAN /\ pendingStep' \in BOOLEAN /\ timer' = FALSE /\ ui' \in {"running", "stopped"}
    BY <1>2, <1>a DEF Restart, Flags
  <2> QED
    BY <1>2, <2>1, RequestKeeps DEF Restart
<1>3. ASSUME NEW t \in Tasks, Poll(t) PROVE ExecutionInv' /\ Handled
  <2> DEFINE r == [Idle EXCEPT !.kind = "poll", !.pc = "asking", !.current = TRUE]
  <2>1. r \in TaskRecords /\ r.pc = "asking"
    BY IdleIsTask DEF TaskRecords, Commands
  <2> HIDE DEF r
  <2>2. /\ task[t].pc = "idle" /\ timer /\ timer' = FALSE
        /\ task' = [task EXCEPT ![t] = r] /\ wire' = Append(wire, t) /\ answer' = answer
        /\ UNCHANGED <<rest, flags, ui>>
    BY <1>3, <2>1 DEF Poll, Free, Becomes, Goes, Commands, r
  <2>3. TypeOK'
    <3>1. task' \in [Tasks -> TaskRecords] /\ wire' \in Seq(Tasks)
      BY <1>a, <2>1, <2>2 DEF TypeOK
    <3> QED
      BY <2>2, <3>1 DEF TypeOK, TaskRecords
  <2>4. OnePoller'
    BY <1>a, <2>2 DEF OnePoller
  <2>5. Numbered' /\ Handled
    BY <1>a, <2>1, <2>2 DEF Numbered, Handled
  <2> QED
    BY <2>3, <2>4, <2>5
<1>4. CASE Execute
  <2>1. /\ UNCHANGED <<stops, records, requests, wire, task, timer, flags, ui, live, seen, held>>
        /\ answer = NoAnswer /\ refusals' \in {refusals, refusals + 1}
        /\ \E ok \in BOOLEAN : answer' = [ok |-> ok, cpu |-> cpu', seq |-> seq', why |-> why']
    BY <1>4 DEF Execute
  <2>2. cpu' \in {"running", "stopped"} /\ why' \in Causes /\ seq' \in Nat /\ seq <= seq'
    <3>1. CASE Obeys
      BY <3>1 DEF Obeys, Halts, TypeOK, Causes
    <3>2. CASE UNCHANGED <<cpu, seq, why>>
      BY <3>2 DEF TypeOK
    <3> QED
      BY <1>4, <3>1, <3>2 DEF Execute
  <2>3. answer' \in Answers /\ answer'.seq = seq'
    BY <2>1, <2>2 DEF Answers
  <2>6. TypeOK'
    BY <2>1, <2>2, <2>3 DEF TypeOK
  <2>4. OnePoller'
    BY <2>1 DEF OnePoller
  <2>5. Numbered'
    BY <2>1, <2>2, <2>3 DEF Numbered, TypeOK
  <2> QED
    BY <1>b, <2>1, <2>4, <2>5, <2>6
<1>5. ASSUME NEW cause \in Causes, ProgramStops(cause) PROVE ExecutionInv' /\ Handled
  <2>1. /\ UNCHANGED <<records, requests, refusals, wire, answer, task, timer, flags, ui, live, seen, held>>
        /\ cpu' = "stopped" /\ why' = cause /\ seq' = seq + 1 /\ stops' = stops + 1
    BY <1>5 DEF ProgramStops, Halts
  <2>2. TypeOK' /\ OnePoller'
    BY <1>5, <2>1 DEF TypeOK, OnePoller
  <2>3. Numbered'
    BY <2>1 DEF Numbered, TypeOK, Answers
  <2> QED
    BY <1>b, <2>1, <2>2, <2>3
<1>6. CASE SessionEnds
  <2>1. TypeOK'
    BY <1>6, <1>a, RevisionIsTasks DEF SessionEnds, TypeOK, TaskRecords
  <2>2. OnePoller' /\ Numbered'
    BY <1>6, RevisionIsTasks DEF SessionEnds, OnePoller, Numbered
  <2> QED
    BY <1>6, <1>b, <2>1, <2>2 DEF SessionEnds
<1>7. CASE UNCHANGED vars
  BY <1>7, <1>b DEF vars, TypeOK, OnePoller, Numbered
<1> QED
  BY <1>1, <1>2, <1>3, <1>4, <1>5, <1>6, <1>7, ResumeKeeps DEF Next

LEMMA ExecutionStart == Init => ExecutionInv
<1> SUFFICES ASSUME Init PROVE ExecutionInv
  OBVIOUS
<1>1. \A u \in Tasks : task[u] \in TaskRecords /\ ~task[u].current
  <2>1. [Idle EXCEPT !.kind = "begin", !.pc = "syncing"] \in TaskRecords
        /\ ~[Idle EXCEPT !.kind = "begin", !.pc = "syncing"].current
    BY IdleIsTask DEF TaskRecords, Awaits
  <2> QED
    BY <2>1, IdleIsTask DEF Init
<1>2. task \in [Tasks -> TaskRecords]
  BY <1>1 DEF Init
<1>3. cpu \in {"running", "stopped"} /\ ui \in {"running", "stopped"}
  BY DEF Init
<1>4. TypeOK
  <2>1. wire \in Seq(Tasks) /\ answer \in Answers \cup {NoAnswer} /\ {requests, stops, refusals} \subseteq Nat
    BY DEF Init
  <2>2. last \in Nat \cup {-1} /\ why \in Causes /\ seq \in Nat /\ seen \subseteq Nat
    BY DEF Init, Causes
  <2>3. timer \in BOOLEAN /\ pendingPause \in BOOLEAN /\ pendingStep \in BOOLEAN /\ live \in BOOLEAN
        /\ held \in BOOLEAN /\ records \in BOOLEAN /\ state = "paused"
    BY DEF Init
  <2> QED
    BY <1>2, <1>3, <2>1, <2>2, <2>3 DEF TypeOK, TaskRecords
<1> QED
  BY <1>1, <1>4 DEF Init, ExecutionInv, OnePoller, Numbered

\* However run, pause and step start and stop the monitor, and whatever is
\* under way when they do, there is one poll loop.
THEOREM OnePollLoop == Spec => []NonOverlapping
<1>1. ExecutionInv => NonOverlapping
  <2> SUFFICES ASSUME ExecutionInv PROVE NonOverlapping
    OBVIOUS
  <2> DEFINE C == {t \in Tasks : task[t].current}
  <2>1. CASE C = {}
    BY <2>1, FS_EmptySet DEF NonOverlapping, ExecutionInv
  <2>2. ASSUME NEW t \in C PROVE NonOverlapping
    <3>1. C = {t} /\ ~timer
      BY <2>2 DEF ExecutionInv, OnePoller
    <3>2. Cardinality(C) = 1
      BY <3>1, FS_Singleton
    <3> QED
      BY <3>1, <3>2 DEF NonOverlapping, ExecutionInv
  <2> QED
    BY <2>1, <2>2
<1> QED
  BY <1>1, ExecutionStart, ExecutionStep, PTL DEF Spec

\* No stop is handled twice, whichever of the monitor, a step and a monitor
\* restarted by a pause finds it.
THEOREM StopsAreHandledOnce == Spec => HandledOnce
<1>1. ExecutionInv /\ [Next]_vars => [Handled]_vars
  BY ExecutionStep
<1> QED
  BY <1>1, ExecutionStart, ExecutionStep, PTL DEF Spec, HandledOnce, Handled
=============================================================================
