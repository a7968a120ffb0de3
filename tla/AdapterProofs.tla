------------------------------ MODULE AdapterProofs ------------------------------
(***************************************************************************)
(* The debug adapter's two hard parts, for every value of their constants:     *)
(* that a step ends clean and a breakpoint of the user holds (Stepping), and   *)
(* that what VS Code is told of a stop is of that stop (Inspection).           *)
(***************************************************************************)
EXTENDS Stepping, Inspection, WellFoundedInduction, TLAPS

(***************************************************************************)
(* Stepping: for every program, every number of tasks and every limit, the    *)
(* invariant behind StepsEndClean and UserBreakpointsHold, and its proof.     *)
(***************************************************************************)
Causes == {"user", "temporary", "step", "pause", "watchpoint"}
Whys == Causes \cup {"none", "into", "over", "out", "next", "return"}
TaskRecords == [at : Awaits, todo : SUBSET Addr, why : Whys, resume : BOOLEAN]
Operations == [kind : {"into", "over", "out"}, loc : Nat, depth : Nat, count : 0..MaxInstructions]

SteppingTyped ==
    /\ prog \in Programs /\ records \in BOOLEAN
    /\ pc \in Addr /\ cpu \in {"running", "stopped"} /\ cause \in Causes
    /\ temps \subseteq Addr /\ addresses \subseteq Addr /\ refs \in [Addr -> Nat]
    /\ op = None \/ op \in Operations
    /\ over \in Addr \cup {None}
    /\ pendingPause \in BOOLEAN /\ pendingStep \in BOOLEAN /\ polling \in BOOLEAN
    /\ handled \in BOOLEAN /\ unheard \in BOOLEAN /\ crossed \in BOOLEAN /\ late \in BOOLEAN
    /\ state \in {"running", "paused"}
    /\ task \in [Tasks -> TaskRecords]
    /\ ui \in {"running", "stopped"}
    /\ failures \in Nat

\* The tasks that will let the program go, those of a resumed reset aside.
Starter(t) == task[t].at \in {"acquiring", "syncing", "starting", "stepping"} /\ ~task[t].resume
Resetting == \E t \in Tasks : task[t].at = "resetting"
Acquiring == \E t \in Tasks : task[t].at = "acquiring"

\* Only a reset resumes the program, up to its start.
Resumes ==
    \A t \in Tasks : task[t].resume => task[t].at \in {"resetting", "syncing", "starting"}

\* Whoever lets the program go watches it, until a reset takes it over.
Watched == cpu = "running" \/ state = "running" => polling \/ Resetting

\* A stop at a user's breakpoint that was not reported is on its way.
OnItsWay ==
    records /\ unheard
        => polling \/ \E t \in Tasks : task[t].at \in {"inspecting", "deciding", "resetting"}

\* While temporaries are acquired only a reset can be under way.
AcquiresAlone ==
    \A t \in Tasks : task[t].at = "acquiring" =>
        /\ ui = "stopped" /\ ~polling /\ ~pendingPause
        /\ \A u \in Tasks : u # t =>
              task[u].at \in {"idle", "resetting"}

\* At most one task is about to let the program go, and it is stopped at a stop
\* that was reported, or that is not of interest.
StartsAlone ==
    \A t \in Tasks : Starter(t) =>
        /\ cpu = "stopped" /\ state = "paused" /\ (records => ~unheard)
        /\ \A u \in Tasks : ~task[u].resume /\ (u # t => ~Starter(u))

\* A source step that is active has one task, or the program runs and is watched,
\* and a stop at a breakpoint of the user is found and known for what it is.
OneThread ==
    op # None =>
        /\ ~pendingPause
        /\ \A t \in Tasks : task[t].at # "idle" =>
              /\ task[t].at \notin {"halting", "resetting"} /\ ~task[t].resume
              /\ ~polling /\ cpu = "stopped" /\ state = "paused"
              /\ \A u \in Tasks : u # t => task[u].at = "idle"
        /\ records /\ unheard =>
              /\ cpu = "stopped"
              /\ polling => cause = "user" /\ ~handled
              /\ \A t \in Tasks : task[t].at \in {"inspecting", "deciding"} => task[t].why = "user"

\* What a step holds it holds while it is acquired or until its stop is decided.
HeldInTime ==
    /\ (op # None \/ addresses # {}) /\ ui = "stopped" => Acquiring
    /\ op = None => \A t \in Tasks : task[t].at = "deciding" => addresses = {}

SteppingInv ==
    /\ SteppingTyped /\ Resumes /\ Watched
    /\ ~crossed => OnItsWay /\ AcquiresAlone /\ StartsAlone /\ OneThread
    /\ ~crossed /\ failures = 0 => HeldInTime
----------------------------------------------------------------------------
LEMMA MinIsOfSet ==
  ASSUME NEW S \in SUBSET Nat, S # {}
  PROVE  Min(S) \in S
<1> DEFINE Less == OpToRel(<, Nat)
<1>1. PICK m \in S : \A n \in S : ~(<<n, m>> \in Less)
  BY WFMin, NatLessThanWellFounded, Zenon
<1>2. \A n \in S : ~(n < m)
  BY <1>1, Zenon DEF OpToRel
<1>3. \A n \in S : m =< n
  BY <1>2
<1> QED
  BY <1>3 DEF Min

LEMMA CandidatesAreAddresses ==
  ASSUME NEW kind \in {"into", "over", "out"}, NEW a \in Addr
  PROVE  Candidates(kind, a) \subseteq Addr
BY DEF Candidates, OverCandidates, OutCandidates, Statement, Later

\* What changes a task's record leaves it one.
LEMMA RecordsStay ==
  ASSUME NEW r \in TaskRecords
  PROVE  /\ \A at \in Awaits : [r EXCEPT !.at = at] \in TaskRecords
         /\ \A todo \in SUBSET Addr : [r EXCEPT !.todo = todo] \in TaskRecords
BY DEF TaskRecords

LEMMA NewRecords ==
  /\ Idle \in TaskRecords /\ Idle.at = "idle"
  /\ \A at \in Awaits : At(at) \in TaskRecords /\ At(at).at = at
  /\ \A at \in Awaits, why \in Whys : [Idle EXCEPT !.at = at, !.why = why] \in TaskRecords
  /\ \A todo \in SUBSET Addr, why \in Whys :
        [At("acquiring") EXCEPT !.todo = todo, !.why = why] \in TaskRecords
  /\ \A b \in BOOLEAN : [At("resetting") EXCEPT !.resume = b] \in TaskRecords
BY DEF Idle, At, TaskRecords, Awaits, Whys

\* References and temporaries are what they should be after every acquire and release.
LEMMA ReferencesStay ==
  ASSUME SteppingTyped,
         \/ \E a \in Addr : Acquire(a)
         \/ \E S \in SUBSET Addr : Release(S)
         \/ UNCHANGED <<refs, temps>>
  PROVE  refs' \in [Addr -> Nat] /\ temps' \subseteq Addr
BY DEF SteppingTyped, Acquire, Release

LEMMA StepsCancelled ==
  ASSUME SteppingTyped, Cancel \/ EndStep
  PROVE  /\ refs' \in [Addr -> Nat] /\ temps' \subseteq Addr /\ addresses' \subseteq Addr
         /\ op' = None /\ late' = late /\ over' = over
         /\ op # None => addresses' = {}
         /\ op = None /\ Cancel => addresses' = addresses
<1>1. CASE EndStep
  <2>1. addresses \in SUBSET Addr /\ Release(addresses)
    BY <1>1 DEF EndStep, SteppingTyped
  <2>2. refs' \in [Addr -> Nat] /\ temps' \subseteq Addr
    BY <2>1, ReferencesStay
  <2> QED
    BY <1>1, <2>2 DEF EndStep, Cancel, steps
<1>2. CASE op = None /\ Cancel
  BY <1>2 DEF Cancel, steps, SteppingTyped
<1> QED
  BY <1>1, <1>2 DEF Cancel

\* A program's rows and successors.
LEMMA ProgramShape ==
  ASSUME SteppingTyped
  PROVE  /\ 1 \in Addr
         /\ \A a \in Addr : prog.row[a] = None \/ (prog.row[a].loc \in Nat /\ prog.row[a].depth \in Nat)
         /\ \A a \in Addr : prog.succ[a] \subseteq Addr /\ prog.after[a] \in Addr
         /\ prog.back = None \/ prog.back \in Addr
         /\ Addr \subseteq Nat
<1>1. Size \in Nat \ {0} /\ Addr \subseteq Nat /\ 1 \in Addr
  BY SteppingAssumption DEF Addr
<1>2. prog \in Programs
  BY DEF SteppingTyped
<1>3. /\ \A a \in Addr : prog.row[a] = None \/ (prog.row[a].loc \in Nat /\ prog.row[a].depth \in Nat)
      /\ prog.succ \in [Addr -> SUBSET Addr] /\ prog.after \in [Addr -> Addr]
      /\ prog.back = None \/ prog.back \in Addr
  BY <1>2, SteppingAssumption
<1> QED
  BY <1>1, <1>3

\* Every action gives one task a record, or none.
LEMMA TasksStayRecords ==
  ASSUME SteppingTyped, [SteppingNext]_steppingVars
  PROVE  task' \in [Tasks -> TaskRecords]
<1>1. \A t \in Tasks : task[t] \in TaskRecords
  BY DEF SteppingTyped
<1>2. \A t \in Tasks, r \in TaskRecords : Becomes(t, r) => task' \in [Tasks -> TaskRecords]
  BY DEF SteppingTyped, Becomes
<1>3. UNCHANGED task => task' \in [Tasks -> TaskRecords]
  BY DEF SteppingTyped
<1>4. \A at \in Awaits, why \in Whys : [Idle EXCEPT !.at = at, !.why = why] \in TaskRecords
  BY NewRecords
<1>5. ASSUME NEW t \in Tasks, Goes(t) PROVE task' \in [Tasks -> TaskRecords]
  <2>1. task[t].why \in Whys /\ task[t].todo \subseteq Addr
    BY <1>1 DEF TaskRecords
  <2>2. CASE Synced(t)
    BY <1>1, <1>2, <2>2, RecordsStay DEF Synced, Awaits
  <2>3. CASE Start(t) \/ Halted(t)
    BY <1>2, <2>3, NewRecords DEF Start, Halted
  <2>4. CASE ExecuteOne(t)
    <3>1. [Idle EXCEPT !.at = "inspecting", !.why = IF records THEN "step" ELSE "none"] \in TaskRecords
      BY <1>4 DEF Awaits, Whys, Causes
    <3> QED
      BY <1>2, <2>4, <3>1 DEF ExecuteOne
  <2>5. CASE Acquired(t)
    <3>1. [task[t] EXCEPT !.todo = @ \ {Min(task[t].todo)}] \in TaskRecords
      BY <1>1, <2>1, RecordsStay
    <3> QED
      BY <1>2, <2>5, <3>1 DEF Acquired
  <2>6. CASE Responds(t)
    <3>1. [task[t] EXCEPT !.at = "syncing"] \in TaskRecords /\ Onward \in TaskRecords
      BY <1>1, RecordsStay, NewRecords DEF Onward, Awaits
    <3> QED
      BY <1>2, <2>6, <3>1 DEF Responds
  <2>7. CASE ResetDone(t)
    <3>1. [task[t] EXCEPT !.at = "syncing"] \in TaskRecords
      BY <1>1, RecordsStay DEF Awaits
    <3> QED
      BY <1>2, <2>7, <3>1, NewRecords DEF ResetDone
  <2>8. CASE Inspected(t)
    BY <1>1, <1>2, <2>8, RecordsStay DEF Inspected, Awaits
  <2>9. CASE Decided(t)
    BY <1>2, <2>9, NewRecords DEF Decided, Report, Onward, Awaits
  <2> QED
    BY <1>5, <2>2, <2>3, <2>4, <2>5, <2>6, <2>7, <2>8, <2>9 DEF Goes
<1>6. ASSUME NEW t \in Tasks, Fails(t) \/ Rejected(t) PROVE task' \in [Tasks -> TaskRecords]
  BY <1>2, <1>6, NewRecords DEF Fails, Rejected
<1>7. ASSUME NEW t \in Tasks, StopFound(t) PROVE task' \in [Tasks -> TaskRecords]
  <2>1. [At("inspecting") EXCEPT !.why = IF records /\ ~handled THEN cause ELSE "none"] \in TaskRecords
    BY <1>4 DEF At, Awaits, Whys, SteppingTyped
  <2> QED
    BY <1>2, <1>7, <2>1 DEF StopFound
<1>8. ASSUME NEW t \in Tasks, NEW kind \in {"into", "over", "out"}, SourceStep(t, kind)
      PROVE  task' \in [Tasks -> TaskRecords]
  <2>1. Candidates(kind, pc) \subseteq Addr /\ kind \in Whys
    BY CandidatesAreAddresses DEF SteppingTyped, Whys
  <2>2. [At("acquiring") EXCEPT !.todo = Candidates(kind, pc), !.why = kind] \in TaskRecords
    BY <2>1, NewRecords
  <2> QED
    BY <1>2, <1>3, <1>8, <2>2 DEF SourceStep
<1>9. ASSUME NEW t \in Tasks, InstructionStep(t) PROVE task' \in [Tasks -> TaskRecords]
  <2>1. {prog.after[pc]} \subseteq Addr
    BY ProgramShape DEF SteppingTyped
  <2>2. [At("acquiring") EXCEPT !.todo = {prog.after[pc]}, !.why = "next"] \in TaskRecords
    BY <2>1, NewRecords DEF Whys
  <2> QED
    BY <1>2, <1>9, <2>2, NewRecords DEF InstructionStep, Awaits
<1>10. ASSUME NEW t \in Tasks, StepOut(t) PROVE task' \in [Tasks -> TaskRecords]
  <2>1. {prog.back} \subseteq Addr
    BY <1>10, ProgramShape DEF StepOut
  <2>2. [At("acquiring") EXCEPT !.todo = {prog.back}, !.why = "return"] \in TaskRecords
    BY <2>1, NewRecords DEF Whys
  <2> QED
    BY <1>2, <1>10, <2>2 DEF StepOut
<1>11. ASSUME NEW t \in Tasks, Continue(t) \/ Pause(t) PROVE task' \in [Tasks -> TaskRecords]
  BY <1>2, <1>11, NewRecords DEF Continue, Pause, Awaits
<1>12. ASSUME NEW t \in Tasks, Reset(t) PROVE task' \in [Tasks -> TaskRecords]
  <2>1. [At("resetting") EXCEPT !.resume = state = "running"] \in TaskRecords
    BY NewRecords
  <2> QED
    BY <1>2, <1>12, <2>1 DEF Reset
<1>13. CASE Advance \/ TimePasses \/ Watchpoint \/ UNCHANGED steppingVars
  BY <1>3, <1>13 DEF Advance, TimePasses, Watchpoint, steppingVars
<1> QED
  BY <1>5, <1>6, <1>7, <1>8, <1>9, <1>10, <1>11, <1>12, <1>13 DEF SteppingNext

\* What a step holds and counts stays within its types.
StepsTyped ==
    /\ temps \subseteq Addr /\ addresses \subseteq Addr /\ refs \in [Addr -> Nat]
    /\ op = None \/ op \in Operations
    /\ over \in Addr \cup {None} /\ late \in BOOLEAN

LEMMA StepsStayTyped ==
  ASSUME SteppingTyped, [SteppingNext]_steppingVars
  PROVE  StepsTyped'
<1>1. StepsTyped /\ pc \in Addr
  BY DEF SteppingTyped, StepsTyped
<1>2. \A t \in Tasks : task[t].at \in Awaits /\ task[t].todo \in SUBSET Addr
  BY DEF SteppingTyped, TaskRecords
<1>3. UNCHANGED <<steps, temps>> => StepsTyped'
  BY <1>1 DEF StepsTyped, steps
<1>4. Cancel \/ EndStep => StepsTyped'
  BY <1>1, StepsCancelled DEF StepsTyped
<1>5. ASSUME NEW t \in Tasks,
             Synced(t) \/ Start(t) \/ ExecuteOne(t) \/ Responds(t) \/ Halted(t) \/ ResetDone(t)
      PROVE  StepsTyped'
  BY <1>3, <1>5 DEF Synced, Start, ExecuteOne, Responds, Halted, ResetDone, emulator
<1>6. ASSUME NEW t \in Tasks, Acquired(t) PROVE StepsTyped'
  <2> DEFINE a == Min(task[t].todo)
  <2>1. task[t].todo \in SUBSET Nat /\ task[t].todo # {}
    BY <1>2, <1>6, ProgramShape DEF Acquired
  <2>2. a \in Addr
    BY <1>2, <2>1, MinIsOfSet
  <2>3. Acquire(a) /\ addresses' \subseteq addresses \cup {a} /\ over' \in {over, a} /\ UNCHANGED <<op, late>>
    BY <1>6 DEF Acquired
  <2>4. refs' \in [Addr -> Nat] /\ temps' \subseteq Addr
    BY <2>2, <2>3, ReferencesStay
  <2> QED
    BY <1>1, <2>2, <2>3, <2>4 DEF StepsTyped
<1>7. ASSUME NEW t \in Tasks, Inspected(t) PROVE StepsTyped'
  <2>1. /\ \E S \in SUBSET Addr : Release(S)
        /\ addresses' \subseteq addresses /\ over' \in {over, None} /\ UNCHANGED <<op, late>>
    BY <1>1, <1>7 DEF Inspected, StepsTyped
  <2>2. refs' \in [Addr -> Nat] /\ temps' \subseteq Addr
    BY <2>1, ReferencesStay
  <2> QED
    BY <1>1, <2>1, <2>2 DEF StepsTyped
<1>8. ASSUME NEW t \in Tasks, Decided(t) PROVE StepsTyped'
  <2>1. CASE Cancel \/ EndStep \/ UNCHANGED <<steps, temps>>
    BY <1>3, <1>4, <2>1
  <2>2. CASE /\ op # None /\ ~StepIsOver /\ op' = [op EXCEPT !.count = Counted]
             /\ UNCHANGED <<refs, temps, late, addresses, over>>
    <3>1. op \in Operations /\ Counted \in Nat /\ ~(Counted > MaxInstructions) /\ MaxInstructions \in Nat
      BY <1>1, <2>2, SteppingAssumption DEF StepsTyped, Operations, Counted, StepIsOver
    <3>2. Counted \in 0..MaxInstructions
      BY <3>1
    <3>3. [op EXCEPT !.count = Counted] \in Operations
      BY <3>1, <3>2 DEF Operations
    <3> QED
      BY <1>1, <2>2, <3>3 DEF StepsTyped
  <2> QED
    BY <1>8, <2>1, <2>2 DEF Decided
<1>9. ASSUME NEW t \in Tasks, Fails(t) \/ Rejected(t) \/ StopFound(t) PROVE StepsTyped'
  BY <1>3, <1>4, <1>9 DEF Fails, Rejected, StopFound, emulator
<1>10. ASSUME NEW t \in Tasks, NEW kind \in {"into", "over", "out"}, SourceStep(t, kind)
       PROVE  StepsTyped'
  <2>1. op' = None \/ op' = Begin(kind)
    BY <1>10 DEF SourceStep
  <2>2. prog.row[pc].loc \in Nat /\ prog.row[pc].depth \in Nat /\ MaxInstructions \in Nat
    BY <1>1, <1>10, ProgramShape, SteppingAssumption DEF SourceStep
  <2>3. Begin(kind) \in Operations
    BY <2>2 DEF Begin, Operations
  <2> QED
    BY <1>1, <1>10, <2>1, <2>3 DEF SourceStep, StepsTyped, emulator
<1>11. ASSUME NEW t \in Tasks, InstructionStep(t) \/ StepOut(t) \/ Continue(t) \/ Pause(t)
       PROVE  StepsTyped'
  BY <1>3, <1>4, <1>11 DEF InstructionStep, StepOut, Continue, Pause, emulator
<1>12. ASSUME NEW t \in Tasks, Reset(t) PROVE StepsTyped'
  <2>1. \E S \in SUBSET Addr : Release(S)
    BY <1>1, <1>12 DEF Reset, StepsTyped
  <2>2. refs' \in [Addr -> Nat] /\ temps' \subseteq Addr
    BY <2>1, ReferencesStay
  <2> QED
    BY <1>1, <1>12, <2>2 DEF Reset, StepsTyped
<1>13. CASE Advance
  BY <1>1, <1>13 DEF Advance, StepsTyped, steps
<1>14. CASE TimePasses \/ Watchpoint \/ UNCHANGED steppingVars
  BY <1>1, <1>14 DEF TimePasses, Watchpoint, steppingVars, steps, emulator, StepsTyped
<1> QED
  BY <1>5, <1>6, <1>7, <1>8, <1>9, <1>10, <1>11, <1>12, <1>13, <1>14 DEF SteppingNext, Goes

\* The flags, and where the program is.
FlagsTyped ==
    /\ prog \in Programs /\ records \in BOOLEAN
    /\ pc \in Addr /\ cpu \in {"running", "stopped"} /\ cause \in Causes
    /\ pendingPause \in BOOLEAN /\ pendingStep \in BOOLEAN /\ polling \in BOOLEAN
    /\ handled \in BOOLEAN /\ unheard \in BOOLEAN /\ crossed \in BOOLEAN
    /\ state \in {"running", "paused"} /\ ui \in {"running", "stopped"}
    /\ failures \in Nat

LEMMA FlagsStayTyped ==
  ASSUME SteppingTyped, [SteppingNext]_steppingVars
  PROVE  FlagsTyped'
<1>1. FlagsTyped
  BY DEF SteppingTyped, FlagsTyped
<1>2. \A a \in Addr : prog.succ[a] \subseteq Addr
  BY ProgramShape
<1>3. ASSUME NEW t \in Tasks, Synced(t) \/ Start(t) \/ Acquired(t) \/ Responds(t) \/ Halted(t)
      PROVE  FlagsTyped'
  BY <1>1, <1>3 DEF Synced, Start, Acquired, Responds, Halted, FlagsTyped, fixed, emulator, flags, Causes
<1>4. ASSUME NEW t \in Tasks, ExecuteOne(t) \/ ResetDone(t) \/ Inspected(t) PROVE FlagsTyped'
  <2>1. CASE ExecuteOne(t)
    BY <1>1, <1>2, <2>1 DEF ExecuteOne, FlagsTyped, fixed, Causes
  <2>2. CASE ResetDone(t)
    <3>1. handled' \in BOOLEAN /\ 1 \in Addr
      BY <2>2, ProgramShape DEF ResetDone
    <3> QED
      BY <1>1, <2>2, <3>1 DEF ResetDone, FlagsTyped, fixed, Causes
  <2>3. CASE Inspected(t)
    BY <1>1, <2>3 DEF Inspected, FlagsTyped, fixed, flags
  <2> QED
    BY <1>4, <2>1, <2>2, <2>3
<1>5. ASSUME NEW t \in Tasks, Decided(t) PROVE FlagsTyped'
  <2>1. UNCHANGED <<fixed, pc, cpu, cause, state, polling, handled, failures>>
    BY <1>5 DEF Decided
  <2>2. Report(t) \/ UNCHANGED <<pendingPause, pendingStep, ui, unheard>>
    BY <1>5 DEF Decided
  <2> QED
    BY <1>1, <2>1, <2>2 DEF Report, FlagsTyped, fixed
<1>6. ASSUME NEW t \in Tasks, Fails(t) \/ Rejected(t) \/ StopFound(t) PROVE FlagsTyped'
  <2>1. CASE StopFound(t)
    BY <1>1, <2>1 DEF StopFound, FlagsTyped, fixed, emulator
  <2>2. CASE Fails(t) \/ Rejected(t)
    <3>1. pendingStep' \in BOOLEAN
      BY <2>2 DEF Fails, Rejected
    <3> QED
      BY <1>1, <2>2, <3>1 DEF Fails, Rejected, FlagsTyped, fixed, emulator
  <2> QED
    BY <1>6, <2>1, <2>2
<1>7. ASSUME NEW t \in Tasks, Offered(t) PROVE crossed' \in BOOLEAN
  <2>1. crossed' = (crossed \/ pendingPause \/ polling \/ \E u \in Tasks : task[u].at # "idle")
    BY <1>7 DEF Offered
  <2> QED
    BY <2>1, Zenon
<1>8. ASSUME NEW t \in Tasks, NEW kind \in {"into", "over", "out"}, SourceStep(t, kind)
      PROVE  FlagsTyped'
  BY <1>1, <1>7, <1>8 DEF SourceStep, FlagsTyped, emulator, flags
<1>9. ASSUME NEW t \in Tasks, InstructionStep(t) \/ StepOut(t) \/ Continue(t) PROVE FlagsTyped'
  BY <1>1, <1>7, <1>9 DEF InstructionStep, StepOut, Continue, FlagsTyped, emulator, flags
<1>10. ASSUME NEW t \in Tasks, Pause(t) \/ Reset(t) PROVE FlagsTyped'
  BY <1>1, <1>10 DEF Pause, Reset, FlagsTyped, fixed, flags
<1>11. CASE Advance
  <2>1. pc' \in Addr /\ cpu' \in {"running", "stopped"} /\ cause' \in Causes
    BY <1>1, <1>2, <1>11 DEF Advance, FlagsTyped, Causes
  <2>2. unheard' \in BOOLEAN /\ handled' \in BOOLEAN
    BY <1>11 DEF Advance
  <2> QED
    BY <1>1, <1>11, <2>1, <2>2 DEF Advance, FlagsTyped, fixed
<1>12. CASE TimePasses \/ Watchpoint \/ UNCHANGED steppingVars
  BY <1>1, <1>12 DEF TimePasses, Watchpoint, steppingVars, fixed, emulator, flags, FlagsTyped, Causes
<1> QED
  BY <1>3, <1>4, <1>5, <1>6, <1>8, <1>9, <1>10, <1>11, <1>12 DEF SteppingNext, Goes

LEMMA TypesStay == SteppingTyped /\ [SteppingNext]_steppingVars => SteppingTyped'
BY TasksStayRecords, StepsStayTyped, FlagsStayTyped DEF SteppingTyped, StepsTyped, FlagsTyped

LEMMA Becoming ==
  ASSUME SteppingTyped, NEW t \in Tasks, NEW r, Becomes(t, r)
  PROVE  task'[t] = r /\ \A u \in Tasks : u # t => task'[u] = task[u]
BY DEF SteppingTyped, Becomes

\* The records that begin and end a task.
LEMMA RecordFields ==
  /\ Idle.at = "idle" /\ ~Idle.resume
  /\ \A at \in Awaits : At(at).at = at /\ ~At(at).resume
  /\ \A at \in Awaits, why \in Whys :
        LET r == [Idle EXCEPT !.at = at, !.why = why] IN r.at = at /\ r.why = why /\ ~r.resume
  /\ \A todo \in SUBSET Addr, why \in Whys :
        LET r == [At("acquiring") EXCEPT !.todo = todo, !.why = why] IN r.at = "acquiring" /\ ~r.resume
  /\ \A b \in BOOLEAN :
        LET r == [At("resetting") EXCEPT !.resume = b] IN r.at = "resetting" /\ r.resume = b
BY DEF Idle, At, Awaits

\* What is required of the parts of a step that was not begun across a pause.
Uncrossed == OnItsWay /\ AcquiresAlone /\ StartsAlone /\ OneThread

\* A step that is offered and crosses nothing begins where nothing is under way.
LEMMA OffersAreQuiet ==
  ASSUME SteppingInv, NEW t \in Tasks, Offered(t), ~crossed'
  PROVE  /\ ~crossed /\ ~polling /\ ~pendingPause /\ ui = "stopped"
         /\ \A u \in Tasks : task[u].at = "idle"
         /\ cpu = "stopped" /\ state = "paused" /\ (records => ~unheard)
<1>1. ~crossed /\ ~polling /\ ~pendingPause /\ \A u \in Tasks : task[u].at = "idle"
  BY DEF Offered
<1>2. cpu \in {"running", "stopped"} /\ state \in {"running", "paused"}
  BY DEF SteppingInv, SteppingTyped
<1>3. Watched /\ OnItsWay
  BY <1>1 DEF SteppingInv
<1> QED
  BY <1>1, <1>2, <1>3 DEF Watched, Resetting, OnItsWay, Offered

\* A step that begins to acquire.
LEMMA AcquiringBegins ==
  ASSUME SteppingInv, NEW t \in Tasks, Offered(t), ~crossed',
         task'[t].at = "acquiring", ~task'[t].resume, \A u \in Tasks : u # t => task'[u] = task[u],
         UNCHANGED <<records, cpu, pendingPause, state, polling, ui, unheard>>
  PROVE  Watched' /\ Uncrossed'
<1>1. /\ ~polling /\ ~pendingPause /\ ui = "stopped" /\ cpu = "stopped" /\ state = "paused"
      /\ records => ~unheard
      /\ \A u \in Tasks : task[u].at = "idle" /\ ~task[u].resume
  BY OffersAreQuiet DEF SteppingInv, Resumes
<1>2. /\ ~polling' /\ ~pendingPause' /\ ui' = "stopped" /\ cpu' = "stopped" /\ state' = "paused"
      /\ records' => ~unheard'
      /\ \A u \in Tasks : u # t => task'[u].at = "idle" /\ ~task'[u].resume
  BY <1>1
<1>3. Watched'
  BY <1>2 DEF Watched
<1>4. OnItsWay'
  BY <1>2 DEF OnItsWay
<1>5. AcquiresAlone'
  BY <1>2 DEF AcquiresAlone
<1>6. StartsAlone'
  BY <1>2 DEF StartsAlone, Starter
<1>7. OneThread'
  BY <1>2 DEF OneThread
<1> QED
  BY <1>3, <1>4, <1>5, <1>6, <1>7 DEF Uncrossed

\* One task goes from an await to another, the others stay.
Moves(t, from, to) ==
    /\ task[t].at = from /\ task'[t].at \in to
    /\ \A u \in Tasks : u # t => task'[u] = task[u]
Unresumed(t) == task'[t].resume = FALSE

\* The tasks that go on by themselves.
LEMMA Going ==
  ASSUME SteppingTyped, Resumes, NEW t \in Tasks
  PROVE  /\ Synced(t) => Moves(t, "syncing", {"starting"}) /\ task'[t].resume = task[t].resume
         /\ Start(t) => Moves(t, "starting", {"idle"}) /\ Unresumed(t)
         /\ ExecuteOne(t) => Moves(t, "stepping", {"inspecting"}) /\ Unresumed(t)
         /\ Acquired(t) => Moves(t, "acquiring", {"acquiring"}) /\ Unresumed(t)
         /\ Responds(t) => Moves(t, "acquiring", {"syncing", "stepping"}) /\ Unresumed(t)
         /\ Halted(t) => Moves(t, "halting", {"idle"}) /\ Unresumed(t)
         /\ ResetDone(t) =>
              /\ Moves(t, "resetting", {"idle", "syncing"})
              /\ task'[t].resume => task[t].resume /\ task'[t].at = "syncing"
              /\ ~task'[t].resume => task'[t].at = "idle"
         /\ Inspected(t) => Moves(t, "inspecting", {"deciding"}) /\ Unresumed(t) /\ task'[t].why = task[t].why
<1>1. task[t] \in TaskRecords
  BY DEF SteppingTyped
<1>2. \A r : Becomes(t, r) => task'[t] = r /\ \A u \in Tasks : u # t => task'[u] = task[u]
  BY Becoming
<1>3. ASSUME Synced(t) PROVE Moves(t, "syncing", {"starting"}) /\ task'[t].resume = task[t].resume
  BY <1>1, <1>2, <1>3 DEF Synced, TaskRecords, Moves
<1>4. ASSUME Start(t) PROVE Moves(t, "starting", {"idle"}) /\ Unresumed(t)
  BY <1>2, <1>4, RecordFields DEF Start, Moves, Unresumed, Idle
<1>5. ASSUME ExecuteOne(t) PROVE Moves(t, "stepping", {"inspecting"}) /\ Unresumed(t)
  <2> DEFINE r == [Idle EXCEPT !.at = "inspecting", !.why = IF records THEN "step" ELSE "none"]
  <2>1. Becomes(t, r) /\ task[t].at = "stepping"
    BY <1>5 DEF ExecuteOne
  <2>2. r.at = "inspecting" /\ r.resume = FALSE
    BY DEF Idle
  <2> QED
    BY <1>2, <2>1, <2>2 DEF Moves, Unresumed
<1>6. ASSUME Acquired(t) PROVE Moves(t, "acquiring", {"acquiring"}) /\ Unresumed(t)
  <2> DEFINE r == [task[t] EXCEPT !.todo = @ \ {Min(task[t].todo)}]
  <2>1. Becomes(t, r) /\ task[t].at = "acquiring"
    BY <1>6 DEF Acquired
  <2>2. r.at = "acquiring" /\ r.resume = FALSE
    BY <1>1, <2>1 DEF TaskRecords, Resumes
  <2> QED
    BY <1>2, <2>1, <2>2 DEF Moves, Unresumed
<1>7. ASSUME Responds(t) PROVE Moves(t, "acquiring", {"syncing", "stepping"}) /\ Unresumed(t)
  <2> DEFINE r == [task[t] EXCEPT !.at = "syncing"]
  <2>1. (Becomes(t, r) \/ Becomes(t, Onward)) /\ task[t].at = "acquiring"
    BY <1>7 DEF Responds
  <2>2. /\ r.at = "syncing" /\ r.resume = FALSE
        /\ Onward.at \in {"syncing", "stepping"} /\ Onward.resume = FALSE
    BY <1>1, <2>1 DEF TaskRecords, Resumes, Onward, At, Idle
  <2> QED
    BY <1>2, <2>1, <2>2 DEF Moves, Unresumed
<1>8. ASSUME Halted(t) PROVE Moves(t, "halting", {"idle"}) /\ Unresumed(t)
  BY <1>2, <1>8 DEF Halted, Moves, Unresumed, Idle
<1>9. ASSUME ResetDone(t)
      PROVE  /\ Moves(t, "resetting", {"idle", "syncing"})
             /\ task'[t].resume => task[t].resume /\ task'[t].at = "syncing"
             /\ ~task'[t].resume => task'[t].at = "idle"
  <2> DEFINE r == [task[t] EXCEPT !.at = "syncing"]
  <2>1. /\ Becomes(t, IF task[t].resume THEN r ELSE Idle) /\ task[t].at = "resetting"
    BY <1>9 DEF ResetDone
  <2>2. r.at = "syncing" /\ r.resume = task[t].resume /\ Idle.at = "idle" /\ Idle.resume = FALSE
    BY <1>1 DEF TaskRecords, Idle
  <2> QED
    BY <1>2, <2>1, <2>2 DEF Moves
<1>10. ASSUME Inspected(t)
       PROVE  Moves(t, "inspecting", {"deciding"}) /\ Unresumed(t) /\ task'[t].why = task[t].why
  <2> DEFINE r == [task[t] EXCEPT !.at = "deciding"]
  <2>1. Becomes(t, r) /\ task[t].at = "inspecting"
    BY <1>10 DEF Inspected
  <2>2. r.at = "deciding" /\ r.resume = FALSE /\ r.why = task[t].why
    BY <1>1, <2>1 DEF TaskRecords, Resumes
  <2> QED
    BY <1>2, <2>1, <2>2 DEF Moves, Unresumed
<1> QED
  BY <1>3, <1>4, <1>5, <1>6, <1>7, <1>8, <1>9, <1>10

\* A decision that is not reported goes on.
GoesOn(t) ==
    /\ op # None /\ ~pendingPause /\ ~HigherPriority(task[t].why)
    /\ Moves(t, "deciding", {"syncing", "stepping"}) /\ Unresumed(t)
    /\ UNCHANGED <<fixed, emulator, addresses, pendingPause, pendingStep, state, polling, handled, ui, unheard>>

\* The ends of tasks, and what StopFound and the requests begin.
LEMMA Beginning ==
  ASSUME SteppingTyped, NEW t \in Tasks
  PROVE  /\ Decided(t) => GoesOn(t) \/ (Moves(t, "deciding", {"idle"}) /\ Unresumed(t) /\ Report(t))
         /\ Fails(t) \/ Rejected(t) =>
              /\ Moves(t, task[t].at, {"idle"}) /\ Unresumed(t)
              /\ task[t].at \in {"acquiring", "syncing", "starting", "stepping"}
         /\ StopFound(t) => /\ Moves(t, "idle", {"inspecting"}) /\ Unresumed(t)
                            /\ records /\ ~handled => task'[t].why = cause
         /\ \A kind \in {"into", "over", "out"} : SourceStep(t, kind) =>
              \/ UNCHANGED task /\ op' = None
              \/ Moves(t, "idle", {"acquiring"}) /\ Unresumed(t)
         /\ InstructionStep(t) =>
              Moves(t, "idle", IF ui' = "running" THEN {"stepping"} ELSE {"acquiring"}) /\ Unresumed(t)
         /\ StepOut(t) => Moves(t, "idle", {"acquiring"}) /\ Unresumed(t)
         /\ Continue(t) => Moves(t, "idle", {"syncing"}) /\ Unresumed(t)
         /\ Pause(t) => Moves(t, "idle", {"halting"}) /\ Unresumed(t)
         /\ Reset(t) => Moves(t, "idle", {"resetting"}) /\ (task'[t].resume => state = "running")
<1>1. task[t] \in TaskRecords
  BY DEF SteppingTyped
<1>2. \A r : Becomes(t, r) => task'[t] = r /\ \A u \in Tasks : u # t => task'[u] = task[u]
  BY Becoming
<1>3. /\ Idle.at = "idle" /\ Idle.resume = FALSE
      /\ \A at \in Awaits : At(at).at = at /\ At(at).resume = FALSE
  BY DEF Idle, At, Awaits
<1>4. ASSUME Decided(t)
      PROVE  GoesOn(t) \/ (Moves(t, "deciding", {"idle"}) /\ Unresumed(t) /\ Report(t))
  <2>1. /\ task[t].at = "deciding" /\ UNCHANGED <<fixed, pc, cpu, cause, state, polling, handled>>
        /\ \/ Report(t)
           \/ /\ op # None /\ ~pendingPause /\ ~HigherPriority(task[t].why)
              /\ UNCHANGED <<refs, temps, late, addresses, over>>
              /\ Becomes(t, Onward) /\ UNCHANGED <<pendingPause, pendingStep, ui, unheard>>
    BY <1>4 DEF Decided
  <2>2. CASE Report(t)
    BY <1>2, <1>3, <2>1, <2>2 DEF Report, Moves, Unresumed
  <2>3. CASE ~Report(t)
    <3>1. Onward.at \in {"syncing", "stepping"} /\ Onward.resume = FALSE
      BY <1>3 DEF Onward, Awaits
    <3> QED
      BY <1>2, <2>1, <2>3, <3>1 DEF GoesOn, Moves, Unresumed, emulator
  <2> QED
    BY <2>2, <2>3
<1>5. ASSUME Fails(t) \/ Rejected(t)
      PROVE  /\ Moves(t, task[t].at, {"idle"}) /\ Unresumed(t)
             /\ task[t].at \in {"acquiring", "syncing", "starting", "stepping"}
  BY <1>2, <1>3, <1>5 DEF Fails, Rejected, Moves, Unresumed
<1>6. ASSUME StopFound(t)
      PROVE  /\ Moves(t, "idle", {"inspecting"}) /\ Unresumed(t)
             /\ records /\ ~handled => task'[t].why = cause
  <2> DEFINE r == [At("inspecting") EXCEPT !.why = IF records /\ ~handled THEN cause ELSE "none"]
  <2>1. Becomes(t, r) /\ task[t].at = "idle"
    BY <1>6 DEF StopFound, Free
  <2>2. r.at = "inspecting" /\ r.resume = FALSE /\ (records /\ ~handled => r.why = cause)
    BY DEF At, Idle
  <2> QED
    BY <1>2, <2>1, <2>2 DEF Moves, Unresumed
<1>7. ASSUME NEW kind \in {"into", "over", "out"}, SourceStep(t, kind)
      PROVE  \/ UNCHANGED task /\ op' = None
             \/ Moves(t, "idle", {"acquiring"}) /\ Unresumed(t)
  <2> DEFINE r == [At("acquiring") EXCEPT !.todo = Candidates(kind, pc), !.why = kind]
  <2>1. task[t].at = "idle" /\ (Becomes(t, r) \/ (UNCHANGED task /\ op' = None))
    BY <1>7 DEF SourceStep, Offered, Request, Free
  <2>2. r.at = "acquiring" /\ r.resume = FALSE
    BY DEF At, Idle
  <2> QED
    BY <1>2, <2>1, <2>2 DEF Moves, Unresumed
<1>8. ASSUME InstructionStep(t)
      PROVE  Moves(t, "idle", IF ui' = "running" THEN {"stepping"} ELSE {"acquiring"}) /\ Unresumed(t)
  <2> DEFINE r == [At("acquiring") EXCEPT !.todo = {prog.after[pc]}, !.why = "next"]
  <2>1. /\ task[t].at = "idle" /\ ui = "stopped"
        /\ \/ Becomes(t, At("stepping")) /\ ui' = "running"
           \/ Becomes(t, r) /\ UNCHANGED ui
    BY <1>8 DEF InstructionStep, Offered, Request, Free
  <2>2. r.at = "acquiring" /\ r.resume = FALSE /\ At("stepping").at = "stepping" /\ At("stepping").resume = FALSE
    BY DEF At, Idle
  <2> QED
    BY <1>2, <2>1, <2>2 DEF Moves, Unresumed
<1>9. ASSUME StepOut(t) PROVE Moves(t, "idle", {"acquiring"}) /\ Unresumed(t)
  <2> DEFINE r == [At("acquiring") EXCEPT !.todo = {prog.back}, !.why = "return"]
  <2>1. task[t].at = "idle" /\ Becomes(t, r)
    BY <1>9 DEF StepOut, Offered, Request, Free
  <2>2. r.at = "acquiring" /\ r.resume = FALSE
    BY DEF At, Idle
  <2> QED
    BY <1>2, <2>1, <2>2 DEF Moves, Unresumed
<1>10. Continue(t) => Moves(t, "idle", {"syncing"}) /\ Unresumed(t)
  BY <1>2, <1>3 DEF Continue, Offered, Request, Free, Moves, Unresumed, Awaits
<1>11. Pause(t) => Moves(t, "idle", {"halting"}) /\ Unresumed(t)
  BY <1>2, <1>3 DEF Pause, Request, Free, Moves, Unresumed, Awaits
<1>12. ASSUME Reset(t)
       PROVE  Moves(t, "idle", {"resetting"}) /\ (task'[t].resume => state = "running")
  <2> DEFINE r == [At("resetting") EXCEPT !.resume = state = "running"]
  <2>1. Becomes(t, r) /\ task[t].at = "idle"
    BY <1>12 DEF Reset, Request, Free
  <2>2. r.at = "resetting" /\ r.resume = (state = "running")
    BY DEF At, Idle
  <2> QED
    BY <1>2, <2>1, <2>2 DEF Moves
<1> QED
  BY <1>4, <1>5, <1>6, <1>7, <1>8, <1>9, <1>10, <1>11, <1>12

LEMMA ResumesStay ==
  ASSUME SteppingInv, [SteppingNext]_steppingVars
  PROVE  Resumes'
<1>1. SteppingTyped /\ Resumes
  BY DEF SteppingInv
<1>2. ASSUME NEW t \in Tasks, NEW from, NEW to, Moves(t, from, to),
             task'[t].resume => task'[t].at \in {"resetting", "syncing", "starting"}
      PROVE  Resumes'
  BY <1>1, <1>2 DEF Resumes, Moves
<1>3. ASSUME NEW t \in Tasks, NEW from, NEW to, Moves(t, from, to), Unresumed(t) PROVE Resumes'
  BY <1>2, <1>3 DEF Unresumed
<1>4. UNCHANGED task => Resumes'
  BY <1>1 DEF Resumes
<1>5. ASSUME NEW t \in Tasks, Goes(t) PROVE Resumes'
  <2>1. CASE Synced(t) \/ ResetDone(t)
    BY <1>1, <1>2, <2>1, Going DEF Moves
  <2>2. CASE Decided(t)
    BY <1>1, <1>3, <2>2, Beginning DEF GoesOn
  <2> QED
    BY <1>1, <1>3, <1>5, <2>1, <2>2, Going DEF Goes
<1>6. ASSUME NEW t \in Tasks, Fails(t) \/ Rejected(t) \/ StopFound(t) PROVE Resumes'
  BY <1>1, <1>3, <1>6, Beginning
<1>7. ASSUME NEW t \in Tasks, NEW kind \in {"into", "over", "out"}, SourceStep(t, kind)
      PROVE  Resumes'
  BY <1>1, <1>3, <1>4, <1>7, Beginning
<1>8. ASSUME NEW t \in Tasks, InstructionStep(t) \/ StepOut(t) \/ Continue(t) \/ Pause(t)
      PROVE  Resumes'
  BY <1>1, <1>3, <1>8, Beginning
<1>9. ASSUME NEW t \in Tasks, Reset(t) PROVE Resumes'
  BY <1>1, <1>2, <1>9, Beginning DEF Moves
<1>10. CASE Advance \/ TimePasses \/ Watchpoint \/ UNCHANGED steppingVars
  BY <1>4, <1>10 DEF Advance, TimePasses, Watchpoint, steppingVars
<1> QED
  BY <1>5, <1>6, <1>7, <1>8, <1>9, <1>10 DEF SteppingNext

LEMMA WatchedStays ==
  ASSUME SteppingInv, [SteppingNext]_steppingVars
  PROVE  Watched'
<1>1. SteppingTyped /\ Resumes /\ Watched
  BY DEF SteppingInv
<1>2. ASSUME NEW t \in Tasks, NEW from, NEW to, Moves(t, from, to), from # "resetting",
             polling => polling', cpu' = "running" => cpu = "running",
             state' = "running" => state = "running"
      PROVE  Watched'
  <2>1. Resetting => Resetting'
    BY <1>2 DEF Resetting, Moves
  <2> QED
    BY <1>1, <1>2, <2>1 DEF Watched
<1>3. UNCHANGED <<task, polling, state>> /\ (cpu' = "running" => cpu = "running") => Watched'
  BY <1>1 DEF Watched, Resetting
<1>4. cpu' = "stopped" /\ state' = "paused" => Watched'
  BY DEF Watched
<1>5. polling' => Watched'
  BY DEF Watched
<1>6. ASSUME NEW t \in Tasks, Goes(t) PROVE Watched'
  <2>1. CASE Start(t)
    BY <1>5, <2>1 DEF Start
  <2>2. CASE ExecuteOne(t) \/ ResetDone(t)
    BY <1>4, <2>2 DEF ExecuteOne, ResetDone
  <2>3. CASE Halted(t)
    BY <1>5, <2>3 DEF Halted
  <2>4. CASE Decided(t)
    <3>1. UNCHANGED <<cpu, state, polling>>
      BY <2>4 DEF Decided
    <3> QED
      BY <1>1, <1>2, <2>4, <3>1, Beginning DEF GoesOn
  <2>5. CASE Synced(t) \/ Acquired(t) \/ Responds(t) \/ Inspected(t)
    <3>1. UNCHANGED <<cpu, state, polling>>
      BY <2>5 DEF Synced, Acquired, Responds, Inspected, emulator, flags
    <3> QED
      BY <1>1, <1>2, <2>5, <3>1, Going
  <2> QED
    BY <1>6, <2>1, <2>2, <2>3, <2>4, <2>5 DEF Goes
<1>7. ASSUME NEW t \in Tasks, Fails(t) \/ Rejected(t) PROVE Watched'
  <2>1. UNCHANGED <<cpu, state, polling>>
    BY <1>7 DEF Fails, Rejected, emulator
  <2> QED
    BY <1>1, <1>2, <1>7, <2>1, Beginning
<1>8. ASSUME NEW t \in Tasks, StopFound(t) PROVE Watched'
  BY <1>4, <1>8 DEF StopFound, emulator
<1>9. ASSUME NEW t \in Tasks, NEW kind \in {"into", "over", "out"}, SourceStep(t, kind)
      PROVE  Watched'
  <2>1. UNCHANGED <<cpu, state, polling>>
    BY <1>9 DEF SourceStep, emulator, flags
  <2> QED
    BY <1>1, <1>2, <1>3, <1>9, <2>1, Beginning
<1>10. ASSUME NEW t \in Tasks, InstructionStep(t) \/ StepOut(t) \/ Continue(t) \/ Pause(t)
       PROVE  Watched'
  <2>1. UNCHANGED <<cpu, state, polling>>
    BY <1>10 DEF InstructionStep, StepOut, Continue, Pause, emulator, flags
  <2> QED
    BY <1>1, <1>2, <1>10, <2>1, Beginning
<1>11. ASSUME NEW t \in Tasks, Reset(t) PROVE Watched'
  <2>1. Resetting'
    BY <1>1, <1>11, Beginning DEF Resetting, Moves
  <2> QED
    BY <2>1 DEF Watched
<1>12. CASE Advance \/ TimePasses \/ Watchpoint \/ UNCHANGED steppingVars
  BY <1>3, <1>12 DEF Advance, TimePasses, Watchpoint, steppingVars, emulator, flags
<1> QED
  BY <1>6, <1>7, <1>8, <1>9, <1>10, <1>11, <1>12 DEF SteppingNext

LEMMA UncrossedBefore ==
  ASSUME SteppingInv, [SteppingNext]_steppingVars, ~crossed'
  PROVE  ~crossed /\ Uncrossed
<1>1. ASSUME NEW t \in Tasks, Goes(t) \/ Fails(t) \/ Rejected(t) \/ StopFound(t) PROVE ~crossed
  BY <1>1 DEF Goes, Synced, Start, ExecuteOne, Acquired, Responds, Halted, ResetDone, Inspected,
              Decided, Fails, Rejected, StopFound, fixed
<1>2. ASSUME NEW t \in Tasks, Offered(t) PROVE ~crossed
  BY <1>2, Zenon DEF Offered
<1>3. ASSUME NEW t \in Tasks, Pause(t) \/ Reset(t) PROVE ~crossed
  BY <1>3 DEF Pause, Reset, fixed
<1>4. ASSUME Advance \/ TimePasses \/ Watchpoint \/ UNCHANGED steppingVars PROVE ~crossed
  BY <1>4 DEF Advance, TimePasses, Watchpoint, steppingVars, fixed
<1>5. ~crossed
  BY <1>1, <1>2, <1>3, <1>4 DEF SteppingNext, SourceStep, InstructionStep, StepOut, Continue
<1> QED
  BY <1>5 DEF SteppingInv, Uncrossed

LEMMA StartsStayAlone ==
  ASSUME SteppingTyped, Resumes, Uncrossed, NEW t \in Tasks,
         Synced(t) \/ Start(t) \/ ExecuteOne(t)
  PROVE  Uncrossed'
<1>1. CASE Synced(t)
  <2>1. /\ Moves(t, "syncing", {"starting"}) /\ task'[t].resume = task[t].resume
        /\ ~pendingPause' /\ UNCHANGED <<cpu, cause, records, op, state, polling, ui, unheard>>
    BY <1>1, Going DEF Synced, fixed, emulator, steps
  <2>2. OnItsWay'
    BY <2>1 DEF Uncrossed, OnItsWay, Moves
  <2>3. AcquiresAlone'
    BY <2>1 DEF Uncrossed, AcquiresAlone, Moves
  <2>4. StartsAlone'
    BY <2>1 DEF Uncrossed, StartsAlone, Starter, Moves
  <2>5. OneThread'
    BY <2>1 DEF Uncrossed, StartsAlone, Starter, OneThread, Moves
  <2> QED
    BY <2>2, <2>3, <2>4, <2>5 DEF Uncrossed
<1>2. CASE Start(t)
  <2>1. /\ Moves(t, "starting", {"idle"}) /\ Unresumed(t)
        /\ polling' /\ UNCHANGED <<records, op, pendingPause, unheard>>
    BY <1>2, Going DEF Start, fixed, steps
  <2>2. OnItsWay'
    BY <2>1 DEF OnItsWay
  <2>3. AcquiresAlone'
    BY <2>1 DEF Uncrossed, AcquiresAlone, Moves
  <2>4. StartsAlone'
    BY <2>1 DEF Uncrossed, StartsAlone, Starter, Moves, Unresumed
  <2>5. OneThread'
    BY <2>1 DEF Uncrossed, StartsAlone, Starter, OneThread, Moves
  <2> QED
    BY <2>2, <2>3, <2>4, <2>5 DEF Uncrossed
<1>3. CASE ExecuteOne(t)
  <2>1. /\ Moves(t, "stepping", {"inspecting"}) /\ Unresumed(t)
        /\ cpu' = "stopped" /\ state' = "paused"
        /\ UNCHANGED <<records, op, pendingPause, polling, unheard>>
    BY <1>3, Going DEF ExecuteOne, fixed, steps
  <2>2. Starter(t)
    BY <2>1 DEF Resumes, Starter, Moves
  <2>3. OnItsWay'
    BY <2>1, <2>2 DEF Uncrossed, OnItsWay, StartsAlone
  <2>4. AcquiresAlone'
    BY <2>1 DEF Uncrossed, AcquiresAlone, Moves
  <2>5. StartsAlone'
    BY <2>1, <2>2 DEF Uncrossed, StartsAlone, Starter, Moves
  <2>6. OneThread'
    BY <2>1, <2>2 DEF Uncrossed, StartsAlone, OneThread, Moves, Unresumed
  <2> QED
    BY <2>3, <2>4, <2>5, <2>6 DEF Uncrossed
<1> QED
  BY <1>1, <1>2, <1>3

\* Acquiring and responding.
LEMMA AcquiringStaysAlone ==
  ASSUME SteppingTyped, Resumes, Uncrossed, NEW t \in Tasks, Acquired(t) \/ Responds(t)
  PROVE  Uncrossed'
<1>1. Starter(t) /\ task[t].at = "acquiring"
  BY DEF Acquired, Responds, Resumes, Starter
<1>2. CASE Acquired(t)
  <2>1. /\ Moves(t, "acquiring", {"acquiring"}) /\ Unresumed(t)
        /\ UNCHANGED <<cpu, cause, records, op, pendingPause, state, polling, handled, ui, unheard>>
    BY <1>2, Going DEF Acquired, fixed, flags
  <2>2. OnItsWay'
    BY <2>1 DEF Uncrossed, OnItsWay, Moves
  <2>3. AcquiresAlone'
    BY <2>1 DEF Uncrossed, AcquiresAlone, Moves
  <2>4. StartsAlone'
    BY <1>1, <2>1 DEF Uncrossed, StartsAlone, Starter, Moves, Unresumed
  <2>5. OneThread'
    BY <2>1 DEF Uncrossed, OneThread, Moves, Unresumed
  <2> QED
    BY <2>2, <2>3, <2>4, <2>5 DEF Uncrossed
<1>3. CASE Responds(t)
  <2>1. /\ Moves(t, "acquiring", {"syncing", "stepping"}) /\ Unresumed(t)
        /\ UNCHANGED <<cpu, cause, records, op, pendingPause, state, polling, handled, unheard>>
    BY <1>3, Going DEF Responds, fixed, emulator, steps
  <2>2. OnItsWay'
    BY <2>1 DEF Uncrossed, OnItsWay, Moves
  <2>3. AcquiresAlone'
    BY <2>1 DEF Uncrossed, AcquiresAlone, Moves
  <2>4. StartsAlone'
    BY <1>1, <2>1 DEF Uncrossed, StartsAlone, Starter, Moves, Unresumed
  <2>5. OneThread'
    BY <2>1 DEF Uncrossed, OneThread, Moves, Unresumed
  <2> QED
    BY <2>2, <2>3, <2>4, <2>5 DEF Uncrossed
<1> QED
  BY <1>2, <1>3

\* Pauses and resets, and what their tasks do; an active step is cancelled.
LEMMA InterruptionsStayAlone ==
  ASSUME SteppingTyped, Resumes, Watched, Uncrossed, NEW t \in Tasks,
         Pause(t) \/ Halted(t) \/ Reset(t) \/ ResetDone(t)
  PROVE  Uncrossed'
<1>1. CASE Pause(t)
  <2>1. /\ Moves(t, "idle", {"halting"}) /\ Unresumed(t) /\ ui = "running" /\ op' = None
        /\ UNCHANGED <<cpu, cause, records, pendingPause, state, polling, handled, ui, unheard>>
    BY <1>1, Beginning, StepsCancelled DEF Pause, fixed, flags
  <2>2. OnItsWay'
    BY <2>1 DEF Uncrossed, OnItsWay, Moves
  <2>3. AcquiresAlone'
    BY <2>1 DEF Uncrossed, AcquiresAlone, Moves
  <2>4. StartsAlone'
    BY <2>1 DEF Uncrossed, StartsAlone, Starter, Moves, Unresumed
  <2>5. OneThread'
    BY <2>1 DEF OneThread
  <2> QED
    BY <2>2, <2>3, <2>4, <2>5 DEF Uncrossed
<1>2. CASE Halted(t)
  <2>1. /\ Moves(t, "halting", {"idle"}) /\ Unresumed(t) /\ polling' /\ cpu' = "stopped"
        /\ UNCHANGED <<records, op, state, ui, unheard>>
    BY <1>2, Going DEF Halted, fixed, steps
  <2>2. OnItsWay'
    BY <2>1 DEF OnItsWay
  <2>3. AcquiresAlone'
    BY <2>1 DEF Uncrossed, AcquiresAlone, Moves
  <2>4. StartsAlone'
    BY <2>1 DEF Uncrossed, StartsAlone, Starter, Moves, Unresumed
  <2>5. op = None
    BY <2>1 DEF Uncrossed, OneThread, Moves
  <2>6. OneThread'
    BY <2>1, <2>5 DEF OneThread
  <2> QED
    BY <2>2, <2>3, <2>4, <2>6 DEF Uncrossed
<1>3. CASE Reset(t)
  <2>1. /\ Moves(t, "idle", {"resetting"}) /\ (task'[t].resume => state = "running")
        /\ ~polling' /\ ~pendingPause' /\ op' = None
        /\ UNCHANGED <<cpu, records, state, ui, unheard>>
    BY <1>3, Beginning DEF Reset, fixed
  <2>2. OnItsWay'
    BY <2>1 DEF OnItsWay, Moves
  <2>3. AcquiresAlone'
    BY <2>1 DEF Uncrossed, AcquiresAlone, Moves
  <2>4. StartsAlone'
    BY <2>1 DEF Uncrossed, StartsAlone, Starter, Moves
  <2>5. OneThread'
    BY <2>1 DEF OneThread
  <2> QED
    BY <2>2, <2>3, <2>4, <2>5 DEF Uncrossed
<1>4. CASE ResetDone(t)
  <2>1. /\ Moves(t, "resetting", {"idle", "syncing"})
        /\ task'[t].resume => task[t].resume /\ task'[t].at = "syncing"
        /\ ~task'[t].resume => task'[t].at = "idle"
        /\ cpu' = "stopped" /\ state' = "paused" /\ unheard' = FALSE
        /\ UNCHANGED <<records, op, pendingPause, polling, ui>>
    BY <1>4, Going DEF ResetDone, fixed, steps
  <2>2. OnItsWay'
    BY <2>1 DEF OnItsWay
  <2>3. \A u \in Tasks : task'[u].at = "acquiring" => Starter(u) /\ task[u].at = "acquiring"
    BY <2>1 DEF Resumes, Starter, Moves
  <2>4. AcquiresAlone'
    BY <2>1, <2>3 DEF Uncrossed, AcquiresAlone, StartsAlone, Moves
  <2>5. StartsAlone'
    BY <2>1 DEF Uncrossed, StartsAlone, Starter, Moves
  <2>6. op = None
    BY <2>1 DEF Uncrossed, OneThread, Moves
  <2>7. OneThread'
    BY <2>1, <2>6 DEF OneThread
  <2> QED
    BY <2>2, <2>4, <2>5, <2>7 DEF Uncrossed
<1> QED
  BY <1>1, <1>2, <1>3, <1>4

\* Stops that are found, inspected and decided.
LEMMA StopsStayAlone ==
  ASSUME SteppingTyped, Resumes, Uncrossed, NEW t \in Tasks,
         StopFound(t) \/ Inspected(t) \/ Decided(t)
  PROVE  Uncrossed'
<1>1. CASE StopFound(t)
  <2>1. /\ Moves(t, "idle", {"inspecting"}) /\ Unresumed(t)
        /\ records /\ ~handled => task'[t].why = cause
        /\ polling /\ ~polling' /\ cpu = "stopped" /\ state' = "paused"
        /\ UNCHANGED <<records, cpu, op, pendingPause, unheard>>
    BY <1>1, Beginning DEF StopFound, fixed, emulator, steps
  <2>2. OnItsWay'
    BY <2>1 DEF OnItsWay, Moves
  <2>3. AcquiresAlone'
    BY <2>1 DEF Uncrossed, AcquiresAlone, Moves
  <2>4. StartsAlone'
    BY <2>1 DEF Uncrossed, StartsAlone, Starter, Moves, Unresumed
  <2>5. OneThread'
    BY <2>1 DEF Uncrossed, OneThread, Moves, Unresumed
  <2> QED
    BY <2>2, <2>3, <2>4, <2>5 DEF Uncrossed
<1>2. CASE Inspected(t)
  <2>1. /\ Moves(t, "inspecting", {"deciding"}) /\ Unresumed(t) /\ task'[t].why = task[t].why
        /\ UNCHANGED <<records, cpu, cause, op, pendingPause, state, polling, handled, ui, unheard>>
    BY <1>2, Going DEF Inspected, fixed, flags
  <2>2. OnItsWay'
    BY <2>1 DEF Uncrossed, OnItsWay, Moves
  <2>3. AcquiresAlone'
    BY <2>1 DEF Uncrossed, AcquiresAlone, Moves
  <2>4. StartsAlone'
    BY <2>1 DEF Uncrossed, StartsAlone, Starter, Moves, Unresumed
  <2>5. OneThread'
    BY <2>1 DEF Uncrossed, OneThread, Moves, Unresumed
  <2> QED
    BY <2>2, <2>3, <2>4, <2>5 DEF Uncrossed
<1>3. CASE Decided(t) /\ GoesOn(t)
  <2>1. /\ op # None /\ ~HigherPriority(task[t].why) /\ Moves(t, "deciding", {"syncing", "stepping"})
        /\ Unresumed(t) /\ UNCHANGED <<records, cpu, pendingPause, state, polling, unheard>>
    BY <1>3 DEF GoesOn, fixed, emulator
  <2>2. /\ cpu = "stopped" /\ state = "paused" /\ ~polling /\ ~pendingPause /\ (records => ~unheard)
        /\ \A u \in Tasks : u # t => task[u].at = "idle"
    BY <2>1 DEF Uncrossed, OneThread, Moves, HigherPriority
  <2>3. OnItsWay'
    BY <2>1, <2>2 DEF OnItsWay
  <2>4. AcquiresAlone'
    BY <2>1, <2>2 DEF AcquiresAlone, Moves
  <2>5. \A u \in Tasks : ~task'[u].resume
    BY <2>1, <2>2 DEF Resumes, Moves, Unresumed
  <2>6. StartsAlone'
    BY <2>1, <2>2, <2>5 DEF StartsAlone, Starter, Moves
  <2>7. OneThread'
    BY <2>1, <2>2, <2>5 DEF OneThread, Moves
  <2> QED
    BY <2>3, <2>4, <2>6, <2>7 DEF Uncrossed
<1>4. CASE Decided(t) /\ ~GoesOn(t)
  <2>1. Moves(t, "deciding", {"idle"}) /\ Unresumed(t) /\ Report(t)
    BY <1>4, Beginning
  <2>2. /\ ~unheard' /\ UNCHANGED <<records, cpu, state, polling>>
        /\ pendingPause' => pendingPause
    BY <1>4, <2>1 DEF Decided, Report, fixed
  <2>3. ASSUME op' # None PROVE op' # None /\ op # None
    BY <1>4, <2>3 DEF Decided, EndStep, Cancel, steps
  <2>4. OnItsWay'
    BY <2>2 DEF OnItsWay
  <2>5. AcquiresAlone'
    BY <2>1, <2>2 DEF Uncrossed, AcquiresAlone, Moves
  <2>6. StartsAlone'
    BY <2>1, <2>2 DEF Uncrossed, StartsAlone, Starter, Moves, Unresumed
  <2>7. OneThread'
    BY <2>1, <2>2, <2>3 DEF Uncrossed, OneThread, Moves
  <2> QED
    BY <2>4, <2>5, <2>6, <2>7 DEF Uncrossed
<1> QED
  BY <1>1, <1>2, <1>3, <1>4

LEMMA FailuresStayAlone ==
  ASSUME SteppingTyped, Resumes, Uncrossed, NEW t \in Tasks, Fails(t) \/ Rejected(t)
  PROVE  Uncrossed'
<1>1. /\ Moves(t, task[t].at, {"idle"}) /\ Unresumed(t)
      /\ task[t].at \in {"acquiring", "syncing", "starting", "stepping"}
      /\ UNCHANGED <<records, cpu, cause, pendingPause, state, polling, handled, ui, unheard>>
  BY Beginning DEF Fails, Rejected, fixed, emulator
<1>2. op' # None => op # None
  BY DEF Fails, Rejected, Cancel, EndStep, steps
<1>3. OnItsWay'
  BY <1>1 DEF Uncrossed, OnItsWay, Moves
<1>4. AcquiresAlone'
  BY <1>1 DEF Uncrossed, AcquiresAlone, Moves
<1>5. StartsAlone'
  BY <1>1 DEF Uncrossed, StartsAlone, Starter, Moves, Unresumed
<1>6. OneThread'
  BY <1>1, <1>2 DEF Uncrossed, OneThread, Moves
<1> QED
  BY <1>3, <1>4, <1>5, <1>6 DEF Uncrossed

LEMMA OffersStayAlone ==
  ASSUME SteppingInv, Uncrossed, ~crossed', NEW t \in Tasks,
         \/ \E kind \in {"into", "over", "out"} : SourceStep(t, kind)
         \/ InstructionStep(t) \/ StepOut(t) \/ Continue(t)
  PROVE  Uncrossed'
<1>1. SteppingTyped /\ Resumes /\ Offered(t)
  BY DEF SteppingInv, SourceStep, InstructionStep, StepOut, Continue
<1>2. /\ ~polling /\ ~pendingPause /\ ui = "stopped" /\ cpu = "stopped" /\ state = "paused"
      /\ records => ~unheard
      /\ \A u \in Tasks : task[u].at = "idle" /\ ~task[u].resume
  BY <1>1, OffersAreQuiet DEF Resumes
<1>3. UNCHANGED <<records, cpu, pendingPause, state, polling, unheard>>
  BY DEF SourceStep, InstructionStep, StepOut, Continue, emulator, flags
<1>4. ASSUME Moves(t, "idle", {"acquiring"}), Unresumed(t), UNCHANGED ui PROVE Uncrossed'
  BY <1>1, <1>3, <1>4, AcquiringBegins DEF Moves, Unresumed
<1>5. ASSUME Moves(t, "idle", {"syncing", "stepping"}), Unresumed(t) PROVE Uncrossed'
  <2>1. OnItsWay'
    BY <1>2, <1>3 DEF OnItsWay
  <2>2. AcquiresAlone'
    BY <1>2, <1>5 DEF AcquiresAlone, Moves
  <2>3. StartsAlone'
    BY <1>2, <1>3, <1>5 DEF StartsAlone, Starter, Moves, Unresumed
  <2>4. OneThread'
    BY <1>2, <1>3, <1>5 DEF OneThread, Moves, Unresumed
  <2> QED
    BY <2>1, <2>2, <2>3, <2>4 DEF Uncrossed
<1>6. ASSUME UNCHANGED task PROVE Uncrossed'
  <2>1. OnItsWay'
    BY <1>2, <1>3 DEF OnItsWay
  <2>2. \A u \in Tasks : task'[u].at = "idle"
    BY <1>2, <1>6
  <2>3. AcquiresAlone'
    BY <2>2 DEF AcquiresAlone
  <2>4. StartsAlone'
    BY <2>2 DEF StartsAlone, Starter
  <2>5. OneThread'
    BY <1>2, <1>3, <2>2 DEF OneThread
  <2> QED
    BY <2>1, <2>3, <2>4, <2>5 DEF Uncrossed
<1>7. ASSUME NEW kind \in {"into", "over", "out"}, SourceStep(t, kind) PROVE Uncrossed'
  <2>1. UNCHANGED ui
    BY <1>7 DEF SourceStep
  <2> QED
    BY <1>1, <1>4, <1>6, <1>7, <2>1, Beginning
<1>8. CASE InstructionStep(t)
  <2>1. CASE ui' = "running"
    <3>1. Moves(t, "idle", {"stepping"}) /\ Unresumed(t)
      BY <1>1, <1>8, <2>1, Beginning
    <3> QED
      BY <1>5, <3>1 DEF Moves
  <2>2. CASE ui' # "running"
    <3>1. Moves(t, "idle", {"acquiring"}) /\ Unresumed(t)
      BY <1>1, <1>8, <2>2, Beginning
    <3>2. UNCHANGED ui
      BY <1>8, <2>2 DEF InstructionStep
    <3> QED
      BY <1>4, <3>1, <3>2
  <2> QED
    BY <2>1, <2>2
<1>9. CASE StepOut(t)
  <2>1. UNCHANGED ui
    BY <1>9 DEF StepOut
  <2> QED
    BY <1>1, <1>4, <1>9, <2>1, Beginning
<1>10. CASE Continue(t)
  <2>1. Moves(t, "idle", {"syncing"}) /\ Unresumed(t)
    BY <1>1, <1>10, Beginning
  <2> QED
    BY <1>5, <2>1 DEF Moves
<1> QED
  BY <1>7, <1>8, <1>9, <1>10

LEMMA ProgramStaysAlone ==
  ASSUME SteppingTyped, Watched, Uncrossed, Advance \/ TimePasses \/ Watchpoint \/ UNCHANGED steppingVars
  PROVE  Uncrossed'
<1>1. CASE Advance
  <2>1. /\ cpu = "running" /\ UNCHANGED <<records, op, task, pendingPause, state, polling, ui>>
        /\ unheard' => cpu' = "stopped" /\ cause' = "user"
        /\ handled' => cpu' = "running"
    BY <1>1 DEF Advance, fixed, steps
  <2>2. OnItsWay'
    BY <2>1 DEF Watched, Resetting, OnItsWay
  <2>3. AcquiresAlone'
    BY <2>1 DEF Uncrossed, AcquiresAlone
  <2>4. StartsAlone'
    BY <2>1 DEF Uncrossed, StartsAlone, Starter
  <2>5. OneThread'
    BY <2>1 DEF Uncrossed, OneThread
  <2> QED
    BY <2>2, <2>3, <2>4, <2>5 DEF Uncrossed
<1>2. CASE Watchpoint
  <2>1. cpu = "running" /\ UNCHANGED <<records, op, task, pendingPause, state, polling, ui, unheard>>
    BY <1>2 DEF Watchpoint, fixed, steps
  <2>2. OnItsWay'
    BY <2>1 DEF Uncrossed, OnItsWay
  <2>3. AcquiresAlone'
    BY <2>1 DEF Uncrossed, AcquiresAlone
  <2>4. StartsAlone'
    BY <2>1 DEF Uncrossed, StartsAlone, Starter
  <2>5. OneThread'
    BY <2>1 DEF Uncrossed, OneThread
  <2> QED
    BY <2>2, <2>3, <2>4, <2>5 DEF Uncrossed
<1>3. CASE TimePasses \/ UNCHANGED steppingVars
  BY <1>3 DEF TimePasses, steppingVars, fixed, emulator, steps, flags, Uncrossed, OnItsWay,
              AcquiresAlone, StartsAlone, Starter, OneThread
<1> QED
  BY <1>1, <1>2, <1>3

LEMMA UncrossedStays ==
  ASSUME SteppingInv, [SteppingNext]_steppingVars, ~crossed'
  PROVE  Uncrossed'
<1>1. SteppingTyped /\ Resumes /\ Watched /\ Uncrossed
  BY UncrossedBefore DEF SteppingInv
<1>2. ASSUME NEW t \in Tasks, Goes(t) \/ Fails(t) \/ Rejected(t) \/ StopFound(t) PROVE Uncrossed'
  BY <1>1, <1>2, StartsStayAlone, AcquiringStaysAlone, InterruptionsStayAlone, StopsStayAlone,
     FailuresStayAlone DEF Goes
<1>3. ASSUME NEW t \in Tasks,
             \/ \E kind \in {"into", "over", "out"} : SourceStep(t, kind)
             \/ InstructionStep(t) \/ StepOut(t) \/ Continue(t)
      PROVE  Uncrossed'
  BY <1>1, <1>3, OffersStayAlone
<1>4. ASSUME NEW t \in Tasks, Pause(t) \/ Reset(t) PROVE Uncrossed'
  BY <1>1, <1>4, InterruptionsStayAlone
<1>5. CASE Advance \/ TimePasses \/ Watchpoint \/ UNCHANGED steppingVars
  BY <1>1, <1>5, ProgramStaysAlone
<1> QED
  BY <1>2, <1>3, <1>4, <1>5 DEF SteppingNext

\* What a step holds, with no command refused.
LEMMA HeldStaysInTime ==
  ASSUME SteppingInv, [SteppingNext]_steppingVars, ~crossed', failures' = 0
  PROVE  HeldInTime'
<1>1. failures = 0
  <2>1. failures \in Nat
    BY DEF SteppingInv, SteppingTyped
  <2>2. ASSUME NEW t \in Tasks, Fails(t) \/ Rejected(t) PROVE FALSE
    BY <2>1, <2>2 DEF Fails, Rejected
  <2>3. ASSUME NEW t \in Tasks, Goes(t) \/ StopFound(t) PROVE failures' = failures
    BY <2>3 DEF Goes, Synced, Start, ExecuteOne, Acquired, Responds, Halted, ResetDone, Inspected,
                Decided, StopFound
  <2>4. ASSUME NEW t \in Tasks,
               \/ \E kind \in {"into", "over", "out"} : SourceStep(t, kind)
               \/ InstructionStep(t) \/ StepOut(t) \/ Continue(t) \/ Pause(t) \/ Reset(t)
        PROVE  failures' = failures
    BY <2>4 DEF SourceStep, InstructionStep, StepOut, Continue, Pause, Reset
  <2>5. Advance \/ TimePasses \/ Watchpoint \/ UNCHANGED steppingVars => failures' = failures
    BY DEF Advance, TimePasses, Watchpoint, steppingVars
  <2> QED
    BY <2>2, <2>3, <2>4, <2>5 DEF SteppingNext
<1>2. SteppingTyped /\ Resumes /\ Uncrossed /\ HeldInTime
  BY <1>1, UncrossedBefore DEF SteppingInv
<1>3. ASSUME op' = None, addresses' = {} PROVE HeldInTime'
  BY <1>3 DEF HeldInTime
\* Nothing is held longer, nothing is shown, and no one decides that did not.
<1>4. ASSUME NEW t \in Tasks, NEW from \in Awaits \ {"acquiring"}, NEW to,
             Moves(t, from, to), "deciding" \notin to,
             op' = op \/ addresses' = {}, op' # None => op # None, addresses' \subseteq addresses,
             ui' = "stopped" => ui = "stopped"
      PROVE  HeldInTime'
  <2>1. Acquiring => Acquiring'
    BY <1>4 DEF Acquiring, Moves
  <2>2. (op' # None \/ addresses' # {}) /\ ui' = "stopped" => Acquiring'
    BY <1>2, <1>4, <2>1 DEF HeldInTime
  <2>3. op' = None => \A u \in Tasks : task'[u].at = "deciding" => addresses' = {}
    BY <1>2, <1>4 DEF HeldInTime, Moves
  <2> QED
    BY <2>2, <2>3 DEF HeldInTime
<1>5. ASSUME NEW t \in Tasks, Synced(t) \/ Start(t) \/ ExecuteOne(t) \/ Halted(t) \/ ResetDone(t)
      PROVE  HeldInTime'
  <2>1. UNCHANGED <<op, addresses>> /\ (ui' = "stopped" => ui = "stopped")
    BY <1>5 DEF Synced, Start, ExecuteOne, Halted, ResetDone, steps
  <2> QED
    BY <1>2, <1>4, <1>5, <2>1, Going DEF Awaits
<1>6. ASSUME NEW t \in Tasks, Acquired(t) PROVE HeldInTime'
  <2>1. Moves(t, "acquiring", {"acquiring"})
    BY <1>2, <1>6, Going
  <2>2. Acquiring' /\ \A u \in Tasks : task'[u].at # "deciding"
    BY <1>2, <2>1 DEF Acquiring, Moves, Uncrossed, AcquiresAlone
  <2> QED
    BY <2>2 DEF HeldInTime
<1>7. ASSUME NEW t \in Tasks, Responds(t) PROVE HeldInTime'
  <2>1. Moves(t, "acquiring", {"syncing", "stepping"}) /\ ui' = "running"
    BY <1>2, <1>7, Going DEF Responds
  <2>2. \A u \in Tasks : task'[u].at # "deciding"
    BY <1>2, <2>1 DEF Moves, Uncrossed, AcquiresAlone
  <2> QED
    BY <2>1, <2>2 DEF HeldInTime
<1>8. ASSUME NEW t \in Tasks, Inspected(t) PROVE HeldInTime'
  <2>1. /\ Moves(t, "inspecting", {"deciding"}) /\ UNCHANGED <<op, ui>>
        /\ addresses' = addresses \ (IF op = None THEN addresses ELSE {})
    BY <1>2, <1>8, Going DEF Inspected
  <2>2. Acquiring => Acquiring'
    BY <2>1 DEF Acquiring, Moves
  <2> QED
    BY <1>2, <2>1, <2>2 DEF HeldInTime
<1>9. ASSUME NEW t \in Tasks, Decided(t) PROVE HeldInTime'
  <2>1. CASE GoesOn(t)
    <3>1. /\ Moves(t, "deciding", {"syncing", "stepping"}) /\ UNCHANGED <<ui, addresses>> /\ op # None
      BY <2>1 DEF GoesOn
    <3>2. ui = "running" /\ \A u \in Tasks : task'[u].at # "deciding"
      BY <1>2, <3>1 DEF HeldInTime, Acquiring, Moves, Uncrossed, OneThread, SteppingTyped
    <3> QED
      BY <3>1, <3>2 DEF HeldInTime
  <2>2. CASE ~GoesOn(t)
    <3>1. task[t].at = "deciding" /\ Moves(t, "deciding", {"idle"})
      BY <1>2, <1>9, <2>2, Beginning DEF Decided
    <3>2. ~Becomes(t, Onward)
      BY <1>2, <3>1, Becoming DEF Onward, At, Idle, Moves
    <3>3. CASE op = None
      <4>1. addresses = {}
        BY <1>2, <3>1, <3>3 DEF HeldInTime
      <4> QED
        BY <1>3, <1>9, <3>3, <4>1 DEF Decided, EndStep, Cancel, steps
    <3>4. CASE op # None
      <4>1. ~pendingPause
        BY <1>2, <3>4 DEF Uncrossed, OneThread
      <4> QED
        BY <1>3, <1>9, <3>2, <3>4, <4>1 DEF Decided, EndStep, Cancel
    <3> QED
      BY <3>3, <3>4
  <2> QED
    BY <2>1, <2>2
<1>10. ASSUME NEW t \in Tasks, StopFound(t) PROVE HeldInTime'
  <2>1. UNCHANGED <<op, addresses, ui>>
    BY <1>10 DEF StopFound, steps
  <2> QED
    BY <1>2, <1>4, <1>10, <2>1, Beginning DEF Awaits
<1>11. ASSUME NEW t \in Tasks, Offered(t)
       PROVE  op = None /\ addresses = {} /\ ui = "stopped" /\ \A u \in Tasks : task[u].at = "idle"
  BY <1>2, <1>11, OffersAreQuiet DEF HeldInTime, Acquiring
<1>12. ASSUME NEW t \in Tasks, Moves(t, "idle", {"acquiring"}), Offered(t) PROVE HeldInTime'
  <2>1. Acquiring' /\ \A u \in Tasks : task'[u].at # "deciding"
    BY <1>11, <1>12 DEF Acquiring, Moves
  <2> QED
    BY <2>1 DEF HeldInTime
<1>13. ASSUME NEW t \in Tasks, NEW kind \in {"into", "over", "out"}, SourceStep(t, kind)
       PROVE  HeldInTime'
  <2>1. addresses' = {} /\ Offered(t)
    BY <1>13 DEF SourceStep
  <2> QED
    BY <1>2, <1>3, <1>12, <1>13, <2>1, Beginning
<1>14. ASSUME NEW t \in Tasks, InstructionStep(t) \/ Continue(t) PROVE HeldInTime'
  <2>1. Offered(t) /\ (Cancel \/ UNCHANGED steps)
    BY <1>14 DEF InstructionStep, Continue
  <2> QED
    BY <1>3, <1>11, <2>1 DEF Cancel, EndStep, steps
<1>15. ASSUME NEW t \in Tasks, StepOut(t) PROVE HeldInTime'
  BY <1>2, <1>12, <1>15, Beginning DEF StepOut
<1>16. ASSUME NEW t \in Tasks, Pause(t) PROVE HeldInTime'
  <2>1. UNCHANGED ui /\ Cancel
    BY <1>16 DEF Pause
  <2>2. op' = None /\ (op' = op \/ addresses' = {}) /\ addresses' \subseteq addresses
    BY <1>2, <2>1, StepsCancelled
  <2> QED
    BY <1>2, <1>4, <1>16, <2>1, <2>2, Beginning DEF Awaits
<1>17. ASSUME NEW t \in Tasks, Reset(t) PROVE HeldInTime'
  BY <1>3, <1>17 DEF Reset
<1>18. CASE Advance \/ TimePasses \/ Watchpoint \/ UNCHANGED steppingVars
  BY <1>2, <1>18 DEF Advance, TimePasses, Watchpoint, steppingVars, steps, flags, HeldInTime, Acquiring
<1> QED
  BY <1>1, <1>5, <1>6, <1>7, <1>8, <1>9, <1>10, <1>13, <1>14, <1>15, <1>16, <1>17, <1>18
     DEF SteppingNext, Goes, Fails, Rejected
----------------------------------------------------------------------------
LEMMA SteppingStarts == SteppingInit => SteppingInv
<1> SUFFICES ASSUME SteppingInit PROVE SteppingInv
  OBVIOUS
<1>1. 1 \in Addr
  BY SteppingAssumption DEF Addr
<1>2. task = [t \in Tasks |-> Idle] /\ \A t \in Tasks : task[t] = Idle
  BY DEF SteppingInit
<1>3. task \in [Tasks -> TaskRecords]
  BY <1>2, NewRecords
<1>4. SteppingTyped
  BY <1>1, <1>3 DEF SteppingInit, SteppingTyped, Causes
<1>5. \A t \in Tasks : task[t].at = "idle" /\ ~task[t].resume
  BY <1>2, RecordFields
<1>6. Resumes /\ Watched
  BY <1>5 DEF SteppingInit, Resumes, Watched
<1>7. OnItsWay /\ AcquiresAlone /\ StartsAlone /\ OneThread
  BY <1>5 DEF SteppingInit, OnItsWay, AcquiresAlone, StartsAlone, Starter, OneThread
<1>8. HeldInTime
  BY DEF SteppingInit, HeldInTime
<1> QED
  BY <1>4, <1>6, <1>7, <1>8 DEF SteppingInv

LEMMA SteppingGoesOn == SteppingInv /\ [SteppingNext]_steppingVars => SteppingInv'
<1> SUFFICES ASSUME SteppingInv, [SteppingNext]_steppingVars PROVE SteppingInv'
  OBVIOUS
<1>1. SteppingTyped' /\ Resumes' /\ Watched'
  BY TypesStay, ResumesStay, WatchedStays DEF SteppingInv
<1>2. ~crossed' => (OnItsWay /\ AcquiresAlone /\ StartsAlone /\ OneThread)'
  BY UncrossedStays DEF Uncrossed
<1>3. ~crossed' /\ failures' = 0 => HeldInTime'
  BY HeldStaysInTime
<1> QED
  BY <1>1, <1>2, <1>3 DEF SteppingInv

\* SteppingInv holds in every state of every behaviour.
LEMMA SteppingInvariant == SteppingSpec => []SteppingInv
<1>1. SteppingInit => SteppingInv
  BY SteppingStarts
<1>2. SteppingInv /\ [SteppingNext]_steppingVars => SteppingInv'
  BY SteppingGoesOn
<1> QED
  BY <1>1, <1>2, PTL DEF SteppingSpec

(* A source step that ended, was cancelled or was interrupted leaves nothing      *)
(* behind: at a stop that is shown, with every request answered, no step is      *)
(* active and none of its temporaries is held, whatever the program and however   *)
(* many requests, pauses and resets interleaved (SourceStepService.finish and      *)
(* cancel, the release hook, releaseSourceStep in onStop).                      *)
THEOREM StepsLeaveNothing == SteppingSpec => []StepsEndClean
<1>1. ASSUME SteppingInv PROVE StepsEndClean
  <2>1. SteppingTypeOK
    <3>1. SteppingTyped
      BY <1>1 DEF SteppingInv
    <3>2. \A t \in Tasks : task[t].at \in Awaits /\ task[t].todo \subseteq Addr
      BY <3>1 DEF SteppingTyped, TaskRecords
    <3>3. op = None \/ (op.kind \in {"into", "over", "out"} /\ op.count \in 0..MaxInstructions)
      BY <3>1 DEF SteppingTyped, Operations
    <3> QED
      BY <3>1, <3>2, <3>3 DEF SteppingTyped, SteppingTypeOK, Causes
  <2>2. ASSUME Quiet, failures = 0, ~crossed PROVE op = None /\ addresses = {}
    BY <1>1, <2>2 DEF SteppingInv, HeldInTime, Acquiring, Quiet
  <2> QED
    BY <2>1, <2>2 DEF StepsEndClean
<1> QED
  BY <1>1, SteppingInvariant, PTL

(* A stop at a breakpoint of the user reaches the user: no source step, and no     *)
(* handler of an earlier stop, lets the program go before VS Code was told of it, *)
(* resets and steps begun across a pause excepted.                              *)
THEOREM UserStopsAreReported == SteppingSpec => UserBreakpointsHold
<1> DEFINE Expected ==
      /\ records /\ unheard /\ cpu = "stopped" /\ ~crossed
      /\ \A t \in Tasks : ~task[t].resume /\ task[t].at # "resetting"
    Stays == cpu' = "stopped" /\ pc' = pc
<1>1. ASSUME SteppingInv, [SteppingNext]_steppingVars PROVE [Expected => Stays]_steppingVars
  <2> SUFFICES ASSUME SteppingNext, Expected PROVE Stays
    BY <1>1 DEF Expected
  <2>1. \A t \in Tasks : ~Starter(t)
    BY <1>1 DEF SteppingInv, StartsAlone
  <2>2. \A t \in Tasks : ~(Start(t) \/ ExecuteOne(t) \/ ResetDone(t))
    BY <2>1 DEF Starter, Start, ExecuteOne, ResetDone
  <2>3. ASSUME NEW t \in Tasks, Goes(t) \/ Fails(t) \/ Rejected(t) \/ StopFound(t) PROVE Stays
    BY <2>2, <2>3 DEF Goes, Synced, Acquired, Responds, Halted, Inspected, Decided, Fails, Rejected,
                      StopFound, emulator
  <2>4. ASSUME NEW t \in Tasks, NEW kind \in {"into", "over", "out"}, SourceStep(t, kind) PROVE Stays
    BY <2>4 DEF SourceStep, emulator
  <2>5. ASSUME NEW t \in Tasks, InstructionStep(t) \/ StepOut(t) \/ Continue(t) \/ Pause(t) \/ Reset(t)
        PROVE  Stays
    BY <2>5 DEF InstructionStep, StepOut, Continue, Pause, Reset, emulator
  <2>6. CASE Advance \/ TimePasses \/ Watchpoint
    BY <2>6 DEF Advance, TimePasses, Watchpoint, emulator
  <2> QED
    BY <2>3, <2>4, <2>5, <2>6 DEF SteppingNext
<1> QED
  BY <1>1, SteppingInvariant, PTL DEF SteppingSpec, UserBreakpointsHold
--------------------------------------------------------------------------------
(***************************************************************************)
(* Inspection: for every number of moments, requests, refused reads and        *)
(* handles, the invariant behind AnswersAreOfTheirStop and FramesStayOpen, and *)
(* its proof.                                                               *)
(***************************************************************************)
Contexts == [gen : Nat, moment : Moments]
Histories == [gen : Nat, by : OrNothing(Readers)]
Requests == [at : {"idle", "registers", "unwind", "trace", "joined", "read", "evaluate"},
             of : OrNothing(Moments), gen : Nat, ctx : OrNothing(Contexts),
             loc : OrNothing(Moments), rev : Nat, stale : BOOLEAN]
Stacks == [gen : Int, of : OrNothing(Moments), whole : BOOLEAN]
Handles == [id : Nat, kind : {"scope", "value"}, ctx : OrNothing(Contexts), loc : OrNothing(Moments)]
Given == [kind : {"frame", "handle"}, id : Int, stop : OrNothing(Moments)]

InspectionTyped ==
    /\ moment \in Moments /\ running \in BOOLEAN /\ traced \in BOOLEAN /\ kept \in BOOLEAN
    /\ gen \in Nat /\ cachedRegs \in OrNothing(Moments) /\ context \in OrNothing(Contexts)
    /\ stack \in Stacks /\ revision \in Nat /\ pending \in OrNothing(Readers)
    /\ history \in OrNothing(Histories)
    /\ handles \subseteq Handles /\ nextHandle \in Nat
    /\ reader \in [Readers -> Requests]
    /\ stopping \in {"no", "refresh", "logged", "letting", "resuming", "executing", "resetting"}
    /\ shown \in OrNothing(Moments) /\ given \subseteq Given
    /\ refused \in Nat

\* A captured context is that of the last stop, while the program is stopped there
\* and VS Code shows no other.
Stopped ==
    /\ context # Nothing =>
          /\ context.gen = gen /\ ~running /\ stopping \in {"no", "refresh", "logged", "executing"}
          /\ ~kept => context.moment = moment
          /\ shown \in {Nothing, moment}
    /\ running => shown = Nothing
    /\ stopping = "refresh" => /\ ~running /\ shown \in {Nothing, moment}
                               /\ shown = Nothing => context = Nothing
    /\ stopping \in {"logged", "resuming"} => shown = Nothing /\ ~running
    /\ stopping \in {"letting", "executing", "resetting"} => shown # Nothing
    /\ stopping \in {"letting", "resuming", "executing", "resetting"} => moment < MaxMoment

\* Frames of this generation are of the stop, and complete unless a read was refused.
Stacked ==
    /\ stack.gen <= gen
    /\ stack.gen = gen => /\ context # Nothing
                          /\ ~kept => stack.of = moment
                          /\ refused = 0 => stack.whole

\* A context that somebody holds is the current one or of an earlier generation.
Known(ctx) == ctx = Nothing \/ ctx.gen < gen \/ ctx = context

\* What a request was asked with agrees with the stop it was asked of.
Asked(e) ==
    /\ Known(e.ctx)
    /\ e.at \in {"unwind", "trace", "evaluate"} =>
          e.ctx # Nothing /\ e.gen = e.ctx.gen /\ (~kept => e.ctx.moment = e.of)
    /\ e.at = "evaluate" => e.loc = e.ctx.moment /\ (e.ctx = context => e.of = moment)
    /\ e.at \in {"registers", "unwind", "trace", "joined", "read"} /\ ~e.stale => shown # Nothing /\ e.of = shown
    /\ e.at = "read" /\ ~e.stale /\ ~kept => e.loc = e.of
    /\ e.at = "unwind" => ~traced
    /\ e.at = "trace" => traced

Reading == \A r \in Readers : Asked(reader[r])

\* Captures are told apart by their revision; only a capture of what is not there
\* can still be kept; and who joined one waits for a request of the same stop.
Capturing ==
    /\ pending # Nothing => reader[pending].at = "unwind"
    /\ \A r \in Readers : reader[r].at = "unwind" =>
          /\ reader[r].rev <= revision
          /\ reader[r].rev = revision => stack.gen # gen
          /\ \A q \in Readers \ {r} : reader[q].at = "unwind" => reader[q].rev # reader[r].rev
    /\ \A q \in Readers : reader[q].at = "joined" =>
          /\ reader[q].rev \in Readers /\ reader[reader[q].rev].at \in {"unwind", "trace"}
          /\ ~kept => reader[reader[q].rev].ctx.moment = reader[q].of
    /\ history # Nothing =>
          /\ traced /\ history.gen <= gen
          /\ history.by # Nothing =>
                reader[history.by].at = "trace" /\ reader[history.by].gen = history.gen
          /\ history.by = Nothing /\ history.gen = gen => stack.gen = gen

\* A frame VS Code holds is of the stop it shows, and so is a reference that is
\* still in the handle store.
Holding ==
    /\ \A f \in given : f.kind = "frame" =>
          /\ f.id <= gen /\ (f.id = gen => stack.gen = gen)
          /\ shown # Nothing /\ f.stop = shown
    /\ \A g \in given : g.kind = "handle" => g.id < nextHandle
    /\ \A h \in handles : h.id < nextHandle /\ Known(h.ctx)
    /\ \A g \in given, h \in handles : g.kind = "handle" /\ g.id = h.id =>
          /\ ~kept => h.loc = g.stop
          /\ IF shown = Nothing THEN context # Nothing ELSE g.stop = shown

Honest == said.what \in {"stack", "variables", "evaluate"} /\ ~kept => said.data \subseteq {said.stop}

InspectionInv == InspectionTyped /\ Stopped /\ Stacked /\ Reading /\ Capturing /\ Holding /\ Honest
-----------------------------------------------------------------------------
(* The stop.                                                                *)

LEMMA NothingIsNone ==
  /\ Nothing \notin Moments /\ Nothing \notin Readers /\ Nothing \notin Contexts /\ Nothing \notin Histories
  /\ \A h \in Histories : h.gen \in Nat /\ h.by \in OrNothing(Readers)
  /\ \A c \in Contexts : c.gen \in Nat /\ c.moment \in Moments
<1>1. Moments \subseteq Nat /\ Readers \subseteq Nat
  BY InspectionAssumption DEF Moments, Readers
<1>2. Contexts \subseteq [gen : Nat, moment : Nat]
  BY <1>1 DEF Contexts
<1> QED
  BY <1>1, <1>2, InspectionAssumption DEF Contexts, Histories, OrNothing

\* The program or the controller goes on, and nothing the adapter holds changes.
LEMMA AsideKeeps ==
  ASSUME InspectionInv, InspectionTyped', Stopped',
         UNCHANGED <<gen, context, traceVars, handleVars, reader, vscode>>,
         moment' = moment \/ context = Nothing, refused' >= refused, kept => kept'
  PROVE  InspectionInv'
<1> USE DEF InspectionInv, traceVars, handleVars, vscode
<1>1. Stacked'
  BY DEF Stacked, InspectionTyped
<1>2. Reading'
  BY DEF Reading, Asked, Known
<1>3. Capturing'
  BY DEF Capturing
<1>4. Holding'
  BY DEF Holding, Known
<1>5. Honest'
  BY DEF Honest
<1> QED
  BY <1>1, <1>2, <1>3, <1>4, <1>5

\* Everything captured is dropped, and VS Code told or not.
LEMMA InvalidatedKeeps ==
  ASSUME InspectionInv, InspectionTyped', Stopped', Invalidate, kept' = kept,
         Continued \/ UNCHANGED <<reader, vscode>>
  PROVE  InspectionInv'
<1> USE DEF InspectionInv, Invalidate, Forget, vscode
<1>a. gen' = gen + 1 /\ gen \in Nat /\ revision \in Nat /\ reader \in [Readers -> Requests]
  BY DEF InspectionTyped
<1>b. \A r \in Readers :
        /\ reader'[r].at = reader[r].at /\ reader'[r].of = reader[r].of /\ reader'[r].gen = reader[r].gen
        /\ reader'[r].ctx = reader[r].ctx /\ reader'[r].loc = reader[r].loc /\ reader'[r].rev = reader[r].rev
        /\ Continued => reader'[r].stale
        /\ ~Continued => reader'[r].stale = reader[r].stale
  BY <1>a DEF Continued, Requests
<1>c. \A c : Known(c) => c = Nothing \/ c.gen < gen \/ c.gen = gen
  BY DEF Known, Stopped
<1>d. \A r \in Readers : reader[r].ctx \in OrNothing(Contexts) /\ reader[r].rev \in Nat
  BY <1>a DEF Requests
<1>1. Stacked'
  <2>1. stack'.gen = -1
    BY DEF NoStack
  <2> QED
    BY <1>a, <2>1 DEF Stacked
<1>2. Reading'
  <2> SUFFICES ASSUME NEW r \in Readers PROVE Asked(reader[r])'
    BY DEF Reading
  <2>1. Asked(reader[r])
    BY DEF Reading
  <2>2. Known(reader[r].ctx)'
    BY <1>a, <1>b, <1>c, <1>d, <2>1, NothingIsNone DEF Asked, Known, OrNothing
  <2>3. ~Continued => UNCHANGED <<shown>>
    OBVIOUS
  <2>4. context' = Nothing /\ traced' = traced
    OBVIOUS
  <2> QED
    BY <1>b, <2>1, <2>2, <2>3, <2>4 DEF Asked
<1>3. Capturing'
  <2>1. pending' = Nothing /\ history' = Nothing /\ revision' = revision + 1
    OBVIOUS
  <2>2. ASSUME NEW r \in Readers, reader'[r].at = "unwind"
        PROVE  /\ reader'[r].rev <= revision' /\ reader'[r].rev # revision'
               /\ \A q \in Readers \ {r} : reader'[q].at = "unwind" => reader'[q].rev # reader'[r].rev
    BY <1>a, <1>b, <1>d, <2>1, <2>2 DEF Capturing
  <2>3. ASSUME NEW q \in Readers, reader'[q].at = "joined"
        PROVE  /\ reader'[q].rev \in Readers /\ reader'[reader'[q].rev].at \in {"unwind", "trace"}
               /\ ~kept' => reader'[reader'[q].rev].ctx.moment = reader'[q].of
    <3>1. /\ reader[q].rev \in Readers /\ reader[reader[q].rev].at \in {"unwind", "trace"}
          /\ ~kept => reader[reader[q].rev].ctx.moment = reader[q].of
      BY <1>b, <2>3 DEF Capturing
    <3> QED
      BY <1>b, <3>1
  <2> QED
    BY <2>1, <2>2, <2>3 DEF Capturing
<1>4. Holding'
  <2>1. handles' = {} /\ (given' = {} \/ (given' = given /\ shown' = shown)) /\ nextHandle' = nextHandle
    BY DEF Continued
  <2>2. \A f \in given : f.id \in Int
    BY DEF InspectionTyped, Given
  <2> QED
    BY <1>a, <2>1, <2>2 DEF Holding
<1>5. Honest'
  BY DEF Honest, Continued, Silent
<1> QED
  BY <1>1, <1>2, <1>3, <1>4, <1>5

\* VS Code hears of a program that goes on: its requests are stale, and only that.
LEMMA StaleIsTyped ==
  ASSUME InspectionTyped, Continued
  PROVE  /\ reader' \in [Readers -> Requests] /\ shown' = Nothing /\ given' = {} /\ said' = Silent
         /\ \A r \in Readers :
              /\ reader'[r].at = reader[r].at /\ reader'[r].of = reader[r].of /\ reader'[r].gen = reader[r].gen
              /\ reader'[r].ctx = reader[r].ctx /\ reader'[r].loc = reader[r].loc /\ reader'[r].rev = reader[r].rev
              /\ reader'[r].stale
<1>1. reader \in [Readers -> Requests]
  BY DEF InspectionTyped
<1> QED
  BY <1>1 DEF Continued, Requests

\* What the machine and the controller do keeps the types ...
LEMMA MachineKeepsTypes ==
  ASSUME InspectionInv,
         Stops \/ Runs \/ LetsGo \/ LetGo \/ Reboot \/ WasReset \/ StepOne \/ Executed \/ Cleanup
  PROVE  InspectionTyped' /\ kept' = kept
<1> USE InspectionAssumption, NothingIsNone DEF InspectionInv
<1>t. InspectionTyped
  OBVIOUS
<1>i. ASSUME Invalidate PROVE /\ gen' \in Nat /\ context' = Nothing /\ history' = Nothing /\ stack' \in Stacks
                              /\ revision' \in Nat /\ pending' = Nothing /\ handles' = {}
                              /\ nextHandle' = nextHandle /\ traced' = traced
  BY <1>t, <1>i DEF InspectionTyped, Invalidate, Forget, NoStack, Stacks, OrNothing
<1>m. moment < MaxMoment => moment + 1 \in Moments
  BY <1>t DEF InspectionTyped, Moments
<1>1. CASE Stops
  BY <1>1, <1>t DEF InspectionTyped, Stops, stopVars, traceVars, handleVars, vscode
<1>2. CASE Runs
  BY <1>2, <1>t, <1>m DEF InspectionTyped, Runs, stopVars, traceVars, handleVars, vscode
<1>3. CASE LetsGo
  BY <1>3, <1>t, <1>i DEF InspectionTyped, LetsGo, machine, vscode, OrNothing
<1>4. CASE LetGo
  <2>1. moment' \in Moments
    BY <1>4, <1>m DEF LetGo, Stopped
  <2>2. reader' \in [Readers -> Requests] /\ shown' \in OrNothing(Moments) /\ given' \subseteq Given
    <3>1. CASE stopping = "letting"
      BY <1>4, <1>t, <3>1, StaleIsTyped DEF LetGo, OrNothing
    <3>2. CASE stopping # "letting"
      BY <1>4, <1>t, <3>2 DEF LetGo, vscode, InspectionTyped
    <3> QED
      BY <3>1, <3>2
  <2> QED
    BY <1>4, <1>t, <2>1, <2>2 DEF InspectionTyped, LetGo, stopVars, traceVars, handleVars
<1>5. CASE Reboot
  BY <1>5, <1>t, <1>i DEF InspectionTyped, Reboot, machine, vscode, OrNothing
<1>6. CASE WasReset
  <2>1. moment' \in Moments
    BY <1>6, <1>m DEF WasReset, Stopped
  <2>2. cachedRegs' \in OrNothing(Moments) /\ refused' \in Nat
    BY <1>6, <1>t, <2>1 DEF WasReset, InspectionTyped, OrNothing
  <2> QED
    BY <1>6, <1>t, <2>1, <2>2 DEF InspectionTyped, WasReset, traceVars, handleVars, vscode
<1>7. CASE StepOne
  BY <1>7, <1>t DEF InspectionTyped, StepOne, machine, stopVars, traceVars, handleVars, vscode
<1>8. CASE Executed
  <2>1. moment' \in Moments
    BY <1>8, <1>m DEF Executed, Stopped
  <2>2. reader' \in [Readers -> Requests] /\ shown' \in OrNothing(Moments) /\ given' \subseteq Given
    BY <1>8, <1>t, StaleIsTyped DEF Executed, OrNothing
  <2> QED
    BY <1>8, <1>t, <1>i, <2>1, <2>2 DEF InspectionTyped, Executed, OrNothing
<1>9. CASE Cleanup
  <2>1. reader' \in [Readers -> Requests] /\ shown' \in OrNothing(Moments) /\ given' \subseteq Given
    BY <1>9, <1>t, StaleIsTyped DEF Cleanup, OrNothing
  <2> QED
    BY <1>9, <1>t, <1>i, <2>1 DEF InspectionTyped, Cleanup, machine, OrNothing
<1> QED
  BY <1>1, <1>2, <1>3, <1>4, <1>5, <1>6, <1>7, <1>8, <1>9

\* ... and the phases of a stop.
LEMMA MachineKeepsStops ==
  ASSUME InspectionInv,
         Stops \/ Runs \/ LetsGo \/ LetGo \/ Reboot \/ WasReset \/ StepOne \/ Executed \/ Cleanup
  PROVE  Stopped'
<1> USE InspectionAssumption, NothingIsNone DEF InspectionInv, Stopped
<1>t. InspectionTyped /\ moment \in Nat /\ MaxMoment \in Nat
  BY DEF InspectionTyped, Moments
<1>1. CASE Stops
  BY <1>1, <1>t DEF Stops, stopVars, vscode
<1>2. CASE Runs
  BY <1>2 DEF Runs, stopVars, vscode
<1>3. CASE LetsGo
  BY <1>3 DEF LetsGo, Invalidate, machine, vscode
<1>4. CASE LetGo
  <2>0. context = Nothing
    BY <1>4 DEF LetGo
  <2>1. shown' = Nothing
    BY <1>4, <1>t, StaleIsTyped DEF LetGo, vscode
  <2> QED
    BY <1>4, <2>0, <2>1 DEF LetGo, stopVars
<1>5. CASE Reboot
  BY <1>5 DEF Reboot, Invalidate, machine, vscode
<1>6. CASE WasReset
  BY <1>6 DEF WasReset, vscode
<1>7. CASE StepOne
  BY <1>7 DEF StepOne, machine, stopVars, vscode
<1>8. CASE Executed
  BY <1>8, <1>t, StaleIsTyped DEF Executed, Invalidate
<1>9. CASE Cleanup
  BY <1>9, <1>t, StaleIsTyped DEF Cleanup, Invalidate, machine
<1> QED
  BY <1>1, <1>2, <1>3, <1>4, <1>5, <1>6, <1>7, <1>8, <1>9

\* The program goes on while VS Code knows: nothing of the old stop can be captured.
LEMMA LetGoKeeps ==
  ASSUME InspectionInv, LetGo, InspectionTyped', Stopped', kept' = kept, Continued
  PROVE  InspectionInv'
<1> USE DEF InspectionInv, LetGo, stopVars, traceVars, handleVars
<1>a. /\ UNCHANGED <<gen, context, stack, revision, pending, history, traced, handles, nextHandle, refused>>
      /\ context = Nothing
  BY DEF Stopped
<1>b. /\ shown' = Nothing /\ given' = {} /\ said' = Silent
      /\ \A r \in Readers :
           /\ reader'[r].at = reader[r].at /\ reader'[r].of = reader[r].of /\ reader'[r].gen = reader[r].gen
           /\ reader'[r].ctx = reader[r].ctx /\ reader'[r].loc = reader[r].loc /\ reader'[r].rev = reader[r].rev
           /\ reader'[r].stale
  BY StaleIsTyped
<1>1. Stacked'
  BY <1>a DEF Stacked
<1>2. Reading'
  BY <1>a, <1>b DEF Reading, Asked, Known
<1>3. Capturing'
  <2>1. pending \in OrNothing(Readers) /\ history \in OrNothing(Histories)
    BY DEF InspectionTyped
  <2>2. history # Nothing => history.by \in OrNothing(Readers)
    BY <2>1, NothingIsNone DEF OrNothing
  <2> QED
    BY <1>a, <1>b, <2>1, <2>2 DEF Capturing, OrNothing
<1>4. Holding'
  BY <1>a, <1>b DEF Holding, Known
<1>5. Honest'
  BY <1>b DEF Honest, Silent
<1> QED
  BY <1>1, <1>2, <1>3, <1>4, <1>5

LEMMA MachineKeeps ==
  ASSUME InspectionInv,
         Stops \/ Runs \/ LetsGo \/ LetGo \/ Reboot \/ WasReset \/ StepOne \/ Executed \/ Cleanup
  PROVE  InspectionInv'
<1>t. InspectionTyped' /\ kept' = kept /\ Stopped' /\ (kept => kept')
  BY MachineKeepsTypes, MachineKeepsStops
<1>r. refused \in Nat
  BY DEF InspectionInv, InspectionTyped
<1>1. CASE Stops
  BY <1>1, <1>t, <1>r, AsideKeeps DEF Stops, stopVars
<1>2. CASE Runs
  <2>1. context = Nothing
    BY <1>2 DEF Runs, InspectionInv, Stopped
  <2> QED
    BY <1>2, <1>t, <1>r, <2>1, AsideKeeps DEF Runs, stopVars
<1>3. CASE LetsGo
  BY <1>3, <1>t, InvalidatedKeeps DEF LetsGo
<1>4. CASE LetGo
  <2>1. context = Nothing
    BY <1>4 DEF LetGo, InspectionInv, Stopped
  <2>2. CASE stopping = "letting"
    BY <1>4, <1>t, <2>2, LetGoKeeps DEF LetGo
  <2>3. CASE stopping # "letting"
    BY <1>4, <1>t, <1>r, <2>1, <2>3, AsideKeeps DEF LetGo, stopVars
  <2> QED
    BY <2>2, <2>3
<1>5. CASE Reboot
  BY <1>5, <1>t, InvalidatedKeeps DEF Reboot
<1>6. CASE WasReset
  <2>1. context = Nothing
    BY <1>6 DEF WasReset, InspectionInv, Stopped
  <2> QED
    BY <1>6, <1>t, <1>r, <2>1, AsideKeeps DEF WasReset
<1>7. CASE StepOne
  BY <1>7, <1>t, <1>r, AsideKeeps DEF StepOne, machine, stopVars
<1>8. CASE Executed
  BY <1>8, <1>t, InvalidatedKeeps DEF Executed
<1>9. CASE Cleanup
  BY <1>9, <1>t, InvalidatedKeeps DEF Cleanup
<1> QED
  BY <1>1, <1>2, <1>3, <1>4, <1>5, <1>6, <1>7, <1>8, <1>9

\* A stop is captured: again, anew, or not at all.
LEMMA RefreshedKeeps ==
  ASSUME InspectionInv, Refreshed
  PROVE  InspectionInv'
<1> USE InspectionAssumption, NothingIsNone DEF InspectionInv
<1>a. /\ InspectionTyped /\ Stopped /\ stopping = "refresh" /\ stopping' \in {"no", "logged"} /\ ~running
      /\ UNCHANGED <<moment, running, stack, revision, pending, history, traced, nextHandle, reader, given, said>>
  BY DEF Refreshed, Stopped, traceVars
<1>b. /\ gen \in Nat /\ moment \in Moments /\ refused \in Nat /\ kept \in BOOLEAN
      /\ cachedRegs \in OrNothing(Moments) /\ (moment \in Moments => moment # Nothing)
  BY DEF InspectionTyped
<1>c. \/ cachedRegs' = moment /\ UNCHANGED <<refused, kept>>
      \/ /\ refused' = refused + 1 /\ UNCHANGED cachedRegs
         /\ kept' = (kept \/ cachedRegs \notin {Nothing, moment})
  BY DEF Refreshed
<1>d. /\ cachedRegs' \in OrNothing(Moments) /\ refused' \in Nat /\ refused' >= refused /\ kept' \in BOOLEAN
      /\ (kept => kept') /\ (~kept' /\ cachedRegs' # Nothing => cachedRegs' = moment)
  <2>1. (kept \/ cachedRegs \notin {Nothing, moment}) \in BOOLEAN
    OBVIOUS
  <2>2. kept' \in BOOLEAN
    BY <1>b, <1>c, <2>1
  <2> QED
    BY <1>b, <1>c, <2>2 DEF OrNothing
<1>e. /\ shown' \in {Nothing, moment} /\ (shown # Nothing => shown' = shown)
      /\ stopping' = "logged" => shown' = Nothing
      /\ shown = Nothing => context = Nothing
  BY <1>a DEF Refreshed, Stopped
<1>1. CASE cachedRegs' = Nothing
  <2>1. UNCHANGED <<gen, context, handles>> /\ refused' # 0
    <3>1. refused' = refused + 1
      BY <1>b, <1>c, <1>1
    <3> QED
      BY <1>b, <1>1, <3>1 DEF Refreshed
  <2>2. InspectionTyped'
    BY <1>a, <1>b, <1>d, <1>e, <2>1 DEF InspectionTyped, OrNothing
  <2>3. Stopped'
    BY <1>a, <1>d, <1>e, <2>1 DEF Stopped
  <2>4. Stacked'
    BY <1>a, <1>d, <2>1 DEF Stacked
  <2>5. Reading'
    BY <1>a, <1>d, <1>e, <2>1 DEF Reading, Asked, Known
  <2>6. Capturing'
    BY <1>a, <1>d, <2>1 DEF Capturing
  <2>7. Holding'
    BY <1>a, <1>d, <1>e, <2>1 DEF Holding, Known
  <2>8. Honest'
    BY <1>a, <1>d DEF Honest
  <2> QED
    BY <2>2, <2>3, <2>4, <2>5, <2>6, <2>7, <2>8
<1>2. CASE cachedRegs' # Nothing
  <2>1. /\ gen' = gen + 1 /\ context' = Context(gen + 1, cachedRegs') /\ handles' = {}
        /\ cachedRegs' \in Moments
    BY <1>d, <1>2 DEF Refreshed, OrNothing
  <2>2. /\ context' \in Contexts /\ context'.gen = gen + 1 /\ context'.moment = cachedRegs'
        /\ gen + 1 \in Nat
    BY <1>b, <2>1 DEF Context, Contexts
  <2>3. InspectionTyped'
    BY <1>a, <1>b, <1>d, <1>e, <2>1, <2>2 DEF InspectionTyped, OrNothing
  <2>4. Stopped'
    BY <1>a, <1>d, <1>e, <2>1, <2>2 DEF Stopped
  <2>5. Stacked'
    <3>1. stack.gen \in Int
      BY <1>a DEF InspectionTyped, Stacks
    <3> QED
      BY <1>a, <1>b, <2>1, <3>1 DEF Stacked
  <2>6. \A ctx \in OrNothing(Contexts) : Known(ctx) => Known(ctx)' /\ ctx # context'
    BY <1>a, <1>b, <2>1, <2>2 DEF Known, Stopped, OrNothing
  <2>7. Reading'
    <3> SUFFICES ASSUME NEW r \in Readers PROVE Asked(reader[r])'
      BY DEF Reading
    <3>1. reader[r].ctx \in OrNothing(Contexts)
      BY <1>a DEF InspectionTyped, Requests
    <3>2. Asked(reader[r])
      BY DEF Reading
    <3>3. Known(reader[r].ctx)' /\ reader[r].ctx # context'
      BY <1>a, <2>6, <3>1, <3>2 DEF Asked, Known
    <3> QED
      BY <1>a, <1>d, <1>e, <3>2, <3>3 DEF Asked
  <2>8. Capturing'
    <3>1. history # Nothing => history.gen \in Nat
      BY <1>a DEF InspectionTyped, OrNothing
    <3>2. stack.gen # gen'
      BY <1>b, <2>1 DEF Stacked, InspectionTyped, Stacks
    <3> QED
      BY <1>a, <1>b, <1>d, <2>1, <3>1, <3>2 DEF Capturing
  <2>9. Holding'
    <3>1. \A f \in given : f.id \in Int
      BY <1>a DEF InspectionTyped, Given
    <3> QED
      BY <1>a, <1>b, <1>e, <2>1, <3>1 DEF Holding
  <2>10. Honest'
    BY <1>a, <1>d DEF Honest
  <2> QED
    BY <2>3, <2>4, <2>5, <2>7, <2>8, <2>9, <2>10
<1> QED
  BY <1>1, <1>2
-----------------------------------------------------------------------------
(* The requests: one asks, is told at once, or is answered.                  *)

\* No request moves the program, the stop or what VS Code shows.
Reads == /\ UNCHANGED <<moment, running, kept, gen, context, stopping, shown, traced>>
         /\ refused' \in Nat /\ refused' >= refused

LEMMA ReadsKeepTheStop ==
  ASSUME InspectionInv, Reads
  PROVE  /\ Stopped'
         /\ UNCHANGED stack => Stacked'
         /\ (\A r \in Readers : reader'[r] = reader[r] \/ Asked(reader'[r])) => Reading'
<1> USE DEF InspectionInv, Reads
<1>1. Stopped'
  BY DEF Stopped
<1>2. UNCHANGED stack => Stacked'
  BY DEF Stacked, InspectionTyped
<1>3. ASSUME \A r \in Readers : reader'[r] = reader[r] \/ Asked(reader'[r]) PROVE Reading'
  <2>1. \A r \in Readers : Asked(reader'[r])
    BY <1>3 DEF Reading
  <2> QED
    BY <2>1 DEF Reading, Asked, Known
<1> QED
  BY <1>1, <1>2, <1>3

LEMMA RestingIsQuiet == Resting \in Requests /\ Resting.at = "idle" /\ Asked(Resting)
BY DEF Resting, Requests, OrNothing, Asked, Known

\* An answer at once changes what VS Code holds and what it used last.
LEMMA TellsKeeps ==
  ASSUME InspectionInv, NEW what, NEW stop, NEW data, NEW gives, Tells(what, stop, data, gives),
         UNCHANGED traceVars, Holding', gives \subseteq Given,
         handles' \subseteq Handles, nextHandle' \in Nat,
         what \in {"stack", "variables", "evaluate"} /\ ~kept => data \subseteq {stop}
  PROVE  InspectionInv'
<1>1. /\ Reads /\ UNCHANGED <<machine, stopVars, stopping, shown, refused, reader>>
      /\ said' = [what |-> what, stop |-> stop, data |-> data] /\ given' = given \cup gives
  BY DEF Tells, Reads, machine, stopVars, traceVars, InspectionInv, InspectionTyped
<1>2. InspectionTyped'
  BY <1>1 DEF InspectionInv, InspectionTyped, machine, stopVars, traceVars
<1>3. Stopped' /\ Stacked' /\ Reading'
  BY <1>1, ReadsKeepTheStop DEF traceVars
<1>4. Capturing'
  BY <1>1 DEF InspectionInv, Capturing, machine, stopVars, traceVars
<1>5. Honest'
  BY <1>1 DEF Honest, machine
<1> QED
  BY <1>2, <1>3, <1>4, <1>5 DEF InspectionInv

\* A request that is asked finds its reader idle, so nobody waits for it.
LEMMA AskKeeps ==
  ASSUME InspectionInv, NEW r \in Readers, NEW e \in Requests, Asks(r, e), Asked(e),
         UNCHANGED <<stack, traced, handles, nextHandle, given, said>>,
         Capturing', revision' \in Nat, pending' \in OrNothing(Readers), history' \in OrNothing(Histories)
  PROVE  InspectionInv'
<1>1. /\ Reads /\ UNCHANGED <<machine, stopVars, stopping, shown, refused>>
      /\ reader' = [reader EXCEPT ![r] = e]
  BY DEF Asks, Reads, machine, stopVars, InspectionInv, InspectionTyped
<1>2. reader' \in [Readers -> Requests] /\ \A q \in Readers : reader'[q] = reader[q] \/ Asked(reader'[q])
  BY <1>1 DEF InspectionInv, InspectionTyped
<1>3. InspectionTyped'
  BY <1>1, <1>2 DEF InspectionInv, InspectionTyped, machine, stopVars
<1>4. Stopped' /\ Stacked' /\ Reading'
  BY <1>1, <1>2, ReadsKeepTheStop
<1>5. Holding' /\ Honest'
  BY <1>1 DEF InspectionInv, Holding, Honest, Known, machine, stopVars
<1> QED
  BY <1>3, <1>4, <1>5 DEF InspectionInv

\* The captures are left alone by a request that takes no part in them.
LEMMA PlainAskKeepsCapturing ==
  ASSUME InspectionInv, NEW r \in Readers, NEW e \in Requests, Asks(r, e), UNCHANGED traceVars,
         e.at \in {"registers", "read", "evaluate"}
  PROVE  Capturing'
<1>1. /\ UNCHANGED <<stack, revision, pending, history, traced, gen, kept>> /\ reader[r].at = "idle"
      /\ reader' = [reader EXCEPT ![r] = e] /\ reader \in [Readers -> Requests]
      /\ pending \in OrNothing(Readers) /\ history \in OrNothing(Histories)
  BY DEF Asks, traceVars, machine, stopVars, InspectionInv, InspectionTyped
<1>2. reader'[r] = e /\ \A q \in Readers : q # r => reader'[q] = reader[q]
  BY <1>1
<1>3. history # Nothing => history.by \in OrNothing(Readers)
  BY <1>1, NothingIsNone DEF OrNothing
<1> QED
  BY <1>1, <1>2, <1>3 DEF InspectionInv, Capturing, OrNothing

\* An answer frees the reader; no capture depends on it.
LEMMA AnswersKeep ==
  ASSUME InspectionInv, NEW r \in Readers, reader[r].at \in {"registers", "read", "evaluate"},
         NEW what, NEW data, NEW gives, Answers(r, what, data, gives),
         UNCHANGED <<machine, gen, context, traceVars, stopping>>,
         cachedRegs' \in OrNothing(Moments), refused' \in Nat, refused' >= refused,
         handles' \subseteq Handles, nextHandle' \in Nat, gives \subseteq Given, Holding',
         ~reader[r].stale /\ what \in {"stack", "variables", "evaluate"} /\ ~kept => data \subseteq {reader[r].of}
  PROVE  InspectionInv'
<1>1. /\ Reads /\ UNCHANGED <<stack, revision, pending, history, traced, gen, kept>>
      /\ reader' = [reader EXCEPT ![r] = Resting] /\ reader \in [Readers -> Requests]
      /\ pending \in OrNothing(Readers) /\ history \in OrNothing(Histories)
  BY DEF Answers, Reads, machine, traceVars, InspectionInv, InspectionTyped
<1>2. reader'[r] = Resting /\ \A q \in Readers : q # r => reader'[q] = reader[q]
  BY <1>1
<1>3. given' \subseteq Given
  BY DEF Answers, InspectionInv, InspectionTyped
<1>4. InspectionTyped'
  <2>1. reader' \in [Readers -> Requests]
    BY <1>1, RestingIsQuiet
  <2> QED
    BY <1>1, <1>3, <2>1 DEF InspectionInv, InspectionTyped, Reads
<1>5. Stopped' /\ Stacked' /\ Reading'
  BY <1>1, <1>2, RestingIsQuiet, ReadsKeepTheStop
<1>6. Capturing'
  <2>1. history # Nothing => history.by \in OrNothing(Readers)
    BY <1>1, NothingIsNone DEF OrNothing
  <2> QED
    BY <1>1, <1>2, <2>1, RestingIsQuiet DEF InspectionInv, Capturing, OrNothing
<1>7. Honest'
  BY <1>1 DEF Answers, InspectionInv, Honest
<1> QED
  BY <1>4, <1>5, <1>6, <1>7 DEF InspectionInv

\* A handle is new: no reference VS Code holds can mean it.
LEMMA GivesKeeps ==
  ASSUME InspectionInv, NEW kind \in {"scope", "value"}, NEW ctx \in OrNothing(Contexts),
         NEW loc \in OrNothing(Moments), NEW stop \in OrNothing(Moments),
         Gives(kind, ctx, loc), Known(ctx), UNCHANGED <<gen, context, shown, kept, stack>>,
         \/ given' = given
         \/ /\ given' = given \cup {Reference(nextHandle, stop)}
            /\ ~kept => loc = stop
            /\ IF shown = Nothing THEN context # Nothing ELSE stop = shown
  PROVE  /\ Holding' /\ handles' \subseteq Handles /\ nextHandle' \in Nat
         /\ {Reference(nextHandle, stop)} \subseteq Given
<1> DEFINE h == Handle(kind, ctx, loc)
           g == Reference(nextHandle, stop)
<1>1. /\ handles \subseteq Handles /\ given \subseteq Given /\ nextHandle \in Nat
      /\ handles' = handles \cup {h} /\ nextHandle' = nextHandle + 1
  BY DEF InspectionInv, InspectionTyped, Gives
<1>2. h \in Handles /\ h.id = nextHandle /\ h.ctx = ctx /\ h.loc = loc
  BY <1>1 DEF Handle, Handles
<1>3. g \in Given /\ g.kind = "handle" /\ g.id = nextHandle /\ g.stop = stop
  BY <1>1 DEF Reference, Given
<1>4. (\A x \in given : x.id \in Int) /\ (\A x \in handles : x.id \in Nat)
  BY <1>1 DEF Given, Handles
<1>5. Holding
  BY DEF InspectionInv
<1> HIDE DEF h, g
<1>6. given' = given \/ given' = given \cup {g}
  BY DEF g
<1>7. \A f \in given' : f.kind = "frame" =>
          /\ f.id <= gen /\ (f.id = gen => stack.gen = gen)
          /\ shown # Nothing /\ f.stop = shown
  BY <1>3, <1>5, <1>6 DEF Holding
<1>8. \A x \in given' : x.kind = "handle" => x.id < nextHandle'
  BY <1>1, <1>3, <1>4, <1>5, <1>6 DEF Holding
<1>9. \A x \in handles' : x.id < nextHandle' /\ Known(x.ctx)
  BY <1>1, <1>2, <1>4, <1>5 DEF Holding
<1>10. ASSUME NEW x \in given', NEW y \in handles', x.kind = "handle", x.id = y.id
       PROVE  /\ ~kept => y.loc = x.stop
              /\ IF shown = Nothing THEN context # Nothing ELSE x.stop = shown
  <2>1. CASE x \in given /\ y \in handles
    BY <1>5, <1>10, <2>1 DEF Holding
  <2>2. ~(x \in given /\ y = h)
    BY <1>1, <1>2, <1>4, <1>5, <1>10 DEF Holding
  <2>3. ~(x = g /\ y \in handles)
    BY <1>1, <1>3, <1>4, <1>5, <1>10 DEF Holding
  <2>4. CASE x \notin given /\ x = g /\ y = h
    BY <1>2, <1>3, <2>4 DEF g
  <2> QED
    BY <1>1, <1>6, <1>10, <2>1, <2>2, <2>3, <2>4
<1>11. Holding'
  <2>1. \A x : Known(x) => Known(x)'
    BY DEF Known
  <2> QED
    BY <1>7, <1>8, <1>9, <1>10, <2>1 DEF Holding, Known
<1> QED
  BY <1>1, <1>2, <1>3, <1>11 DEF g

\* While VS Code shows a stop that is captured, it is the moment of the program.
LEMMA ShownIsNow ==
  ASSUME InspectionInv, context # Nothing
  PROVE  /\ context \in Contexts /\ context.gen = gen /\ gen \in Nat /\ moment \in Moments
         /\ moment # Nothing /\ (shown # Nothing => shown = moment)
         /\ (~kept => context.moment = moment) /\ Known(context) /\ Known(Nothing)
BY NothingIsNone DEF InspectionInv, InspectionTyped, Stopped, OrNothing, Known

\* A page of frames, and a machine frame.
LEMMA PageIsHeld ==
  ASSUME InspectionInv, context # Nothing, stack.gen = gen, shown # Nothing,
         given' = given \cup Page(shown), UNCHANGED <<gen, context, shown, kept, stack, handleVars>>
  PROVE  Holding' /\ Page(shown) \subseteq Given
<1>1. Page(shown) = {Frame(gen, shown)}
  BY ShownIsNow DEF Page
<1>2. Frame(gen, shown) \in Given /\ Frame(gen, shown).kind = "frame"
      /\ Frame(gen, shown).id = gen /\ Frame(gen, shown).stop = shown
  BY DEF InspectionInv, InspectionTyped, Given, Frame
<1> QED
  BY <1>1, <1>2, ShownIsNow DEF InspectionInv, Holding, Known, handleVars

LEMMA TraceRegistersKeeps ==
  ASSUME InspectionInv, NEW r \in Readers, TraceRegisters(r)
  PROVE  InspectionInv'
<1> DEFINE e == [Resting EXCEPT !.at = "registers", !.of = shown]
<1>t. /\ shown \in OrNothing(Moments) /\ handles \subseteq Handles /\ nextHandle \in Nat
      /\ revision \in Nat /\ pending \in OrNothing(Readers) /\ history \in OrNothing(Histories)
  BY DEF InspectionInv, InspectionTyped
<1>1. CASE Ask(r, e) /\ UNCHANGED <<given, said>>
  <2>1. e \in Requests /\ e.at = "registers" /\ e.of = shown /\ e.ctx = Nothing
    BY <1>t DEF Resting, Requests, OrNothing
  <2>2. shown # Nothing
    BY <1>1 DEF Ask
  <2>3. Asked(e)
    BY <2>1, <2>2 DEF Asked, Known
  <2> HIDE DEF e
  <2>4. Asks(r, e) /\ UNCHANGED traceVars /\ UNCHANGED handleVars
    BY <1>1 DEF Ask, TraceRegisters
  <2>5. Capturing'
    BY <2>1, <2>4, PlainAskKeepsCapturing
  <2> QED
    BY <1>1, <1>t, <2>1, <2>3, <2>4, <2>5, AskKeeps DEF traceVars, handleVars
<1>2. CASE Tells("registers", shown, {cachedRegs}, {})
  <2>1. UNCHANGED <<traceVars, handleVars>>
    BY DEF TraceRegisters
  <2>2. Holding'
    BY <1>2, <2>1 DEF Tells, InspectionInv, Holding, Known, machine, stopVars, traceVars, handleVars
  <2>3. "registers" \notin {"stack", "variables", "evaluate"} /\ {} \subseteq Given
    OBVIOUS
  <2>4. handles' \subseteq Handles /\ nextHandle' \in Nat
    BY <1>t, <2>1 DEF handleVars
  <2> QED
    BY <1>2, <2>1, <2>2, <2>3, <2>4, TellsKeeps
<1> QED
  BY <1>1, <1>2 DEF TraceRegisters

LEMMA GotRegistersKeeps ==
  ASSUME InspectionInv, NEW r \in Readers, GotRegisters(r)
  PROVE  InspectionInv'
<1>1. PICK ok \in BOOLEAN : MayRefuse(ok) /\ cachedRegs' = IF ok THEN moment ELSE cachedRegs
  BY DEF GotRegisters
<1>2. /\ cachedRegs' \in OrNothing(Moments) /\ refused' \in Nat /\ refused' >= refused
      /\ handles' \subseteq Handles /\ nextHandle' \in Nat
  BY <1>1 DEF InspectionInv, InspectionTyped, MayRefuse, OrNothing, GotRegisters, handleVars
<1>3. Holding'
  BY DEF GotRegisters, Answers, InspectionInv, Holding, Known, machine, traceVars, handleVars
<1> DEFINE data == {cachedRegs'} \ {Nothing}
<1>4. Answers(r, "registers", data, {}) /\ reader[r].at = "registers"
      /\ UNCHANGED <<machine, gen, context, traceVars, stopping>>
  BY DEF GotRegisters
<1> HIDE DEF data
<1>5. "registers" \notin {"stack", "variables", "evaluate"} /\ {} \subseteq Given
  OBVIOUS
<1> QED
  BY <1>2, <1>3, <1>4, <1>5, AnswersKeep

LEMMA EvaluateKeeps ==
  ASSUME InspectionInv, NEW r \in Readers, Evaluate(r)
  PROVE  InspectionInv'
<1> DEFINE e == [Resting EXCEPT !.at = "evaluate", !.of = IF shown = Nothing THEN moment ELSE shown,
                                !.ctx = context, !.gen = gen, !.loc = context.moment]
<1>t. /\ shown \in OrNothing(Moments) /\ handles \subseteq Handles /\ nextHandle \in Nat
      /\ revision \in Nat /\ pending \in OrNothing(Readers) /\ history \in OrNothing(Histories)
  BY DEF InspectionInv, InspectionTyped
<1>0. context # Nothing
  BY DEF Evaluate
<1>1. e \in Requests /\ e.at = "evaluate" /\ e.of = moment /\ e.ctx = context /\ e.gen = gen
      /\ e.loc = context.moment
  BY <1>0, ShownIsNow, NothingIsNone DEF Resting, Requests, OrNothing
<1>2. Asks(r, e) /\ UNCHANGED <<traceVars, handleVars, given, said>>
  BY DEF Evaluate
<1> HIDE DEF e
<1>3. Asked(e)
  BY <1>0, <1>1, ShownIsNow DEF Asked
<1>4. Capturing'
  BY <1>1, <1>2, PlainAskKeepsCapturing
<1> QED
  BY <1>t, <1>1, <1>2, <1>3, <1>4, AskKeeps DEF traceVars, handleVars

LEMMA VariablesKeeps ==
  ASSUME InspectionInv, NEW r \in Readers, Variables(r)
  PROVE  InspectionInv'
<1>t. /\ given \subseteq Given /\ handles \subseteq Handles /\ nextHandle \in Nat
      /\ revision \in Nat /\ pending \in OrNothing(Readers) /\ history \in OrNothing(Histories)
  BY DEF InspectionInv, InspectionTyped
<1> DEFINE E(g, h) == [Resting EXCEPT !.at = "read", !.of = g.stop,
                             !.ctx = IF h.kind = "scope" THEN context ELSE h.ctx,
                             !.loc = h.loc, !.gen = IF h.kind = "scope" THEN 1 ELSE 0]
<1>0. PICK g \in given : g.kind = "handle" /\ \E h \in Held(g.id) :
                                                (h.kind = "scope" => FrameIs(gen)) /\ Ask(r, E(g, h))
  BY DEF Variables
<1>1. PICK h \in Held(g.id) : Ask(r, E(g, h))
  BY <1>0
<1>2. h \in handles /\ h.id = g.id /\ h \in Handles /\ g \in Given /\ context \in OrNothing(Contexts)
  BY <1>1, <1>t DEF Held, InspectionInv, InspectionTyped
<1>3. E(g, h) \in Requests /\ E(g, h).at = "read" /\ E(g, h).of = g.stop /\ E(g, h).loc = h.loc
      /\ E(g, h).ctx = (IF h.kind = "scope" THEN context ELSE h.ctx)
  BY <1>2 DEF Resting, Requests, Handles, Given
<1>4. Asks(r, E(g, h)) /\ shown # Nothing /\ UNCHANGED <<traceVars, handleVars, given, said>>
  BY <1>1 DEF Variables, Ask
<1> HIDE DEF E
<1>5. g.stop = shown /\ (~kept => h.loc = g.stop) /\ Known(h.ctx)
  BY <1>0, <1>1, <1>2, <1>4 DEF InspectionInv, Holding
<1>6. Asked(E(g, h))
  BY <1>3, <1>4, <1>5 DEF Asked, Known
<1>7. Capturing'
  BY <1>3, <1>4, PlainAskKeepsCapturing
<1> QED
  BY <1>t, <1>3, <1>4, <1>6, <1>7, AskKeeps DEF traceVars, handleVars

LEMMA ScopesKeeps ==
  ASSUME InspectionInv, Scopes
  PROVE  InspectionInv'
<1>1. PICK f \in given :
       /\ f.kind = "frame" /\ FrameIs(f.id)
       /\ Gives("scope", Nothing, stack.of)
       /\ Tells("scopes", f.stop, {}, {Reference(nextHandle, f.stop)})
       /\ UNCHANGED traceVars
  BY DEF Scopes
<1>2. /\ context # Nothing /\ f \in Given /\ f.stop = shown /\ shown # Nothing /\ f.stop \in OrNothing(Moments)
      /\ stack.of \in OrNothing(Moments) /\ (~kept => stack.of = moment) /\ shown = moment
  BY <1>1, ShownIsNow DEF FrameIs, InspectionInv, InspectionTyped, Given, Holding, Stacks, Stacked
<1>3. /\ UNCHANGED <<gen, context, shown, kept, stack>> /\ Known(Nothing) /\ Nothing \in OrNothing(Contexts)
      /\ given' = given \cup {Reference(nextHandle, f.stop)}
  BY <1>1 DEF Tells, machine, stopVars, traceVars, Known, OrNothing
<1>4. Holding' /\ handles' \subseteq Handles /\ nextHandle' \in Nat
      /\ {Reference(nextHandle, f.stop)} \subseteq Given
  BY <1>1, <1>2, <1>3, GivesKeeps
<1>5. "scopes" \notin {"stack", "variables", "evaluate"}
  OBVIOUS
<1> QED
  BY <1>1, <1>4, <1>5, TellsKeeps

\* What a reader that is still of the current stop holds.
LEMMA CurrentContext ==
  ASSUME InspectionInv, NEW r \in Readers, reader[r].ctx # Nothing, reader[r].ctx.gen = gen
  PROVE  context # Nothing /\ reader[r].ctx = context
<1>1. Known(reader[r].ctx) /\ gen \in Nat /\ reader \in [Readers -> Requests]
  BY DEF InspectionInv, Reading, Asked, InspectionTyped
<1> QED
  BY <1>1 DEF Known

LEMMA ReadKeeps ==
  ASSUME InspectionInv, NEW r \in Readers, Read(r)
  PROVE  InspectionInv'
<1> DEFINE e == reader[r]
           ctx == IF e.gen = 1 THEN context ELSE e.ctx
           data(ok) == IF ok /\ StillCurrent(e.ctx) THEN {moment, e.loc} ELSE {}
<1>t. /\ e \in Requests /\ e.ctx \in OrNothing(Contexts) /\ e.loc \in OrNothing(Moments)
      /\ e.of \in OrNothing(Moments) /\ context \in OrNothing(Contexts) /\ refused \in Nat
      /\ handles \subseteq Handles /\ nextHandle \in Nat /\ cachedRegs \in OrNothing(Moments)
  BY DEF InspectionInv, InspectionTyped, Requests
<1>a. Asked(e) /\ e.at = "read"
  BY DEF InspectionInv, Reading, Read
<1>1. PICK ok \in BOOLEAN :
        /\ MayRefuse(ok)
        /\ \/ Gives("value", ctx, e.loc) /\ Answers(r, "variables", data(ok), {Reference(nextHandle, e.of)})
           \/ UNCHANGED handleVars /\ Answers(r, "variables", data(ok), {})
  BY DEF Read
<1>2. /\ UNCHANGED <<machine, gen, context, traceVars, stopping, stack, kept>>
      /\ cachedRegs' \in OrNothing(Moments) /\ refused' \in Nat /\ refused' >= refused
  BY <1>1, <1>t DEF Read, MayRefuse, stopVars, traceVars, machine
<1>3. UNCHANGED shown
  BY <1>1 DEF Answers
<1>4. ~e.stale /\ ~kept => data(ok) \subseteq {e.of}
  <2>1. CASE ok /\ StillCurrent(e.ctx) /\ ~e.stale /\ ~kept
    <3>1. context # Nothing
      BY <1>t, <2>1, CurrentContext DEF StillCurrent
    <3>2. e.of = moment /\ e.loc = e.of
      BY <1>a, <2>1, <3>1, ShownIsNow DEF Asked
    <3> QED
      BY <3>2
  <2>2. CASE ~(ok /\ StillCurrent(e.ctx))
    BY <2>2
  <2> QED
    BY <2>1, <2>2
<1> DEFINE d == data(ok)
<1>5. ctx \in OrNothing(Contexts) /\ Known(ctx)
  BY <1>t, <1>a DEF Asked, Known
<1> HIDE DEF data, d, ctx
<1>6. CASE Gives("value", ctx, e.loc) /\ Answers(r, "variables", d, {Reference(nextHandle, e.of)})
  <2>1. \/ given' = given
        \/ /\ given' = given \cup {Reference(nextHandle, e.of)}
           /\ ~kept => e.loc = e.of
           /\ IF shown = Nothing THEN context # Nothing ELSE e.of = shown
    BY <1>6, <1>a DEF Answers, Asked
  <2>2. Holding' /\ handles' \subseteq Handles /\ nextHandle' \in Nat /\ {Reference(nextHandle, e.of)} \subseteq Given
    BY <1>6, <1>t, <1>2, <1>3, <1>5, <2>1, GivesKeeps
  <2> QED
    BY <1>6, <1>a, <1>2, <1>4, <2>2, AnswersKeep DEF d
<1>7. CASE UNCHANGED handleVars /\ Answers(r, "variables", d, {})
  <2>1. given' = given /\ UNCHANGED <<handles, nextHandle>> /\ {} \subseteq Given
    BY <1>7 DEF Answers, handleVars
  <2>2. Holding'
    BY <1>2, <1>3, <2>1 DEF InspectionInv, Holding, Known
  <2> QED
    BY <1>7, <1>a, <1>t, <1>2, <1>4, <2>1, <2>2, AnswersKeep DEF d
<1> QED
  BY <1>1, <1>6, <1>7 DEF d

LEMMA EvaluatedKeeps ==
  ASSUME InspectionInv, NEW r \in Readers, Evaluated(r)
  PROVE  InspectionInv'
<1> DEFINE e == reader[r]
           data(ok) == IF ok /\ StillCurrent(e.ctx) THEN {moment, e.loc} ELSE {}
<1>t. /\ e \in Requests /\ e.ctx \in OrNothing(Contexts) /\ e.loc \in OrNothing(Moments)
      /\ e.of \in OrNothing(Moments) /\ context \in OrNothing(Contexts) /\ refused \in Nat
      /\ handles \subseteq Handles /\ nextHandle \in Nat /\ cachedRegs \in OrNothing(Moments)
  BY DEF InspectionInv, InspectionTyped, Requests
<1>a. Asked(e) /\ e.at = "evaluate"
  BY DEF InspectionInv, Reading, Evaluated
<1>1. PICK ok \in BOOLEAN :
        /\ MayRefuse(ok)
        /\ \/ e.gen = gen /\ UNCHANGED handleVars /\ Answers(r, "evaluate", data(ok), {})
           \/ /\ e.gen = gen /\ Gives("value", e.ctx, e.loc)
              /\ Answers(r, "evaluate", data(ok), {Reference(nextHandle, e.of)})
           \/ e.gen # gen /\ UNCHANGED handleVars /\ Answers(r, "evaluate", {}, {})
  BY DEF Evaluated
<1>2. /\ UNCHANGED <<machine, gen, context, traceVars, stopping, stack, kept>>
      /\ cachedRegs' \in OrNothing(Moments) /\ refused' \in Nat /\ refused' >= refused
  BY <1>1, <1>t DEF Evaluated, MayRefuse, stopVars, traceVars, machine
<1>3. UNCHANGED shown
  BY <1>1 DEF Answers
<1>n. e.gen = gen => context # Nothing /\ e.of = moment /\ (~kept => e.loc = e.of)
  BY <1>a, CurrentContext DEF Asked
<1>4. e.gen = gen /\ ~kept => data(ok) \subseteq {e.of}
  BY <1>n
<1> DEFINE d == data(ok)
<1> HIDE DEF data, d
<1>5. ASSUME UNCHANGED handleVars, NEW x, Answers(r, "evaluate", x, {}), ~kept => x \subseteq {e.of}
      PROVE  InspectionInv'
  <2>1. given' = given /\ UNCHANGED <<handles, nextHandle>> /\ {} \subseteq Given
    BY <1>5 DEF Answers, handleVars
  <2>2. Holding'
    BY <1>2, <1>3, <2>1 DEF InspectionInv, Holding, Known
  <2> QED
    BY <1>5, <1>a, <1>t, <1>2, <2>1, <2>2, AnswersKeep
<1>6. CASE e.gen = gen /\ Gives("value", e.ctx, e.loc) /\ Answers(r, "evaluate", d, {Reference(nextHandle, e.of)})
  <2>1. \/ given' = given
        \/ /\ given' = given \cup {Reference(nextHandle, e.of)}
           /\ ~kept => e.loc = e.of
           /\ IF shown = Nothing THEN context # Nothing ELSE e.of = shown
    BY <1>6, <1>n, ShownIsNow DEF Answers
  <2>2. Known(e.ctx)
    BY <1>a DEF Asked
  <2>3. Holding' /\ handles' \subseteq Handles /\ nextHandle' \in Nat /\ {Reference(nextHandle, e.of)} \subseteq Given
    BY <1>6, <1>t, <1>2, <1>3, <2>1, <2>2, GivesKeeps
  <2> QED
    BY <1>6, <1>a, <1>2, <1>4, <2>3, AnswersKeep DEF d
<1>7. CASE e.gen = gen /\ UNCHANGED handleVars /\ Answers(r, "evaluate", d, {})
  BY <1>4, <1>5, <1>7 DEF d
<1>8. CASE UNCHANGED handleVars /\ Answers(r, "evaluate", {}, {})
  BY <1>5, <1>8
<1> QED
  BY <1>1, <1>6, <1>7, <1>8 DEF d

\* Nobody waits for a reader that is idle, so a new request is in nobody's way.
LEMMA NobodyWaits ==
  ASSUME InspectionInv, NEW r \in Readers, NEW e, Asks(r, e)
  PROVE  /\ reader[r].at = "idle" /\ reader'[r] = e /\ \A q \in Readers : q # r => reader'[q] = reader[q]
         /\ UNCHANGED <<kept, gen>>
         /\ pending # Nothing => pending \in Readers /\ pending # r
         /\ \A q \in Readers : reader[q].at = "joined" => reader[q].rev \in Readers /\ reader[q].rev # r
         /\ history # Nothing /\ history.by # Nothing => history.by \in Readers /\ history.by # r
         /\ \A q \in Readers : reader[q].rev \in Nat
<1>t. /\ pending \in OrNothing(Readers) /\ history \in OrNothing(Histories) /\ reader \in [Readers -> Requests]
  BY DEF InspectionInv, InspectionTyped
<1>h. history # Nothing => history.by \in OrNothing(Readers)
  BY <1>t, NothingIsNone DEF OrNothing
<1>1. reader[r].at = "idle" /\ reader' = [reader EXCEPT ![r] = e] /\ UNCHANGED <<kept, gen>>
  BY DEF Asks, machine, stopVars
<1>2. reader'[r] = e /\ \A q \in Readers : q # r => reader'[q] = reader[q]
  BY <1>1, <1>t
<1>3. \A q \in Readers : reader[q].rev \in Nat
  BY <1>t DEF Requests
<1> QED
  BY <1>1, <1>2, <1>3, <1>t, <1>h DEF InspectionInv, Capturing, OrNothing

\* The stack of the stop is there, is being captured, or is captured from now on.
LEMMA TraceCfiKeeps ==
  ASSUME InspectionInv, NEW r \in Readers, TraceCfi(r)
  PROVE  InspectionInv'
<1>t. /\ shown \in OrNothing(Moments) /\ handles \subseteq Handles /\ nextHandle \in Nat
      /\ revision \in Nat /\ pending \in OrNothing(Readers) /\ history \in OrNothing(Histories)
      /\ reader \in [Readers -> Requests] /\ context \in OrNothing(Contexts) /\ gen \in Nat
  BY DEF InspectionInv, InspectionTyped
<1>s. shown \in OrNothing(Moments) /\ context \in OrNothing(Contexts) /\ gen \in Nat
  BY <1>t
<1>h. history # Nothing => history.by \in OrNothing(Readers)
  BY <1>t, NothingIsNone DEF OrNothing
<1>c. context # Nothing /\ ~traced /\ UNCHANGED <<history, traced, handleVars, handles, nextHandle>>
  BY DEF TraceCfi, handleVars
<1>1. CASE stack.gen = gen /\ Tells("stack", shown, {stack.of}, Page(shown)) /\ UNCHANGED <<stack, revision, pending>>
  <2>1. /\ shown # Nothing /\ given' = given \cup Page(shown)
        /\ UNCHANGED <<gen, context, shown, kept, stack, handleVars, traceVars>>
    BY <1>1, <1>c DEF Tells, machine, stopVars, traceVars
  <2>2. Holding' /\ Page(shown) \subseteq Given
    BY <1>1, <1>c, <2>1, PageIsHeld
  <2>3. ~kept => {stack.of} \subseteq {shown}
    BY <1>1, <1>c, <2>1, ShownIsNow DEF InspectionInv, Stacked
  <2>4. handles' \subseteq Handles /\ nextHandle' \in Nat
    BY <1>t, <1>c
  <2> QED
    BY <1>1, <2>1, <2>2, <2>3, <2>4, TellsKeeps
<1> DEFINE J == [Resting EXCEPT !.at = "joined", !.of = shown, !.rev = pending]
<1>2. CASE stack.gen # gen /\ Joins /\ Ask(r, J) /\ UNCHANGED <<stack, revision, pending, given, said>>
  <2>1. pending \in Readers /\ reader[pending].at = "unwind" /\ reader[pending].ctx = context
    BY <1>2, <1>t DEF Joins, OrNothing, InspectionInv, Capturing
  <2>2. J \in Requests /\ J.at = "joined" /\ J.of = shown /\ J.rev = pending /\ J.ctx = Nothing
    <3>1. pending \in Nat
      BY <2>1 DEF Readers
    <3>2. J \in Requests
      BY <1>s, <3>1, RestingIsQuiet DEF Requests
    <3> QED
      BY <3>2 DEF Resting
  <2>3. Asks(r, J) /\ shown # Nothing
    BY <1>2 DEF Ask
  <2> HIDE DEF J
  <2>4. Asked(J)
    BY <2>2, <2>3 DEF Asked, Known
  <2>5. reader'[pending] = reader[pending] /\ (~kept => context.moment = shown)
    BY <1>c, <2>1, <2>3, NobodyWaits, ShownIsNow
  <2>6. \A q \in Readers : reader'[q].at = "joined" =>
          /\ reader'[q].rev \in Readers /\ reader'[reader'[q].rev].at \in {"unwind", "trace"}
          /\ ~kept => reader'[reader'[q].rev].ctx.moment = reader'[q].of
    <3> SUFFICES ASSUME NEW q \in Readers, reader'[q].at = "joined"
                 PROVE  /\ reader'[q].rev \in Readers /\ reader'[reader'[q].rev].at \in {"unwind", "trace"}
                        /\ ~kept => reader'[reader'[q].rev].ctx.moment = reader'[q].of
      OBVIOUS
    <3>1. CASE q = r
      BY <2>1, <2>2, <2>3, <2>5, <3>1, NobodyWaits
    <3>2. CASE q # r
      <4>1. reader'[q] = reader[q] /\ reader'[reader[q].rev] = reader[reader[q].rev]
        BY <2>3, <3>2, NobodyWaits
      <4> QED
        BY <4>1 DEF InspectionInv, Capturing
    <3> QED
      BY <3>1, <3>2
  <2>7. \A q \in Readers : reader'[q].at = "unwind" => q # r /\ reader'[q] = reader[q]
    BY <2>2, <2>3, NobodyWaits
  <2>8. Capturing'
    <3>1. pending' # Nothing => reader'[pending'].at = "unwind"
      BY <1>2, <1>c, <2>1, <2>5 DEF InspectionInv, Capturing
    <3>2. \A q \in Readers : reader'[q].at = "unwind" =>
            /\ reader'[q].rev <= revision' /\ (reader'[q].rev = revision' => stack'.gen # gen')
            /\ \A p \in Readers \ {q} : reader'[p].at = "unwind" => reader'[p].rev # reader'[q].rev
      BY <1>2, <2>3, <2>7, NobodyWaits DEF InspectionInv, Capturing
    <3>3. history' = Nothing
      BY <1>c DEF InspectionInv, Capturing
    <3>4. kept' = kept
      BY <2>3, NobodyWaits
    <3> QED
      BY <2>6, <3>1, <3>2, <3>3, <3>4 DEF Capturing
  <2> QED
    BY <1>2, <1>t, <1>c, <2>2, <2>3, <2>4, <2>8, AskKeeps
<1> DEFINE U == [Resting EXCEPT !.at = "unwind", !.of = shown, !.gen = gen, !.ctx = context, !.rev = revision + 1]
<1>3. CASE /\ stack.gen # gen /\ Ask(r, U) /\ revision' = revision + 1 /\ pending' = r
           /\ UNCHANGED <<stack, given, said>>
  <2>1. /\ U \in Requests /\ U.at = "unwind" /\ U.of = shown /\ U.gen = gen /\ U.ctx = context
        /\ U.rev = revision + 1
    <3>1. revision + 1 \in Nat
      BY <1>t
    <3>2. U \in Requests
      BY <1>s, <3>1, RestingIsQuiet DEF Requests
    <3> QED
      BY <3>2 DEF Resting
  <2>2. Asks(r, U) /\ shown # Nothing
    BY <1>3 DEF Ask
  <2> HIDE DEF U
  <2>3. Asked(U)
    BY <1>c, <2>1, <2>2, ShownIsNow DEF Asked
  <2>4. \A q \in Readers : reader'[q].at = "joined" => q # r /\ reader'[q] = reader[q]
                                                       /\ reader'[reader[q].rev] = reader[reader[q].rev]
    BY <2>1, <2>2, NobodyWaits
  <2>5. ASSUME NEW q \in Readers, reader'[q].at = "unwind"
        PROVE  /\ reader'[q].rev <= revision'
               /\ \A p \in Readers \ {q} : reader'[p].at = "unwind" => reader'[p].rev # reader'[q].rev
    <3>1. \A p \in Readers : p # r /\ reader[p].at = "unwind" => reader[p].rev <= revision /\ reader[p].rev \in Nat
      BY <2>2, NobodyWaits DEF InspectionInv, Capturing
    <3>2. \A p \in Readers \ {q} : p # r /\ q # r /\ reader[p].at = "unwind" /\ reader[q].at = "unwind"
            => reader[p].rev # reader[q].rev
      BY DEF InspectionInv, Capturing
    <3>3. reader'[r] = U /\ \A p \in Readers : p # r => reader'[p] = reader[p]
      BY <2>2, NobodyWaits
    <3> QED
      BY <1>3, <1>t, <2>1, <2>5, <3>1, <3>2, <3>3
  <2>6. Capturing'
    <3>1. history' = Nothing /\ stack'.gen # gen'
      BY <1>3, <1>c, <2>2, NobodyWaits DEF InspectionInv, Capturing
    <3>2. pending' = r /\ reader'[r].at = "unwind" /\ kept' = kept
      BY <1>3, <2>1, <2>2, NobodyWaits
    <3>3. \A q \in Readers : reader'[q].at = "joined" =>
            /\ reader'[q].rev \in Readers /\ reader'[reader'[q].rev].at \in {"unwind", "trace"}
            /\ ~kept => reader'[reader'[q].rev].ctx.moment = reader'[q].of
      BY <2>2, <2>4, NobodyWaits DEF InspectionInv, Capturing
    <3> QED
      BY <2>5, <3>1, <3>2, <3>3 DEF Capturing
  <2>7. revision' \in Nat /\ pending' \in OrNothing(Readers)
    BY <1>3, <1>t DEF OrNothing
  <2> QED
    BY <1>3, <1>t, <1>c, <2>1, <2>2, <2>3, <2>6, <2>7, AskKeeps
<1> HIDE DEF J, U
<1> QED
  BY <1>1, <1>2, <1>3 DEF TraceCfi, J, U

\* The same of execution history, which is collected once for a generation.
LEMMA TraceHistoryKeeps ==
  ASSUME InspectionInv, NEW r \in Readers, TraceHistory(r)
  PROVE  InspectionInv'
<1> DEFINE J == [Resting EXCEPT !.at = "joined", !.of = shown, !.rev = history.by]
           T == [Resting EXCEPT !.at = "trace", !.of = shown, !.gen = gen, !.ctx = context]
<1>t. /\ shown \in OrNothing(Moments) /\ handles \subseteq Handles /\ nextHandle \in Nat
      /\ revision \in Nat /\ pending \in OrNothing(Readers) /\ history \in OrNothing(Histories)
  BY DEF InspectionInv, InspectionTyped
<1>s. shown \in OrNothing(Moments) /\ context \in OrNothing(Contexts) /\ gen \in Nat
  BY DEF InspectionInv, InspectionTyped
<1>c. /\ context # Nothing /\ traced
      /\ UNCHANGED <<stack, revision, pending, traced, handleVars, handles, nextHandle>>
  BY DEF TraceHistory, handleVars
<1>u. /\ \A q \in Readers : reader[q].at # "unwind"
      /\ pending = Nothing
  BY <1>c, <1>t DEF InspectionInv, Reading, Asked, Capturing, OrNothing
<1>1. CASE /\ Collected /\ history.by = Nothing /\ UNCHANGED history
           /\ Tells("stack", shown, {stack.of} \ {Nothing}, Page(shown))
  <2>0. stack.gen = gen
    BY <1>1 DEF InspectionInv, Capturing, Collected
  <2>1. /\ shown # Nothing /\ given' = given \cup Page(shown)
        /\ UNCHANGED <<gen, context, shown, kept, stack, handleVars, traceVars>>
    BY <1>1, <1>c DEF Tells, machine, stopVars, traceVars
  <2>2. Holding' /\ Page(shown) \subseteq Given
    BY <1>c, <2>0, <2>1, PageIsHeld
  <2>3. ~kept => {stack.of} \ {Nothing} \subseteq {shown}
    BY <1>c, <2>0, <2>1, ShownIsNow DEF InspectionInv, Stacked
  <2>4. handles' \subseteq Handles /\ nextHandle' \in Nat
    BY <1>t, <1>c
  <2> DEFINE d == {stack.of} \ {Nothing}
  <2>5. Tells("stack", shown, d, Page(shown)) /\ (~kept => d \subseteq {shown})
    BY <1>1, <2>3
  <2> HIDE DEF d
  <2> QED
    BY <2>1, <2>2, <2>4, <2>5, TellsKeeps
<1>2. CASE Collected /\ history.by # Nothing /\ Ask(r, J) /\ UNCHANGED <<history, given, said>>
  <2>1. /\ history.by \in Readers /\ reader[history.by].at = "trace"
        /\ reader[history.by].gen = gen
    BY <1>2, NothingIsNone, <1>t DEF Collected, OrNothing, InspectionInv, Capturing
  <2>2. J \in Requests /\ J.at = "joined" /\ J.of = shown /\ J.rev = history.by /\ J.ctx = Nothing
    <3>1. history.by \in Nat
      BY <2>1 DEF Readers
    <3>2. J \in Requests
      BY <1>s, <3>1, RestingIsQuiet DEF Requests
    <3> QED
      BY <3>2 DEF Resting
  <2>3. Asks(r, J) /\ shown # Nothing
    BY <1>2 DEF Ask
  <2> HIDE DEF J
  <2>4. Asked(J)
    BY <2>2, <2>3 DEF Asked, Known
  <2>5. reader'[history.by] = reader[history.by] /\ (~kept => reader[history.by].ctx.moment = shown)
    <3>1. reader[history.by].ctx # Nothing /\ reader[history.by].ctx.gen = gen
      BY <2>1 DEF InspectionInv, Reading, Asked
    <3>2. reader[history.by].ctx = context
      BY <2>1, <3>1, CurrentContext
    <3> QED
      BY <1>c, <1>2, <2>1, <2>3, <3>2, NobodyWaits, ShownIsNow DEF Collected
  <2>6. \A q \in Readers : reader'[q].at = "joined" =>
          /\ reader'[q].rev \in Readers /\ reader'[reader'[q].rev].at \in {"unwind", "trace"}
          /\ ~kept => reader'[reader'[q].rev].ctx.moment = reader'[q].of
    <3> SUFFICES ASSUME NEW q \in Readers, reader'[q].at = "joined"
                 PROVE  /\ reader'[q].rev \in Readers /\ reader'[reader'[q].rev].at \in {"unwind", "trace"}
                        /\ ~kept => reader'[reader'[q].rev].ctx.moment = reader'[q].of
      OBVIOUS
    <3>1. CASE q = r
      BY <2>1, <2>2, <2>3, <2>5, <3>1, NobodyWaits
    <3>2. CASE q # r
      <4>1. reader'[q] = reader[q] /\ reader'[reader[q].rev] = reader[reader[q].rev]
        BY <2>3, <3>2, NobodyWaits
      <4> QED
        BY <4>1 DEF InspectionInv, Capturing
    <3> QED
      BY <3>1, <3>2
  <2>7. Capturing'
    <3>1. pending' = Nothing /\ \A q \in Readers : reader'[q].at # "unwind"
      BY <1>c, <1>u, <2>2, <2>3, NobodyWaits
    <3>2. /\ history' = history /\ stack' = stack /\ traced' = traced /\ gen' = gen /\ kept' = kept
      BY <1>2, <1>c, <2>3, NobodyWaits
    <3>3. history # Nothing =>
            /\ traced /\ history.gen <= gen /\ history.by # Nothing
            /\ reader'[history.by].at = "trace" /\ reader'[history.by].gen = history.gen
      BY <1>2, <2>1, <2>5 DEF InspectionInv, Capturing, Collected
    <3> QED
      BY <2>6, <3>1, <3>2, <3>3 DEF Capturing
  <2> QED
    BY <1>2, <1>t, <1>c, <2>2, <2>3, <2>4, <2>7, AskKeeps
<1>3. CASE /\ ~Collected /\ Ask(r, T) /\ history' = [gen |-> gen, by |-> r] /\ UNCHANGED <<given, said>>
  <2>1. T \in Requests /\ T.at = "trace" /\ T.of = shown /\ T.gen = gen /\ T.ctx = context
    <3>1. T \in Requests
      BY <1>s, RestingIsQuiet DEF Requests
    <3> QED
      BY <3>1 DEF Resting
  <2>2. Asks(r, T) /\ shown # Nothing
    BY <1>3 DEF Ask
  <2> HIDE DEF T
  <2>3. Asked(T)
    BY <1>c, <2>1, <2>2, ShownIsNow DEF Asked
  <2>4. \A q \in Readers : reader'[q].at = "joined" => q # r /\ reader'[q] = reader[q]
                                                       /\ reader'[reader[q].rev] = reader[reader[q].rev]
    BY <2>1, <2>2, NobodyWaits
  <2>5. Capturing'
    <3>1. pending' = Nothing /\ \A q \in Readers : reader'[q].at # "unwind"
      BY <1>c, <1>u, <2>1, <2>2, NobodyWaits
    <3>2. \A q \in Readers : reader'[q].at = "joined" =>
            /\ reader'[q].rev \in Readers /\ reader'[reader'[q].rev].at \in {"unwind", "trace"}
            /\ ~kept => reader'[reader'[q].rev].ctx.moment = reader'[q].of
      BY <2>2, <2>4, NobodyWaits DEF InspectionInv, Capturing
    <3>3. /\ history'.gen = gen /\ history'.by = r /\ reader'[r].at = "trace" /\ reader'[r].gen = gen
          /\ UNCHANGED <<gen, kept, traced>>
      BY <1>3, <1>c, <2>1, <2>2, NobodyWaits
    <3> QED
      BY <1>c, <1>s, <3>1, <3>2, <3>3, NothingIsNone DEF Capturing
  <2>6. history' \in OrNothing(Histories)
    BY <1>3, <1>s DEF OrNothing, Histories
  <2> QED
    BY <1>3, <1>t, <1>c, <2>1, <2>2, <2>3, <2>5, <2>6, AskKeeps
<1> HIDE DEF J, T
<1> QED
  BY <1>1, <1>2, <1>3 DEF TraceHistory, J, T

\* The end of a capture frees its reader and those that joined it, and nobody else.
LEMMA EndsFree ==
  ASSUME InspectionInv, NEW r \in Readers, reader[r].at \in {"unwind", "trace"}, reader' = Ends(r)
  PROVE  /\ reader' \in [Readers -> Requests]
         /\ \A q \in Readers : reader'[q] \in {reader[q], Resting}
         /\ \A q \in Readers : reader'[q].at # "idle" => q # r /\ reader'[q] = reader[q]
         /\ \A q \in Readers : reader[q].at # "joined" /\ q # r => reader'[q] = reader[q]
         /\ \A q \in Readers : reader'[q].at = "joined" => reader[q].rev # r
<1>1. reader \in [Readers -> Requests]
  BY DEF InspectionInv, InspectionTyped
<1>2. \A q \in Readers : reader'[q] = IF q = r \/ (reader[q].at = "joined" /\ reader[q].rev = r)
                                      THEN Resting ELSE reader[q]
  BY DEF Ends
<1>3. \A q \in Readers : reader'[q] \in Requests
  BY <1>1, <1>2, RestingIsQuiet
<1>4. reader' \in [Readers -> Requests]
  BY <1>3 DEF Ends
<1> QED
  BY <1>2, <1>4, RestingIsQuiet

\* Those that still wait asked of the stop VS Code shows, and get frames of it.
LEMMA WaitingIsOfTheStop ==
  ASSUME InspectionInv, NEW r \in Readers, reader[r].at \in {"unwind", "trace"}, NEW q \in Waiting(r)
  PROVE  /\ q \in Readers /\ shown # Nothing /\ reader[q].of = shown
         /\ ~kept => reader[r].ctx.moment = shown
<1>1. q \in Readers /\ ~reader[q].stale /\ (q = r \/ (reader[q].at = "joined" /\ reader[q].rev = r))
  BY DEF Waiting
<1>2. Asked(reader[q])
  BY <1>1 DEF InspectionInv, Reading
<1>3. shown # Nothing /\ reader[q].of = shown
  BY <1>1, <1>2 DEF Asked
<1>4. ~kept => reader[r].ctx.moment = reader[q].of
  <2>1. CASE q = r
    BY <1>2, <2>1 DEF Asked
  <2>2. CASE q # r
    BY <1>1, <2>2 DEF InspectionInv, Capturing
  <2> QED
    BY <2>1, <2>2
<1> QED
  BY <1>1, <1>3, <1>4

\* The frames of a capture are kept, and told to those that wait, or are dropped.
Keeps(r, w) ==
    /\ stack' = [gen |-> reader[r].gen, of |-> reader[r].ctx.moment, whole |-> w]
    /\ \/ Waiting(r) = {} /\ UNCHANGED <<given, said>>
       \/ \E q \in Waiting(r) :
             /\ said' = [what |-> "stack", stop |-> reader[q].of, data |-> {reader[r].ctx.moment}]
             /\ given' = given \cup {Frame(reader[r].gen, reader[p].of) : p \in Waiting(r)}

LEMMA CaptureEnds ==
  ASSUME InspectionInv, NEW r \in Readers, reader[r].at \in {"unwind", "trace"}, reader' = Ends(r),
         NEW w \in BOOLEAN,
         \/ UNCHANGED <<stack, given, said>>
         \/ /\ Keeps(r, w) /\ (stack.gen # gen \/ reader[r].gen = gen)
            /\ reader[r].gen = gen /\ refused' = 0 => w,
         UNCHANGED <<machine, stopVars, traced, handleVars, stopping, shown>>,
         refused' \in Nat, refused' >= refused,
         Capturing', revision' \in Nat, pending' \in OrNothing(Readers), history' \in OrNothing(Histories)
  PROVE  InspectionInv'
<1> DEFINE e == reader[r]
<1>t. /\ e \in Requests /\ Asked(e) /\ e.gen \in Nat /\ e.ctx \in Contexts /\ e.gen = e.ctx.gen
      /\ e.ctx.moment \in Moments /\ Known(e.ctx) /\ (~kept => e.ctx.moment = e.of)
  <2>1. e \in Requests /\ Asked(e)
    BY DEF InspectionInv, InspectionTyped, Reading
  <2>2. e.ctx \in Contexts /\ e.gen \in Nat
    BY <2>1 DEF Asked, Requests, OrNothing
  <2> QED
    BY <2>1, <2>2, NothingIsNone DEF Asked
<1>g. e.gen <= gen /\ gen \in Nat /\ (e.gen = gen => context # Nothing /\ e.ctx = context)
  <2>1. gen \in Nat /\ context \in OrNothing(Contexts)
    BY DEF InspectionInv, InspectionTyped
  <2> QED
    BY <1>t, <2>1, ShownIsNow, NothingIsNone DEF Known
<1>1. /\ Reads /\ UNCHANGED <<moment, running, kept, gen, context, cachedRegs, traced, handles, nextHandle, stopping, shown>>
  BY DEF Reads, machine, stopVars, handleVars
<1>2. CASE UNCHANGED <<stack, given, said>>
  <2>1. InspectionTyped'
    BY <1>1, <1>2, EndsFree DEF InspectionInv, InspectionTyped
  <2>2. Stopped' /\ Stacked' /\ Reading'
    <3>1. \A q \in Readers : reader'[q] = reader[q] \/ Asked(reader'[q])
      BY EndsFree, RestingIsQuiet
    <3> QED
      BY <1>1, <1>2, <3>1, ReadsKeepTheStop
  <2>3. Holding' /\ Honest'
    BY <1>1, <1>2 DEF InspectionInv, Holding, Honest, Known
  <2> QED
    BY <2>1, <2>2, <2>3 DEF InspectionInv
<1>3. CASE /\ Keeps(r, w) /\ (stack.gen # gen \/ e.gen = gen)
           /\ e.gen = gen /\ refused' = 0 => w
  <2>1. stack' \in Stacks /\ stack'.gen = e.gen /\ stack'.of = e.ctx.moment /\ stack'.whole = w
    BY <1>3, <1>t DEF Keeps, Stacks, OrNothing
  <2>2. \A x \in given' : x \in given \/ (x \in Given /\ x.kind = "frame" /\ x.id = e.gen
                                          /\ x.stop = shown /\ shown # Nothing)
    <3>1. \A p \in Waiting(r) : reader[p].of = shown /\ shown # Nothing
      BY WaitingIsOfTheStop
    <3>2. \A x \in given' : x \in given \/ (\E p \in Waiting(r) : x = Frame(e.gen, reader[p].of))
      BY <1>3 DEF Keeps
    <3>3. Frame(e.gen, shown) \in Given
      BY <1>t DEF Frame, Given, InspectionInv, InspectionTyped
    <3> QED
      BY <3>1, <3>2, <3>3 DEF Frame
  <2>3. InspectionTyped'
    <3>1. given' \subseteq Given
      BY <2>2 DEF InspectionInv, InspectionTyped
    <3> QED
      BY <1>1, <2>1, <3>1, EndsFree DEF InspectionInv, InspectionTyped
  <2>4. Stopped' /\ Reading'
    <3>1. \A q \in Readers : reader'[q] = reader[q] \/ Asked(reader'[q])
      BY EndsFree, RestingIsQuiet
    <3> QED
      BY <1>1, <3>1, ReadsKeepTheStop
  <2>5. Stacked'
    BY <1>1, <1>3, <1>g, <2>1, ShownIsNow DEF Stacked
  <2>6. Holding'
    <3>1. Holding /\ given \subseteq Given
      BY DEF InspectionInv, InspectionTyped
    <3>2. \A f \in given' : f.kind = "frame" =>
            /\ f.id <= gen /\ (f.id = gen => stack'.gen = gen)
            /\ shown # Nothing /\ f.stop = shown
      BY <1>3, <1>g, <2>1, <2>2, <3>1 DEF Holding
    <3>3. \A g \in given' : g.kind = "handle" => g \in given
      BY <2>2
    <3>4. \A h \in handles : Known(h.ctx)'  <=> Known(h.ctx)
      BY <1>1 DEF Known
    <3> QED
      BY <1>1, <3>1, <3>2, <3>3, <3>4 DEF Holding
  <2>7. Honest'
    <3>1. CASE UNCHANGED said
      BY <1>1, <3>1 DEF InspectionInv, Honest
    <3>2. CASE \E q \in Waiting(r) : said' = [what |-> "stack", stop |-> reader[q].of, data |-> {e.ctx.moment}]
      <4>1. PICK q \in Waiting(r) : said' = [what |-> "stack", stop |-> reader[q].of, data |-> {e.ctx.moment}]
        BY <3>2
      <4>2. ~kept => e.ctx.moment = reader[q].of
        BY WaitingIsOfTheStop
      <4> QED
        BY <1>1, <4>1, <4>2 DEF Honest
    <3> QED
      BY <1>3, <3>1, <3>2 DEF Keeps
  <2> QED
    BY <2>3, <2>4, <2>5, <2>6, <2>7 DEF InspectionInv
<1> QED
  BY <1>2, <1>3

\* Those that still wait, wait for a capture that is under way.
LEMMA JoinedGoOn ==
  ASSUME InspectionInv, NEW r \in Readers, reader[r].at \in {"unwind", "trace"}, reader' = Ends(r), kept' = kept
  PROVE  \A q \in Readers : reader'[q].at = "joined" =>
            /\ reader'[q].rev \in Readers /\ reader'[reader'[q].rev].at \in {"unwind", "trace"}
            /\ ~kept' => reader'[reader'[q].rev].ctx.moment = reader'[q].of
<1> SUFFICES ASSUME NEW q \in Readers, reader'[q].at = "joined"
             PROVE  /\ reader'[q].rev \in Readers /\ reader'[reader'[q].rev].at \in {"unwind", "trace"}
                    /\ ~kept => reader'[reader'[q].rev].ctx.moment = reader'[q].of
  OBVIOUS
<1>1. reader'[q] = reader[q] /\ reader[q].rev # r
  BY EndsFree
<1>2. reader[q].rev \in Readers /\ reader[reader[q].rev].at \in {"unwind", "trace"}
      /\ (~kept => reader[reader[q].rev].ctx.moment = reader[q].of)
  BY <1>1 DEF InspectionInv, Capturing
<1>3. reader'[reader[q].rev] = reader[reader[q].rev]
  BY <1>1, <1>2, EndsFree
<1> QED
  BY <1>1, <1>2, <1>3

\* Frames collected for a stop that was captured again have another revision, so
\* the ones that are kept are complete or nobody's.
LEMMA UnwoundKeeps ==
  ASSUME InspectionInv, NEW r \in Readers, Unwound(r)
  PROVE  InspectionInv'
<1>t. /\ revision \in Nat /\ pending \in OrNothing(Readers) /\ history \in OrNothing(Histories)
      /\ refused \in Nat /\ reader[r].at = "unwind" /\ reader' = Ends(r)
  BY DEF InspectionInv, InspectionTyped, Unwound
<1>1. PICK ok \in BOOLEAN :
        /\ MayRefuse(ok)
        /\ IF SameRevision(r)
           THEN Keeps(r, ok /\ StillCurrent(reader[r].ctx))
           ELSE UNCHANGED <<stack, given, said>>
  BY DEF Unwound, Keeps
<1>2. /\ UNCHANGED <<machine, stopVars, revision, history, traced, handleVars, stopping, shown>>
      /\ UNCHANGED <<gen, kept>>
      /\ pending' = IF pending = r THEN Nothing ELSE pending
  BY DEF Unwound, machine, stopVars
<1>3. refused' \in Nat /\ refused' >= refused /\ (refused' = 0 => ok)
  BY <1>1, <1>t DEF MayRefuse
<1>4. pending' \in OrNothing(Readers)
  BY <1>2, <1>t DEF OrNothing
<1>5. history = Nothing
  BY <1>t DEF InspectionInv, Capturing, Reading, Asked
<1>6. SameRevision(r) => stack.gen # gen
  BY <1>t DEF InspectionInv, Capturing, SameRevision
<1>7. Capturing'
  <2>1. pending' # Nothing => reader'[pending'].at = "unwind"
    <3>1. pending' # Nothing => /\ pending \in Readers /\ pending' = pending /\ pending # r
                                /\ reader[pending].at = "unwind"
      BY <1>2, <1>t DEF InspectionInv, Capturing, OrNothing
    <3> QED
      BY <1>t, <3>1, EndsFree
  <2>2. \A q \in Readers : reader'[q].at = "unwind" =>
            /\ reader'[q].rev <= revision' /\ (reader'[q].rev = revision' => stack'.gen # gen')
            /\ \A p \in Readers \ {q} : reader'[p].at = "unwind" => reader'[p].rev # reader'[q].rev
    <3> SUFFICES ASSUME NEW q \in Readers, reader'[q].at = "unwind"
                 PROVE  /\ reader'[q].rev <= revision /\ (reader'[q].rev = revision => stack'.gen # gen)
                        /\ \A p \in Readers \ {q} : reader'[p].at = "unwind" => reader'[p].rev # reader'[q].rev
      BY <1>2
    <3>1. q # r /\ reader'[q] = reader[q]
      BY <1>t, EndsFree
    <3>2. \A p \in Readers : reader'[p].at = "unwind" => reader'[p] = reader[p]
      BY <1>t, EndsFree
    <3>3. /\ reader[q].rev <= revision /\ (reader[q].rev = revision => stack.gen # gen)
          /\ reader[r].rev # reader[q].rev
          /\ \A p \in Readers \ {q} : reader[p].at = "unwind" => reader[p].rev # reader[q].rev
      BY <1>t, <3>1 DEF InspectionInv, Capturing
    <3>4. reader[q].rev = revision => stack' = stack
      BY <1>1, <3>3 DEF SameRevision
    <3> QED
      BY <3>1, <3>2, <3>3, <3>4
  <2> QED
    BY <1>2, <1>5, <1>t, <2>1, <2>2, JoinedGoOn DEF Capturing
<1> DEFINE w == ok /\ StillCurrent(reader[r].ctx)
<1>8. w \in BOOLEAN
  OBVIOUS
<1>9. reader[r].gen = gen /\ refused' = 0 => w
  <2>1. reader[r].ctx # Nothing /\ reader[r].gen = reader[r].ctx.gen
    BY <1>t DEF InspectionInv, Reading, Asked
  <2> QED
    BY <1>3, <2>1 DEF StillCurrent
<1>10. SameRevision(r) \/ UNCHANGED <<stack, given, said>>
  BY <1>1
<1>11. SameRevision(r) => Keeps(r, w)
  BY <1>1
<1> HIDE DEF w
<1> QED
  BY <1>2, <1>3, <1>4, <1>6, <1>7, <1>8, <1>9, <1>10, <1>11, <1>t, CaptureEnds

\* Execution history is kept in time or not at all.
LEMMA TracedKeeps ==
  ASSUME InspectionInv, NEW r \in Readers, Traced(r)
  PROVE  InspectionInv'
<1> DEFINE mine == history # Nothing /\ history.by = r /\ history.gen = reader[r].gen
<1>t. /\ revision \in Nat /\ pending \in OrNothing(Readers) /\ history \in OrNothing(Histories)
      /\ refused \in Nat /\ reader[r].at = "trace" /\ reader' = Ends(r) /\ gen \in Nat
  BY DEF InspectionInv, InspectionTyped, Traced
<1>h. history # Nothing => history.gen \in Nat /\ history.by \in OrNothing(Readers)
  BY <1>t, NothingIsNone DEF OrNothing
<1>1. PICK ok \in BOOLEAN :
        /\ MayRefuse(ok)
        /\ \/ /\ TracedInTime(r) /\ Keeps(r, TRUE)
              /\ history' = IF mine THEN [history EXCEPT !.by = Nothing] ELSE history
           \/ history' = (IF mine THEN Nothing ELSE history) /\ UNCHANGED <<stack, given, said>>
  BY DEF Traced, Keeps
<1>2. /\ UNCHANGED <<machine, stopVars, revision, pending, traced, handleVars, stopping, shown>>
      /\ UNCHANGED <<gen, kept>>
  BY DEF Traced, machine, stopVars
<1>3. refused' \in Nat /\ refused' >= refused
  BY <1>1, <1>t DEF MayRefuse
<1>u. /\ traced /\ \A q \in Readers : reader[q].at # "unwind"
      /\ pending = Nothing
  BY <1>t DEF InspectionInv, Reading, Asked, Capturing, OrNothing
<1>4. history' # Nothing => /\ history # Nothing /\ history'.gen = history.gen /\ history.gen <= gen
                            /\ \/ ~mine /\ history' = history
                               \/ mine /\ history'.by = Nothing /\ stack'.gen = gen
  <2>1. history # Nothing => history.gen <= gen
    BY DEF InspectionInv, Capturing
  <2>2. CASE ~mine
    BY <1>1, <2>1, <2>2
  <2>3. CASE mine
    <3>1. mine => [history EXCEPT !.by = Nothing].gen = history.gen /\ [history EXCEPT !.by = Nothing].by = Nothing
      BY <1>t DEF OrNothing, Histories
    <3> HIDE DEF mine
    <3>2. history' # Nothing => history' = [history EXCEPT !.by = Nothing] /\ TracedInTime(r) /\ stack'.gen = reader[r].gen
      BY <1>1, <2>3 DEF Keeps
    <3> QED
      BY <2>1, <2>3, <3>1, <3>2 DEF TracedInTime, mine
  <2> QED
    BY <2>2, <2>3
<1>5. stack' = stack \/ stack'.gen = gen
  BY <1>1 DEF Keeps, TracedInTime
<1>6. history' \in OrNothing(Histories)
  <2>1. history \in Histories => [history EXCEPT !.by = Nothing] \in Histories
    BY DEF Histories, OrNothing
  <2> HIDE DEF mine
  <2> QED
    BY <1>1, <1>t, <2>1 DEF OrNothing, mine
<1>7. Capturing'
  <2>1. pending' = Nothing /\ \A q \in Readers : reader'[q].at # "unwind"
    BY <1>2, <1>u, <1>t, EndsFree, RestingIsQuiet
  <2>2. history' # Nothing =>
          /\ traced' /\ history'.gen <= gen'
          /\ history'.by # Nothing =>
                reader'[history'.by].at = "trace" /\ reader'[history'.by].gen = history'.gen
          /\ history'.by = Nothing /\ history'.gen = gen' => stack'.gen = gen'
    <3>1. ASSUME history' # Nothing, history' = history, ~mine
          PROVE  /\ history.by # Nothing =>
                      reader'[history.by].at = "trace" /\ reader'[history.by].gen = history.gen
                 /\ history.by = Nothing /\ history.gen = gen => stack'.gen = gen
      <4>1. /\ history.by # Nothing => reader[history.by].at = "trace" /\ reader[history.by].gen = history.gen
            /\ history.by = Nothing /\ history.gen = gen => stack.gen = gen
        BY <3>1 DEF InspectionInv, Capturing
      <4>2. history.by # Nothing => history.by \in Readers /\ history.by # r
        BY <1>h, <3>1, <4>1 DEF OrNothing
      <4>3. history.by # Nothing => reader'[history.by] = reader[history.by]
        BY <1>t, <4>1, <4>2, EndsFree
      <4> QED
        BY <1>5, <4>1, <4>2, <4>3
    <3> HIDE DEF mine
    <3> QED
      BY <1>2, <1>4, <1>u, <3>1
  <2>3. kept' = kept
    BY <1>2
  <2>4. \A q \in Readers : reader'[q].at = "joined" =>
            /\ reader'[q].rev \in Readers /\ reader'[reader'[q].rev].at \in {"unwind", "trace"}
            /\ ~kept' => reader'[reader'[q].rev].ctx.moment = reader'[q].of
    BY <1>t, <2>3, JoinedGoOn
  <2> QED
    BY <2>1, <2>2, <2>4 DEF Capturing
<1>8. \/ UNCHANGED <<stack, given, said>>
      \/ Keeps(r, TRUE) /\ reader[r].gen = gen
  BY <1>1 DEF TracedInTime
<1> HIDE DEF mine
<1>9. revision' \in Nat /\ pending' \in OrNothing(Readers)
  BY <1>2, <1>t
<1> QED
  BY <1>2, <1>3, <1>6, <1>7, <1>8, <1>9, <1>t, CaptureEnds
-----------------------------------------------------------------------------
(* The theorems.                                                            *)

LEMMA InspectionStarts == InspectionInit => InspectionInv
<1> SUFFICES ASSUME InspectionInit PROVE InspectionInv
  OBVIOUS
<1> USE DEF InspectionInit
<1>1. reader \in [Readers -> Requests] /\ \A r \in Readers : reader[r] = Resting
  BY RestingIsQuiet
<1>2. InspectionTyped
  <2>1. moment \in Moments /\ refused \in Nat /\ gen \in Nat /\ revision \in Nat /\ nextHandle \in Nat
    BY InspectionAssumption DEF Moments
  <2>2. stack \in Stacks
    BY DEF NoStack, Stacks, OrNothing
  <2> QED
    BY <1>1, <2>1, <2>2 DEF InspectionTyped, OrNothing
<1>3. Stopped /\ Stacked /\ Holding /\ Honest
  BY DEF Stopped, Stacked, NoStack, Holding, Honest, Silent
<1>4. Reading /\ Capturing
  BY <1>1, RestingIsQuiet DEF Reading, Capturing
<1> QED
  BY <1>2, <1>3, <1>4 DEF InspectionInv

LEMMA InspectionGoesOn == InspectionInv /\ [InspectionNext]_inspectionVars => InspectionInv'
<1> SUFFICES ASSUME InspectionInv, [InspectionNext]_inspectionVars PROVE InspectionInv'
  OBVIOUS
<1>1. CASE UNCHANGED inspectionVars
  <2>1. InspectionTyped' /\ Stopped'
    BY <1>1 DEF inspectionVars, machine, stopVars, traceVars, handleVars, vscode, InspectionInv, InspectionTyped, Stopped
  <2>2. refused' >= refused
    BY <1>1 DEF inspectionVars, InspectionInv, InspectionTyped
  <2> QED
    BY <1>1, <2>1, <2>2, AsideKeeps DEF inspectionVars, machine, stopVars
<1>2. CASE Refreshed
  BY <1>2, RefreshedKeeps
<1>3. CASE Stops \/ Runs \/ LetsGo \/ LetGo \/ Reboot \/ WasReset \/ StepOne \/ Executed \/ Cleanup
  BY <1>3, MachineKeeps
<1>4. CASE Scopes
  BY <1>4, ScopesKeeps
<1>5. ASSUME NEW r \in Readers,
             TraceRegisters(r) \/ TraceCfi(r) \/ TraceHistory(r) \/ Variables(r) \/ Evaluate(r)
      PROVE  InspectionInv'
  BY <1>5, TraceRegistersKeeps, TraceCfiKeeps, TraceHistoryKeeps, VariablesKeeps, EvaluateKeeps
<1>6. ASSUME NEW r \in Readers, Finishes(r) PROVE InspectionInv'
  BY <1>6, GotRegistersKeeps, UnwoundKeeps, TracedKeeps, ReadKeeps, EvaluatedKeeps DEF Finishes
<1> QED
  BY <1>1, <1>2, <1>3, <1>4, <1>5, <1>6 DEF InspectionNext

LEMMA InspectionInvariant == InspectionSpec => []InspectionInv
<1> QED
  BY InspectionStarts, InspectionGoesOn, PTL DEF InspectionSpec

(* A stack, a variable or an evaluation that VS Code uses is made of the one   *)
(* stop it was asked for, whatever number of stops, requests and refused reads *)
(* there is: readers compare their context with the current one (StopMemory-   *)
(* Reader), captures their revision and generation (StackTraceService), and    *)
(* whoever is overtaken says nothing (v6-debug-adapter.ts).                    *)
THEOREM AnswersAreMadeOfOneStop == InspectionSpec => []AnswersAreOfTheirStop
<1>1. InspectionInv => AnswersAreOfTheirStop
  <2> SUFFICES ASSUME InspectionInv PROVE AnswersAreOfTheirStop
    OBVIOUS
  <2>1. context = Nothing \/ (context.gen <= gen /\ context.moment \in Moments)
    BY ShownIsNow, NothingIsNone
  <2>2. \A h \in handles : h.id < nextHandle
    BY DEF InspectionInv, Holding
  <2>3. \A r \in Readers : reader[r].at \in {"idle", "registers", "unwind", "trace", "joined", "read", "evaluate"}
    BY DEF InspectionInv, InspectionTyped, Requests
  <2> QED
    BY <2>1, <2>2, <2>3 DEF InspectionInv, InspectionTyped, Honest, AnswersAreOfTheirStop, InspectionTypeOK
<1> QED
  BY <1>1, InspectionInvariant, PTL

(* A frame of the stop that is current is open as long as VS Code holds it, and *)
(* its stack is whole unless a read was refused: the capture of an earlier stop *)
(* neither replaces it (StackTraceService compares revisions) nor survives the  *)
(* generation it was made for (onStop, v6-debug-adapter.ts).                    *)
THEOREM OpenFramesStay == InspectionSpec => []FramesStayOpen
<1>1. InspectionInv => FramesStayOpen
  BY DEF InspectionInv, Holding, Stacked, FramesStayOpen
<1> QED
  BY <1>1, InspectionInvariant, PTL
================================================================================
