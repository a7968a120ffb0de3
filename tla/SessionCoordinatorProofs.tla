---------------------- MODULE SessionCoordinatorProofs ----------------------
(***************************************************************************)
(* Safety of SessionCoordinator for every set of processes, every number   *)
(* of attempts and requests, and whatever emulators and other programs do  *)
(* (any PromptExit and ForeignRun): first that the coordinator's state      *)
(* agrees with its connection, then which emulator a session uses and who   *)
(* is responsible for every emulator that was launched.                     *)
(***************************************************************************)
EXTENDS SessionCoordinator, FiniteSetTheorems, TLAPS

OpeningPCs == {"port", "connecting", "retrying", "negotiating", "attaching",
               "loading"}

\* The flag of the coordinator and the await of the running transition agree.
Phases == opening <=> job.pc \in OpeningPCs

\* A lease taken by the opening lives no longer than its connection, and a
\* connection is not tried again while there is one.
LeaseIsOpen == /\ job.live => link = "open"
               /\ job.pc = "retrying" => link # "open"

LinkInv == Phases /\ LeaseIsOpen /\ StateMatchesLink /\ ServerFactsAreCurrent

\* Waiting transitions have increasing ids between the running one's and the
\* last one given out.
InOrder ==
    /\ job.id <= requestId
    /\ \A i \in 1..Len(queue) : job.id < queue[i].id /\ queue[i].id <= requestId
    /\ \A i, k \in 1..Len(queue) : i < k => queue[i].id < queue[k].id

LEMMA Cleared == NoSession \in Sessions
  BY DEF NoSession, Sessions, Owners, Modes

LEMMA DroppedKeeps == session \in Sessions => Dropped \in Sessions
  BY DEF Dropped, Sessions

LEMMA ForgetKeeps ==
  ASSUME NEW j \in Jobs
  PROVE  /\ Forget(j) \in Jobs
         /\ Forget(j).pc = j.pc /\ Forget(j).id = j.id
         /\ ~Forget(j).live
  BY DEF Forget, Jobs

LEMMA HeadAndTail ==
  ASSUME NEW T, NEW q \in Seq(T), q # <<>>
  PROVE  Head(q) \in T /\ Tail(q) \in Seq(T)
  OBVIOUS

LEMMA JobMoves ==
  ASSUME NEW j \in Jobs
  PROVE  /\ j.id \in Nat /\ j.kind \in Kinds /\ j.attempt \in Nat
         /\ \A pc \in PCs : [j EXCEPT !.pc = pc] \in Jobs
         /\ \A p \in Procs :
              [j EXCEPT !.pc = "connecting", !.attempt = 1, !.process = p] \in Jobs
         /\ [j EXCEPT !.pc = "connecting", !.attempt = @ + 1] \in Jobs
         /\ [j EXCEPT !.pc = "negotiating", !.live = TRUE] \in Jobs
         /\ [j EXCEPT !.sameProgram = FALSE] \in Jobs
         /\ \A b \in BOOLEAN : [j EXCEPT !.saved = b] \in Jobs
<1> USE DEF Jobs, PCs
<1>1. j.id \in Nat /\ j.kind \in Kinds /\ j.attempt \in Nat
  OBVIOUS
<1>2. \A pc \in PCs : [j EXCEPT !.pc = pc] \in Jobs
  OBVIOUS
<1>3. \A p \in Procs :
        [j EXCEPT !.pc = "connecting", !.attempt = 1, !.process = p] \in Jobs
  OBVIOUS
<1>4. [j EXCEPT !.pc = "connecting", !.attempt = @ + 1] \in Jobs
  BY j.attempt + 1 \in Nat
<1>5. [j EXCEPT !.pc = "negotiating", !.live = TRUE] \in Jobs
  OBVIOUS
<1>6. [j EXCEPT !.sameProgram = FALSE] \in Jobs
  OBVIOUS
<1>7. \A b \in BOOLEAN : [j EXCEPT !.saved = b] \in Jobs
  OBVIOUS
<1> QED
  BY <1>1, <1>2, <1>3, <1>4, <1>5, <1>6, <1>7

LEMMA SessionMoves ==
  ASSUME session \in Sessions
  PROVE  /\ \A s \in Usable : [session EXCEPT !.state = s] \in Sessions
         /\ \A p \in Procs : [session EXCEPT !.process = p] \in Sessions
         /\ [session EXCEPT !.info = TRUE] \in Sessions
         /\ [session EXCEPT !.attached = TRUE] \in Sessions
         /\ [session EXCEPT !.program = TRUE] \in Sessions
         /\ \A b \in BOOLEAN :
              [session EXCEPT !.state = "running", !.program = TRUE,
                              !.attached = b] \in Sessions
  BY DEF Sessions, Usable

LEMMA IdleIsJob == Idle \in Jobs
  BY DEF Idle, Jobs, Kinds, PCs, Owners

LEMMA CapturedIsJob ==
  ASSUME TypeOK, NEW t \in [id : Nat, kind : Kinds], NEW pc \in PCs
  PROVE  /\ StopCaptured(t, pc) \in Jobs
         /\ StopCaptured(t, pc).pc = pc /\ StopCaptured(t, pc).id = t.id
         /\ ~StopCaptured(t, pc).live
<1> DEFINE Capture(b) ==
      [Idle EXCEPT !.id = t.id, !.kind = t.kind, !.pc = pc,
                   !.process = session.process, !.owner = session.owner,
                   !.same = TRUE, !.sameProgram = TRUE, !.linked = b]
<1>1. ASSUME NEW b \in BOOLEAN
      PROVE  /\ Capture(b) \in Jobs /\ Capture(b).pc = pc
             /\ Capture(b).id = t.id /\ ~Capture(b).live
  BY ZenonT(30) DEF TypeOK, Sessions, Idle, Jobs
<1>2. (link = "open") \in BOOLEAN
  OBVIOUS
<1>3. StopCaptured(t, pc) = Capture(link = "open")
  BY Zenon DEF StopCaptured
<1> HIDE DEF Capture
<1> QED
  BY <1>1, <1>2, <1>3, Zenon

LEMMA SubmitTypes ==
  ASSUME TypeOK, NEW kind \in Kinds, Submit(kind)
  PROVE  /\ session' \in Sessions /\ job' \in Jobs
         /\ requestId' \in Nat /\ queue' \in Seq([id : Nat, kind : Kinds])
         /\ reload' \in {"idle", "live", "gone"}
         /\ link' \in {"none", "connecting", "open"}
         /\ peer' \in Peers \cup {None}
  BY DroppedKeeps, ForgetKeeps DEF TypeOK, Submit, Unlink, ReloadGone

LEMMA CleanupTypes ==
  ASSUME TypeOK
  PROVE  /\ DisconnectCurrent =>
              /\ session' \in Sessions
              /\ link' \in {"none", "connecting", "open"}
              /\ peer' \in Peers \cup {None}
              /\ reload' \in {"idle", "live", "gone"}
         /\ Cleanup => killed' \subseteq Procs
  BY Cleared DEF TypeOK, DisconnectCurrent, Unlink, Cleanup, ReloadGone

LEMMA FinishTypes ==
  ASSUME TypeOK, NEW id \in Nat, NEW ok \in BOOLEAN, Finish(id, ok)
  PROVE  /\ job' \in Jobs /\ stopInFlight' \in Nat
         /\ shutdown' \in {"no", "first", "retry", "second", "done"}
         /\ job' = Idle
  BY IdleIsJob DEF TypeOK, Finish

LEMMA FailOpeningTypes == TypeOK /\ FailOpening => TypeOK'
  BY CleanupTypes, FinishTypes DEF TypeOK, FailOpening, Jobs, Cleanup

LEMMA ExitTypes ==
  ASSUME TypeOK, NEW j \in Jobs, ExitOrWait(j)
  PROVE  job' \in Jobs /\ exitSent' \subseteq Peers \cup {None}
  BY JobMoves DEF TypeOK, ExitOrWait, PCs

LEMMA InitTypes == Init => TypeOK
<1> SUFFICES ASSUME Init PROVE TypeOK
  OBVIOUS
<1>1. session \in Sessions /\ job \in Jobs /\ queue \in Seq([id : Nat, kind : Kinds])
  BY Cleared, IdleIsJob DEF Init
<1> QED
  BY <1>1 DEF Init, TypeOK

LEMMA TypeStep == TypeOK /\ [Next]_vars => TypeOK'
<1> SUFFICES ASSUME TypeOK, [Next]_vars PROVE TypeOK'
  OBVIOUS
<1> USE SessionAssumption DEF TypeOK, hostVars
<1>1. ASSUME NEW kind \in Kinds, Open(kind) PROVE TypeOK'
  BY <1>1, SubmitTypes DEF Open, Submit
<1>2. CASE Stop \/ Shutdown \/ ShutdownAgain
  BY <1>2, SubmitTypes DEF Stop, Shutdown, ShutdownAgain, JoinOrSubmitStop,
     Submit, Kinds
<1>3. CASE Disconnect
  BY <1>3, CleanupTypes, ForgetKeeps DEF Disconnect
<1>4. CASE Begin
  <2>1. Head(queue) \in [id : Nat, kind : Kinds] /\ Tail(queue) \in Seq([id : Nat, kind : Kinds])
    BY <1>4, HeadAndTail DEF Begin
  <2> DEFINE t == Head(queue)
  <2>2. CASE Finish(t.id, FALSE) /\ UNCHANGED <<session, opening, link, peer, reload>>
    BY <1>4, <2>1, <2>2, FinishTypes DEF Begin
  <2>3. CASE BeginStop(t) /\ UNCHANGED <<opening, stopInFlight, shutdown>>
    <3>1. /\ StopCaptured(t, "stopped") \in Jobs /\ StopCaptured(t, "detaching") \in Jobs
          /\ StopCaptured(t, "pausing") \in Jobs /\ StopCaptured(t, "waiting") \in Jobs
      BY <2>1, CapturedIsJob DEF PCs
    <3> QED
      BY <1>4, <2>1, <2>3, <3>1, CleanupTypes DEF Begin, BeginStop
  <2>4. CASE /\ job' = [Idle EXCEPT !.id = t.id, !.kind = "attach",
                                    !.pc = "connecting", !.attempt = MaxAttempts]
             /\ session' = [NoSession EXCEPT !.mode = "attach", !.state = "launching"]
             /\ opening' = TRUE
             /\ link' = "connecting" /\ peer' = None /\ reload' = ReloadGone
             /\ UNCHANGED <<stopInFlight, shutdown>>
    <3>1. job' \in Jobs
      BY <2>1, <2>4, IdleIsJob DEF Jobs, Kinds, PCs
    <3>2. session' \in Sessions
      BY <2>4, Cleared DEF Sessions, Modes
    <3> QED
      BY <1>4, <2>1, <2>4, <3>1, <3>2 DEF Begin, ReloadGone
  <2> QED
    BY <1>4, <2>2, <2>3, <2>4 DEF Begin
<1>5. CASE EndStop
  <2>1. (job.kind \in {"stop", "shutdown"}) \in BOOLEAN
    OBVIOUS
  <2> QED
    BY <1>5, <2>1, FinishTypes, JobMoves DEF EndStop
<1>6. CASE Detached
  BY <1>6, CleanupTypes, ForgetKeeps DEF Detached, Jobs, PCs
<1>7. CASE Paused
  <2>1. session' \in Sessions
    BY <1>7 DEF Paused, Sessions, Usable
  <2>2. job.id \in Nat /\ [job EXCEPT !.pc = "saving"] \in Jobs
    BY DEF Jobs, PCs
  <2> QED
    BY <1>7, <2>1, <2>2, FinishTypes, ExitTypes DEF Paused
<1>8. CASE Saved
  <2>1. [job EXCEPT !.saved = TRUE] \in Jobs /\ job.id \in Nat
    BY JobMoves
  <2>2. CASE ExitOrWait([job EXCEPT !.saved = TRUE]) /\ UNCHANGED hostVars
    BY <1>8, <2>1, <2>2, ExitTypes DEF Saved
  <2>3. CASE Finish(job.id, FALSE) /\ UNCHANGED <<requestId, queue, exitSent>>
    BY <1>8, <2>1, <2>3, FinishTypes DEF Saved
  <2>4. CASE ExitOrWait(job) /\ UNCHANGED hostVars
    BY <1>8, <2>4, ExitTypes DEF Saved
  <2> QED
    BY <1>8, <2>2, <2>3, <2>4, Zenon DEF Saved
<1>9. CASE ExitAnswered
  BY <1>9 DEF ExitAnswered, Jobs, PCs
<1>10. CASE Waited
  BY <1>10, CleanupTypes, ForgetKeeps, SMTT(20) DEF Waited, Jobs, PCs, Cleanup
<1>11. CASE FailOpening
  BY <1>11, FailOpeningTypes
<1>12. CASE StartRun
  <2>1. ASSUME NEW p \in Procs, Launched(p), session' = Opened(p),
               job' = [job EXCEPT !.pc = "connecting", !.attempt = 1, !.process = p],
               opening' = TRUE, reload' = ReloadGone,
               UNCHANGED <<hostVars, peer, killed, released, exitSent>>
        PROVE  TypeOK'
    <3>1. session' \in Sessions
      BY <1>12, <2>1 DEF StartRun, Opened, Sessions, Owners, Modes
    <3>2. job' \in Jobs
      BY <2>1 DEF Jobs, PCs
    <3> QED
      BY <2>1, <3>1, <3>2 DEF Launched, ReloadGone
  <2> QED
    BY <1>12, <1>11, <2>1 DEF StartRun
<1>13. CASE StartDebug
  <2>1. session' \in Sessions
    BY <1>13 DEF StartDebug, Opened, Sessions, Owners, Modes
  <2>2. job' \in Jobs
    BY <1>13 DEF StartDebug, Jobs, PCs
  <2> QED
    BY <1>13, <2>1, <2>2 DEF StartDebug, ReloadGone
<1>14. CASE LaunchDebug
  <2>1. PICK p \in Procs :
          /\ Launched(p)
          /\ session' = [session EXCEPT !.process = p]
          /\ job' = [job EXCEPT !.pc = "connecting", !.attempt = 1, !.process = p]
    BY <1>14, Zenon DEF LaunchDebug
  <2>2. session' \in Sessions
    BY <2>1, SessionMoves
  <2>3. job' \in Jobs
    BY <2>1, JobMoves
  <2> QED
    BY <1>14, <2>1, <2>2, <2>3 DEF LaunchDebug, Launched
<1>15. CASE LaunchDebugFails \/ OpeningFails \/ RetrySuperseded
  BY <1>15, <1>11 DEF LaunchDebugFails, OpeningFails, RetrySuperseded
<1>16. CASE Connects
  <2>1. \A q \in Answering : q \in Peers \cup {None}
    <3>1. job.process \in Procs \cup {None}
      BY DEF Jobs
    <3> QED
      BY <3>1 DEF Answering, Peers
  <2> QED
    BY <1>16, <2>1, JobMoves DEF Connects
<1>17. CASE ConnectFails
  BY <1>17, <1>11 DEF ConnectFails, Jobs, PCs
<1>18. CASE Retry
  BY <1>18, JobMoves DEF Retry
<1>19. CASE Negotiated \/ DebuggerAttached
  BY <1>19, JobMoves, SessionMoves DEF Negotiated, DebuggerAttached, PCs
<1>20. CASE Publish
  <2>1. session' \in Sessions
    BY <1>20, ZenonT(30) DEF Publish, Sessions, Usable
  <2>2. job.id \in Nat
    BY DEF Jobs
  <2> QED
    BY <1>20, <2>1, <2>2, FinishTypes DEF Publish
<1>21. CASE LinkLost
  BY <1>21, DroppedKeeps, ForgetKeeps DEF LinkLost, Unlink, ReloadGone
<1>22. ASSUME NEW p \in Procs, ProcessExits(p) PROVE TypeOK'
  BY <1>22, CleanupTypes, ForgetKeeps DEF ProcessExits
<1>23. CASE SetExecutionRunning
  BY <1>23, SessionMoves, ZenonT(30) DEF SetExecutionRunning
<1>24. CASE ReloadBegins
  BY <1>24 DEF ReloadBegins
<1>25. CASE ReloadEnds
  BY <1>25, SessionMoves, JobMoves DEF ReloadEnds
<1>26. CASE UNCHANGED vars
  BY <1>26 DEF vars
<1> QED
  BY <1>1, <1>2, <1>3, <1>4, <1>5, <1>6, <1>7, <1>8, <1>9, <1>10, <1>12,
     <1>13, <1>14, <1>15, <1>16, <1>17, <1>18, <1>19, <1>20, <1>21, <1>22,
     <1>23, <1>24, <1>25, <1>26 DEF Next

\* Every reachable state of the coordinator and of its surroundings is well
\* typed, whatever happens at its awaits (session-coordinator.ts:91).
THEOREM SessionTypeCorrect == Spec => []TypeOK
<1>1. Init => TypeOK
  BY InitTypes
<1>2. TypeOK /\ [Next]_vars => TypeOK'
  BY TypeStep
<1> QED
  BY <1>1, <1>2, PTL DEF Spec

-----------------------------------------------------------------------------
(* The published state and the connection.                                 *)

LEMMA DroppedLinks ==
  ASSUME TypeOK, LinkInv, Unlink, session' = Dropped, job' = Forget(job),
         opening' = opening
  PROVE  LinkInv'
  BY ForgetKeeps DEF TypeOK, LinkInv, Phases, LeaseIsOpen, StateMatchesLink,
     ServerFactsAreCurrent, Unlink, Dropped, Sessions, Usable

\* Whoever disconnects leaves no lease behind.
LEMMA DisconnectLinks ==
  ASSUME TypeOK, DisconnectCurrent, ~job'.live,
         opening' <=> job'.pc \in OpeningPCs
  PROVE  LinkInv'
  BY DEF LinkInv, Phases, LeaseIsOpen, StateMatchesLink, ServerFactsAreCurrent,
     DisconnectCurrent, Unlink, NoSession, Usable

LEMMA FailOpeningLinks == TypeOK /\ FailOpening => LinkInv'
<1> SUFFICES ASSUME TypeOK, FailOpening PROVE LinkInv'
  OBVIOUS
<1>1. DisconnectCurrent /\ opening' = FALSE /\ job' = Idle
  BY DEF FailOpening, Cleanup, Finish
<1> QED
  BY <1>1, DisconnectLinks DEF Idle, OpeningPCs

\* A transition that ends outside an opening changes nothing it is about.
LEMMA FinishLinks ==
  ASSUME LinkInv, ~opening, NEW id, NEW ok, Finish(id, ok),
         UNCHANGED <<opening, session, link>>
  PROVE  LinkInv'
  BY DEF LinkInv, Phases, LeaseIsOpen, StateMatchesLink, ServerFactsAreCurrent,
     Finish, Idle, OpeningPCs

\* The running transition moves on to another await of a stop.
LEMMA StopMoves ==
  ASSUME TypeOK, LinkInv, NEW pc \in PCs \ OpeningPCs, NEW j \in Jobs,
         j.live = job.live, job' = [j EXCEPT !.pc = pc], ~opening,
         UNCHANGED <<opening, session, link>>
  PROVE  LinkInv'
  BY DEF TypeOK, LinkInv, Phases, LeaseIsOpen, StateMatchesLink,
     ServerFactsAreCurrent, Jobs, OpeningPCs

LEMMA LinkStep == TypeOK /\ LinkInv /\ [Next]_vars => LinkInv'
<1> SUFFICES ASSUME TypeOK, LinkInv, [Next]_vars PROVE LinkInv'
  OBVIOUS
<1> USE DEF hostVars
<1>a. job \in Jobs /\ session \in Sessions
  BY DEF TypeOK
<1>b. ASSUME job.pc \in PCs \ OpeningPCs PROVE ~opening
  BY <1>b DEF LinkInv, Phases
<1>c. ASSUME UNCHANGED <<job, opening, session, link>> PROVE LinkInv'
  BY <1>c DEF LinkInv, Phases, LeaseIsOpen, StateMatchesLink,
     ServerFactsAreCurrent
<1>1. ASSUME NEW kind \in Kinds, Submit(kind) PROVE LinkInv'
  BY <1>1, <1>c, DroppedLinks DEF Submit
<1>2. ASSUME NEW kind \in Kinds, Open(kind) PROVE LinkInv'
  BY <1>1, <1>2 DEF Open
<1>3. CASE Stop \/ Shutdown \/ ShutdownAgain
  BY <1>1, <1>3, <1>c DEF Stop, Shutdown, ShutdownAgain, JoinOrSubmitStop, Kinds
<1>4. CASE Disconnect
  BY <1>4, <1>a, DisconnectLinks, ForgetKeeps DEF Disconnect, LinkInv, Phases
<1>5. CASE Begin
  <2>0. ~opening /\ job.pc = "idle"
    BY <1>5, <1>b DEF Begin, PCs, OpeningPCs
  <2>1. Head(queue) \in [id : Nat, kind : Kinds]
    BY <1>5, HeadAndTail DEF Begin, TypeOK
  <2> DEFINE t == Head(queue)
  <2>2. CASE Finish(t.id, FALSE) /\ UNCHANGED <<session, opening, link, peer, reload>>
    BY <2>0, <2>2, FinishLinks
  <2>3. CASE BeginStop(t) /\ UNCHANGED <<opening, stopInFlight, shutdown>>
    <3>1. PICK pc \in PCs \ OpeningPCs :
            /\ job' = StopCaptured(t, pc)
            /\ DisconnectCurrent \/ UNCHANGED <<session, link, peer, reload>>
      BY <2>3 DEF BeginStop, PCs, OpeningPCs
    <3>2. job'.pc = pc /\ ~job'.live
      BY <2>1, <3>1, CapturedIsJob
    <3>3. CASE DisconnectCurrent
      BY <2>0, <2>3, <3>2, <3>3, DisconnectLinks
    <3>4. CASE UNCHANGED <<session, link, peer, reload>>
      BY <2>0, <2>3, <3>2, <3>4 DEF LinkInv, Phases, LeaseIsOpen,
         StateMatchesLink, ServerFactsAreCurrent, OpeningPCs
    <3> QED
      BY <3>1, <3>3, <3>4
  <2>4. CASE /\ job' = [Idle EXCEPT !.id = t.id, !.kind = "attach",
                                    !.pc = "connecting", !.attempt = MaxAttempts]
             /\ session' = [NoSession EXCEPT !.mode = "attach", !.state = "launching"]
             /\ opening' = TRUE
             /\ link' = "connecting" /\ peer' = None /\ reload' = ReloadGone
             /\ UNCHANGED <<stopInFlight, shutdown>>
    BY <2>4 DEF LinkInv, Phases, LeaseIsOpen, StateMatchesLink,
       ServerFactsAreCurrent, Idle, NoSession, Usable, OpeningPCs
  <2> QED
    BY <1>5, <2>2, <2>3, <2>4 DEF Begin
<1>6. CASE EndStop
  BY <1>6, <1>b, FinishLinks DEF EndStop, PCs, OpeningPCs
<1>7. CASE Detached
  <2>1. ~opening /\ opening' = opening
    BY <1>7, <1>b DEF Detached, PCs, OpeningPCs
  <2>2. job'.pc = "stopped" /\ ~job'.live
    BY <1>7, <1>a, ForgetKeeps DEF Detached, Jobs
  <2> QED
    BY <1>7, <2>1, <2>2, DisconnectLinks DEF Detached, OpeningPCs
<1>8. CASE Paused
  <2>1. ~opening /\ opening' = opening /\ link' = link
    BY <1>8, <1>b DEF Paused, PCs, OpeningPCs
  <2>2. StateMatchesLink' /\ ServerFactsAreCurrent'
    BY <1>8, <1>a, <2>1 DEF Paused, LinkInv, StateMatchesLink,
       ServerFactsAreCurrent, Sessions, Usable
  <2>3. Phases' /\ LeaseIsOpen'
    <3>1. CASE job' = Idle
      BY <2>1, <3>1 DEF Phases, LeaseIsOpen, Idle, OpeningPCs
    <3>2. ASSUME NEW pc \in {"saving", "exiting", "waiting"},
                 job' = [job EXCEPT !.pc = pc]
          PROVE  Phases' /\ LeaseIsOpen'
      BY <1>a, <2>1, <3>2 DEF LinkInv, Phases, LeaseIsOpen, OpeningPCs, Jobs
    <3> QED
      BY <1>8, <3>1, <3>2 DEF Paused, Finish, ExitOrWait
  <2> QED
    BY <2>2, <2>3 DEF LinkInv
<1>9. CASE Saved
  <2>1. ~opening /\ UNCHANGED <<opening, session, link>>
    BY <1>9, <1>b DEF Saved, PCs, OpeningPCs
  <2>2. CASE Finish(job.id, FALSE)
    BY <2>1, <2>2, FinishLinks
  <2>3. ASSUME NEW j \in Jobs, j.live = job.live, ExitOrWait(j) PROVE LinkInv'
    BY <2>1, <2>3, StopMoves DEF ExitOrWait, PCs, OpeningPCs
  <2>4. /\ [job EXCEPT !.saved = TRUE] \in Jobs
        /\ [job EXCEPT !.saved = TRUE].live = job.live
    BY <1>a, JobMoves DEF Jobs
  <2> QED
    BY <1>9, <1>a, <2>2, <2>3, <2>4 DEF Saved
<1>10. CASE ExitAnswered
  BY <1>10, <1>a, <1>b, StopMoves DEF ExitAnswered, PCs, OpeningPCs
<1>11. CASE Waited
  <2>1. ~opening /\ opening' = opening
    BY <1>11, <1>b DEF Waited, PCs, OpeningPCs
  <2>2. CASE /\ job' = [job EXCEPT !.pc = "stopped"]
             /\ UNCHANGED <<session, link, peer, reload, killed>>
    BY <1>a, <2>1, <2>2, StopMoves DEF PCs, OpeningPCs
  <2>3. CASE job' = [Forget(job) EXCEPT !.pc = "stopped"] /\ Cleanup
    <3>1. job'.pc = "stopped" /\ ~job'.live
      BY <1>a, <2>3, ForgetKeeps DEF Jobs
    <3> QED
      BY <2>1, <2>3, <3>1, DisconnectLinks DEF Cleanup, OpeningPCs
  <2> QED
    BY <1>11, <2>2, <2>3 DEF Waited
<1>12. ASSUME NEW p \in Procs, Launched(p),
              \/ session' = Opened(p)
              \/ session' = [session EXCEPT !.process = p] /\ opening,
              job' = [job EXCEPT !.pc = "connecting", !.attempt = 1, !.process = p],
              opening' = TRUE
       PROVE  LinkInv'
  BY <1>12, <1>a DEF Launched, Opened, LinkInv, Phases, LeaseIsOpen,
     StateMatchesLink, ServerFactsAreCurrent, Sessions, Jobs, Usable, OpeningPCs
<1>13. CASE StartRun
  BY <1>12, <1>13, FailOpeningLinks DEF StartRun
<1>14. CASE StartDebug
  BY <1>14, <1>a DEF StartDebug, Opened, LinkInv, Phases, LeaseIsOpen,
     StateMatchesLink, ServerFactsAreCurrent, Sessions, Jobs, Usable, OpeningPCs
<1>15. CASE LaunchDebug
  <2>1. opening /\ opening' = TRUE
    BY <1>15 DEF LaunchDebug, LinkInv, Phases, OpeningPCs, TypeOK
  <2> QED
    BY <1>12, <1>15, <2>1 DEF LaunchDebug
<1>16. CASE LaunchDebugFails \/ OpeningFails \/ RetrySuperseded
  BY <1>16, FailOpeningLinks DEF LaunchDebugFails, OpeningFails, RetrySuperseded
<1>17. CASE Connects
  BY <1>17, <1>a DEF Connects, LinkInv, Phases, LeaseIsOpen, StateMatchesLink,
     ServerFactsAreCurrent, Jobs, OpeningPCs
<1>18. CASE ConnectFails
  <2>1. CASE FailOpening
    BY <2>1, FailOpeningLinks
  <2>2. CASE /\ job' = [job EXCEPT !.pc = "retrying"]
             /\ link' = "none" /\ UNCHANGED <<session, opening>>
    BY <1>18, <1>a, <2>2 DEF ConnectFails, LinkInv, Phases, LeaseIsOpen,
       StateMatchesLink, ServerFactsAreCurrent, Jobs, OpeningPCs
  <2> QED
    BY <1>18, <2>1, <2>2 DEF ConnectFails
<1>19. CASE Retry
  <2>1. link # "open"
    BY <1>19 DEF Retry, LinkInv, LeaseIsOpen
  <2> QED
    BY <1>19, <1>a, <2>1 DEF Retry, LinkInv, Phases, LeaseIsOpen,
       StateMatchesLink, ServerFactsAreCurrent, Jobs, OpeningPCs
<1>20. CASE Negotiated \/ DebuggerAttached
  BY <1>20, <1>a DEF Negotiated, DebuggerAttached, LinkInv, Phases, LeaseIsOpen,
     StateMatchesLink, ServerFactsAreCurrent, Jobs, Sessions, OpeningPCs
<1>21. CASE Publish
  <2>1. link = "open" /\ link' = link /\ opening' = FALSE /\ job' = Idle
    BY <1>21 DEF Publish, Finish, LinkInv, LeaseIsOpen
  <2>2. session'.state \in Usable
    BY <1>21, <1>a DEF Publish, Sessions, Usable
  <2> QED
    BY <2>1, <2>2 DEF LinkInv, Phases, LeaseIsOpen, StateMatchesLink,
       ServerFactsAreCurrent, Idle, OpeningPCs
<1>22. CASE LinkLost
  BY <1>22, DroppedLinks DEF LinkLost
<1>23. ASSUME NEW p \in Procs, ProcessExits(p) PROVE LinkInv'
  <2>1. CASE DisconnectCurrent /\ job' = Forget(job)
    BY <1>23, <1>a, <2>1, DisconnectLinks, ForgetKeeps DEF ProcessExits,
       LinkInv, Phases
  <2> QED
    BY <1>23, <1>c, <2>1 DEF ProcessExits
<1>24. CASE SetExecutionRunning
  BY <1>24, <1>a DEF SetExecutionRunning, LinkInv, Phases, LeaseIsOpen,
     StateMatchesLink, ServerFactsAreCurrent, Sessions, Usable
<1>25. CASE ReloadBegins
  BY <1>25, <1>c DEF ReloadBegins
<1>26. CASE ReloadEnds
  BY <1>26, <1>a, <1>c DEF ReloadEnds, LinkInv, Phases, LeaseIsOpen,
     StateMatchesLink, ServerFactsAreCurrent, Sessions, Jobs
<1>27. CASE UNCHANGED vars
  BY <1>27, <1>c DEF vars
<1> QED
  BY <1>2, <1>3, <1>4, <1>5, <1>6, <1>7, <1>8, <1>9, <1>10, <1>11, <1>13,
     <1>14, <1>15, <1>16, <1>17, <1>18, <1>19, <1>20, <1>21, <1>22, <1>23,
     <1>24, <1>25, <1>26, <1>27 DEF Next

LEMMA LinkInit == Init => LinkInv
  BY DEF Init, LinkInv, Phases, LeaseIsOpen, StateMatchesLink,
     ServerFactsAreCurrent, NoSession, Idle, OpeningPCs, Usable

LEMMA LinkAlways == Spec => [](TypeOK /\ LinkInv)
<1>1. Init => LinkInv
  BY LinkInit
<1>2. (TypeOK /\ LinkInv) /\ [Next]_vars => (TypeOK /\ LinkInv)'
  BY TypeStep, LinkStep
<1>3. Init => TypeOK
  BY InitTypes
<1> QED
  BY <1>1, <1>2, <1>3, PTL DEF Spec

\* What the coordinator publishes agrees with its socket at every await: outside
\* an opening it is usable exactly when connected, during one never, whatever
\* order losses, exits, detaches and transitions come in
\* (session-coordinator.ts:120-125, 487-498, 532-577).
THEOREM PublishedStateAgrees == Spec => []StateMatchesLink
<1>1. TypeOK /\ LinkInv => StateMatchesLink
  BY DEF LinkInv
<1> QED
  BY <1>1, LinkAlways, PTL

\* The two together: at every await the published session is what the connection
\* justifies (session-coordinator.ts:120-125, 349-360, 487-498).
THEOREM PublishedFactsAgree == Spec => []LinkFacts
<1>1. TypeOK /\ LinkInv => LinkFacts
  BY DEF LinkInv, LinkFacts
<1> QED
  BY <1>1, LinkAlways, PTL

\* Server facts and the attached flag never outlive the connection they were
\* learnt on (session-coordinator.ts:120-125, 353-356).
THEOREM FactsAreCurrent == Spec => []ServerFactsAreCurrent
<1>1. TypeOK /\ LinkInv => ServerFactsAreCurrent
  BY DEF LinkInv
<1> QED
  BY <1>1, LinkAlways, PTL

-----------------------------------------------------------------------------
(* The order of transitions.                                               *)

LEMMA Appended ==
  ASSUME NEW T, NEW q \in Seq(T), NEW t \in T
  PROVE  /\ Len(Append(q, t)) = Len(q) + 1
         /\ Append(q, t)[Len(q) + 1] = t
         /\ \A i \in 1..Len(q) : Append(q, t)[i] = q[i]
  OBVIOUS

LEMMA Elements ==
  ASSUME NEW T, NEW q \in Seq(T)
  PROVE  /\ Len(q) \in Nat
         /\ \A i \in 1..Len(q) : q[i] \in T
         /\ q # <<>> => 1 \in 1..Len(q)
  OBVIOUS

LEMMA QueuedIds ==
  ASSUME TypeOK
  PROVE  /\ Len(queue) \in Nat /\ requestId \in Nat /\ job.id \in Nat
         /\ \A i \in 1..Len(queue) : queue[i].id \in Nat
         /\ queue # <<>> => 1 \in 1..Len(queue)
<1>1. queue \in Seq([id : Nat, kind : Kinds]) /\ requestId \in Nat /\ job \in Jobs
  BY DEF TypeOK
<1>2. /\ Len(queue) \in Nat
      /\ \A i \in 1..Len(queue) : queue[i] \in [id : Nat, kind : Kinds]
      /\ queue # <<>> => 1 \in 1..Len(queue)
  BY <1>1, Elements
<1> QED
  BY <1>1, <1>2, JobMoves

LEMMA OrderOfSubmit ==
  ASSUME TypeOK, InOrder, NEW kind \in Kinds, Submit(kind)
  PROVE  InOrder'
<1> DEFINE t == [id |-> requestId + 1, kind |-> kind]
<1>1. requestId \in Nat /\ queue \in Seq([id : Nat, kind : Kinds])
  BY DEF TypeOK
<1>2. requestId' = requestId + 1 /\ queue' = Append(queue, t)
  BY DEF Submit
<1>3. job'.id = job.id /\ job.id \in Nat
  BY ForgetKeeps, JobMoves DEF Submit, TypeOK
<1>4. /\ Len(queue') = Len(queue) + 1
      /\ queue'[Len(queue) + 1] = t
      /\ \A i \in 1..Len(queue) : queue'[i] = queue[i] /\ queue[i].id \in Nat
  <2>1. t \in [id : Nat, kind : Kinds]
    BY <1>1
  <2> HIDE DEF t
  <2> QED
    BY <1>1, <1>2, <2>1, Appended, QueuedIds
<1>5. t.id = requestId + 1
  OBVIOUS
<1> HIDE DEF t
<1>6. \A i \in 1..Len(queue') : i \in 1..Len(queue) \/ i = Len(queue) + 1
  BY <1>1, <1>4
<1> QED
  BY <1>1, <1>2, <1>3, <1>4, <1>5, <1>6 DEF InOrder

LEMMA OrderKept ==
  ASSUME TypeOK, InOrder, job'.id \in {0, job.id}, queue' = queue,
         requestId' \in {requestId, requestId + 1}
  PROVE  InOrder'
  BY QueuedIds DEF InOrder

LEMMA OrderStep == TypeOK /\ InOrder /\ [Next]_vars => InOrder'
<1> SUFFICES ASSUME TypeOK, InOrder, [Next]_vars PROVE InOrder'
  OBVIOUS
<1> USE DEF hostVars
<1>a. job \in Jobs
  BY DEF TypeOK
<1>b. ASSUME NEW id, NEW ok, Finish(id, ok), UNCHANGED <<requestId, queue>>
      PROVE  InOrder'
  BY <1>b, OrderKept DEF Finish, Idle
<1>c. ASSUME FailOpening PROVE InOrder'
  BY <1>b, <1>c DEF FailOpening
<1>d. ASSUME NEW j \in Jobs, ExitOrWait(j), j.id = job.id,
             UNCHANGED <<requestId, queue>>
      PROVE  InOrder'
  BY <1>d, OrderKept DEF ExitOrWait, Jobs
<1>1. ASSUME NEW kind \in Kinds, Open(kind) PROVE InOrder'
  BY <1>1, OrderOfSubmit DEF Open
<1>2. CASE Stop \/ Shutdown \/ ShutdownAgain
  <2>1. ASSUME UNCHANGED <<job, queue, requestId>> PROVE InOrder'
    BY <2>1, OrderKept
  <2> QED
    BY <1>2, <2>1, OrderOfSubmit DEF Stop, Shutdown, ShutdownAgain,
       JoinOrSubmitStop, Kinds
<1>3. CASE Disconnect
  BY <1>3, <1>a, ForgetKeeps, OrderKept DEF Disconnect
<1>4. CASE Begin
  <2> DEFINE t == Head(queue)
  <2>1. t \in [id : Nat, kind : Kinds] /\ queue \in Seq([id : Nat, kind : Kinds])
    BY <1>4, HeadAndTail DEF Begin, TypeOK
  <2>2. job'.id \in {0, t.id}
    <3>1. \A pc \in PCs : StopCaptured(t, pc).id = t.id
      BY <2>1, CapturedIsJob
    <3>2. CASE BeginStop(t)
      BY <3>1, <3>2 DEF BeginStop, PCs
    <3>3. CASE Finish(t.id, FALSE)
      BY <3>3 DEF Finish, Idle
    <3>4. CASE job' = [Idle EXCEPT !.id = t.id, !.kind = "attach",
                                   !.pc = "connecting", !.attempt = MaxAttempts]
      BY <3>4 DEF Idle
    <3> QED
      BY <1>4, <3>2, <3>3, <3>4 DEF Begin
  <2>3. /\ Len(queue') = Len(queue) - 1 /\ Len(queue) >= 1
        /\ \A i \in 1..Len(queue') : queue'[i] = queue[i + 1]
        /\ t = queue[1] /\ requestId' = requestId
    BY <1>4, <2>1 DEF Begin
  <2>4. \A i \in 1..Len(queue) : queue[i].id \in Nat
    BY QueuedIds
  <2> HIDE DEF t
  <2>5. \A i \in 1..Len(queue') : i + 1 \in 1..Len(queue) /\ 1 < i + 1
    BY <2>1, <2>3
  <2> QED
    <3>1. 1 \in 1..Len(queue) /\ requestId' = requestId
      BY <2>3, QueuedIds
    <3>2. /\ job'.id \in Nat /\ job'.id <= requestId
          /\ \A i \in 1..Len(queue) : 1 < i => job'.id < queue[i].id
      BY <2>2, <2>3, <2>4, <3>1, QueuedIds DEF InOrder
    <3>3. \A i \in 1..Len(queue') :
            job'.id < queue'[i].id /\ queue'[i].id <= requestId
      BY <2>3, <2>5, <3>2 DEF InOrder
    <3>4. ASSUME NEW i \in 1..Len(queue'), NEW k \in 1..Len(queue'), i < k
          PROVE  queue'[i].id < queue'[k].id
      <4>1. i + 1 \in 1..Len(queue) /\ k + 1 \in 1..Len(queue) /\ i + 1 < k + 1
        BY <2>5, <3>4, <2>3, QueuedIds
      <4> QED
        BY <2>3, <4>1 DEF InOrder
    <3> QED
      BY <3>1, <3>2, <3>3, <3>4 DEF InOrder
<1>5. CASE EndStop \/ Publish
  BY <1>5, <1>b DEF EndStop, Publish
<1>6. CASE Detached \/ ExitAnswered \/ Waited
  BY <1>6, <1>a, ForgetKeeps, OrderKept DEF Detached, ExitAnswered, Waited, Jobs
<1>7. CASE Paused
  <2>1. [job EXCEPT !.pc = "saving"].id = job.id
    BY <1>a DEF Jobs
  <2> QED
    BY <1>7, <1>a, <1>b, <1>d, <2>1, OrderKept DEF Paused
<1>8. CASE Saved
  <2>1. /\ [job EXCEPT !.saved = TRUE] \in Jobs
        /\ [job EXCEPT !.saved = TRUE].id = job.id
    BY <1>a, JobMoves DEF Jobs
  <2> QED
    BY <1>8, <1>a, <1>b, <1>d, <2>1 DEF Saved
<1>9. ASSUME NEW p \in Procs,
             job' = [job EXCEPT !.pc = "connecting", !.attempt = 1, !.process = p],
             UNCHANGED hostVars
      PROVE  InOrder'
  BY <1>9, <1>a, OrderKept DEF Jobs
<1>10. CASE StartRun \/ LaunchDebug
  BY <1>9, <1>c, <1>10 DEF StartRun, LaunchDebug
<1>11. CASE StartDebug \/ Connects \/ Retry \/ Negotiated \/ DebuggerAttached
  BY <1>11, <1>a, OrderKept DEF StartDebug, Connects, Retry, Negotiated,
     DebuggerAttached, Jobs
<1>12. CASE ConnectFails
  BY <1>12, <1>a, <1>c, OrderKept DEF ConnectFails, Jobs
<1>13. CASE LaunchDebugFails \/ OpeningFails \/ RetrySuperseded
  BY <1>13, <1>c DEF LaunchDebugFails, OpeningFails, RetrySuperseded
<1>14. CASE LinkLost \/ ReloadBegins \/ ReloadEnds \/ SetExecutionRunning
  BY <1>14, <1>a, ForgetKeeps, OrderKept DEF LinkLost, ReloadBegins, ReloadEnds,
     SetExecutionRunning, Jobs
<1>15. ASSUME NEW p \in Procs, ProcessExits(p) PROVE InOrder'
  BY <1>15, <1>a, ForgetKeeps, OrderKept DEF ProcessExits
<1>16. CASE UNCHANGED vars
  BY <1>16, OrderKept DEF vars
<1> QED
  BY <1>1, <1>2, <1>3, <1>4, <1>5, <1>6, <1>7, <1>8, <1>10, <1>11, <1>12,
     <1>13, <1>14, <1>15, <1>16 DEF Next

\* Only a publication makes a session usable, and it is not superseded.
LEMMA OnlyPublishes ==
  TypeOK /\ LinkInv /\ [Next]_vars =>
    (session.state \notin Usable /\ session'.state \in Usable => Publish)
<1> SUFFICES ASSUME TypeOK, LinkInv, [Next]_vars,
                    session.state \notin Usable, session'.state \in Usable
             PROVE  Publish
  OBVIOUS
<1> USE DEF Usable
<1>a. session \in Sessions
  BY DEF TypeOK
<1>b. NoSession.state = "stopped" /\ Dropped.state \in {"stopped", session.state}
  BY <1>a DEF NoSession, Dropped, Sessions
<1>c. session' # session /\ ~DisconnectCurrent /\ session' # Dropped
  BY <1>b DEF DisconnectCurrent
<1>d. ~FailOpening
  BY <1>c DEF FailOpening, Cleanup
<1>e. \A kind \in Kinds : ~Submit(kind)
  BY <1>c DEF Submit
<1>1. ~\E kind \in Kinds : Open(kind)
  BY <1>e DEF Open
<1>2. ~(Stop \/ Shutdown \/ ShutdownAgain)
  BY <1>c, <1>e DEF Stop, Shutdown, ShutdownAgain, JoinOrSubmitStop, Kinds
<1>3. ~Begin
  BY <1>c DEF Begin, BeginStop, NoSession
<1>4. ~(Disconnect \/ EndStop \/ Detached \/ Saved \/ ExitAnswered \/ Waited)
  BY <1>c DEF Disconnect, EndStop, Detached, Saved, ExitAnswered, Waited, Cleanup
<1>5. ~(Paused \/ SetExecutionRunning)
  BY <1>c DEF Paused, SetExecutionRunning
<1>6. ~(StartRun \/ StartDebug \/ LaunchDebug)
  <2>1. \A p \in Procs \cup {None} : Opened(p).state = "launching"
    BY <1>a DEF Opened, Sessions
  <2>2. \A p : [session EXCEPT !.process = p].state = session.state
    BY <1>a DEF Sessions
  <2>3. session.process \in Procs \cup {None}
    BY <1>a DEF Sessions
  <2> QED
    BY <1>d, <2>1, <2>2, <2>3, ZenonT(30) DEF StartRun, StartDebug, LaunchDebug
<1>7. ~(LaunchDebugFails \/ Connects \/ ConnectFails \/ Retry \/ RetrySuperseded
          \/ OpeningFails)
  BY <1>c, <1>d DEF LaunchDebugFails, Connects, ConnectFails, Retry,
     RetrySuperseded, OpeningFails
<1>8. ~(Negotiated \/ DebuggerAttached)
  BY <1>a DEF Negotiated, DebuggerAttached, Sessions
<1>9. ~(LinkLost \/ \E p \in Procs : ProcessExits(p))
  BY <1>c DEF LinkLost, ProcessExits
<1>10. ~(ReloadBegins \/ ReloadEnds)
  BY <1>a, <1>c DEF ReloadBegins, ReloadEnds, Sessions
<1>11. ~UNCHANGED vars
  BY <1>c DEF vars
<1> QED
  BY <1>1, <1>2, <1>3, <1>4, <1>5, <1>6, <1>7, <1>8, <1>9, <1>10, <1>11 DEF Next

\* The latest request wins: whatever was submitted while a session was being
\* opened, it is published only if nothing newer was and nothing waits
\* (session-coordinator.ts:189-202, 265, 312, 334).
THEOREM OnlyTheLatestOpens == Spec => LatestWins
<1>1. Init => TypeOK /\ LinkInv /\ InOrder
  BY InitTypes, LinkInit DEF Init, InOrder, Idle
<1>2. TypeOK /\ LinkInv /\ InOrder /\ [Next]_vars => (TypeOK /\ LinkInv /\ InOrder)'
  BY TypeStep, LinkStep, OrderStep
<1>3. TypeOK /\ LinkInv /\ InOrder /\ [Next]_vars =>
        (session.state \notin Usable /\ session'.state \in Usable =>
            job.id = requestId /\ queue = <<>>)
  <2> SUFFICES ASSUME TypeOK, LinkInv, InOrder, [Next]_vars,
                      session.state \notin Usable, session'.state \in Usable
               PROVE  job.id = requestId /\ queue = <<>>
    OBVIOUS
  <2>1. job.id = requestId
    BY OnlyPublishes DEF Publish, Superseded
  <2> QED
    BY <2>1, QueuedIds DEF InOrder
<1> QED
  BY <1>1, <1>2, <1>3, PTL DEF Spec, LatestWins

-----------------------------------------------------------------------------
(* The shared stop and the save before a kill.                             *)

StopKinds == {"stop", "shutdown"}

\* The stop in flight is the one that waits or runs, and there is no other: ids
\* of waiting transitions differ from each other and from the running one's.
Shared ==
    /\ job.pc # "idle" => job.id > 0 /\ (job.kind \in StopKinds <=> job.id = stopInFlight)
    /\ \A i \in 1..Len(queue) : queue[i].kind \in StopKinds <=> queue[i].id = stopInFlight
    /\ stopInFlight # 0 => \/ job.pc # "idle" /\ job.id = stopInFlight
                           \/ \E i \in 1..Len(queue) : queue[i].id = stopInFlight

\* A stop gets past the save of a live session only when it succeeded, or at shutdown.
SavedOrShutdown == job.pc \in {"exiting", "waiting"} /\ job.linked => job.saved \/ job.kind = "shutdown"

\* The second stop of shutdown() is a shutdown, and no transition is newer.
LastStop ==
    /\ shutdown = "retry" => stopInFlight = 0
    /\ shutdown = "second" =>
          /\ stopInFlight = requestId /\ stopInFlight # 0
          /\ job.pc # "idle" /\ job.id = stopInFlight => job.kind = "shutdown"
          /\ \A i \in 1..Len(queue) : queue[i].id = stopInFlight => queue[i].kind = "shutdown"

LEMMA SharedInit == Init => Shared /\ SavedOrShutdown /\ LastStop
  BY DEF Init, Shared, SavedOrShutdown, LastStop, Idle

\* Of a transition that goes on nothing changes that these facts are about.
LEMMA SharedKept ==
  ASSUME Shared, job'.pc # "idle" => job.pc # "idle",
         job.pc # "idle" => job'.pc # "idle",
         job'.id = job.id, job'.kind = job.kind, UNCHANGED <<queue, stopInFlight>>
  PROVE  Shared'
  BY DEF Shared

LEMMA SharedEnds ==
  ASSUME TypeOK, InOrder, Shared, NEW ok, Finish(job.id, ok), job.pc # "idle", queue' = queue
  PROVE  Shared'
<1>1. job'.pc = "idle"
  BY DEF Finish, Idle
<1>2. /\ job.id \in Nat /\ job.id > 0
      /\ \A i \in 1..Len(queue) : queue[i].id \in Nat /\ queue[i].id # job.id /\ queue[i].id > 0
  BY QueuedIds DEF InOrder, Shared
<1>3. CASE job.id = stopInFlight
  <2>1. stopInFlight' = 0
    BY <1>3 DEF Finish
  <2> QED
    BY <1>1, <1>2, <1>3, <2>1 DEF Shared
<1>4. CASE job.id # stopInFlight
  <2>1. stopInFlight' = stopInFlight
    BY <1>4 DEF Finish
  <2> QED
    BY <1>1, <1>2, <1>4, <2>1 DEF Shared
<1> QED
  BY <1>3, <1>4

LEMMA SharedSubmits ==
  ASSUME TypeOK, InOrder, Shared, NEW kind \in Kinds, Submit(kind),
         \/ kind \notin StopKinds /\ stopInFlight' = stopInFlight
         \/ kind \in StopKinds /\ stopInFlight = 0 /\ stopInFlight' = requestId + 1
  PROVE  Shared'
<1> DEFINE t == [id |-> requestId + 1, kind |-> kind]
<1>1. requestId \in Nat /\ queue \in Seq([id : Nat, kind : Kinds]) /\ stopInFlight \in Nat
  BY DEF TypeOK
<1>2. queue' = Append(queue, t)
  BY DEF Submit
<1>3. job'.id = job.id /\ job'.pc = job.pc /\ job'.kind = job.kind
  BY ForgetKeeps DEF Submit, TypeOK, Forget, Jobs
<1>4. t.id = requestId + 1 /\ t.kind = kind /\ t \in [id : Nat, kind : Kinds]
  BY <1>1
<1> HIDE DEF t
<1>5. /\ Len(queue') = Len(queue) + 1 /\ Len(queue) \in Nat
      /\ queue'[Len(queue) + 1] = t
      /\ \A i \in 1..Len(queue) : queue'[i] = queue[i]
  BY <1>1, <1>2, <1>4, Appended, QueuedIds
<1>6. /\ job.id \in Nat /\ job.id # requestId + 1
      /\ \A i \in 1..Len(queue) : queue[i].id \in Nat /\ queue[i].id # requestId + 1 /\ queue[i].id > 0
  BY <1>1, QueuedIds DEF InOrder
<1>7. stopInFlight # requestId + 1
  BY <1>1, <1>6, QueuedIds DEF Shared
<1>8. \A i \in 1..Len(queue') : i \in 1..Len(queue) \/ i = Len(queue) + 1
  BY <1>5
<1>9. 1..Len(queue) \subseteq 1..Len(queue') /\ Len(queue) + 1 \in 1..Len(queue')
  BY <1>5
<1>10. \A i \in 1..Len(queue') : queue'[i].kind \in StopKinds <=> queue'[i].id = stopInFlight'
  <2>1. ASSUME NEW i \in 1..Len(queue) PROVE queue'[i].kind \in StopKinds <=> queue'[i].id = stopInFlight'
    BY <1>1, <1>5, <1>6, <2>1, SMTT(20) DEF Shared
  <2>2. t.kind \in StopKinds <=> t.id = stopInFlight'
    BY <1>4, <1>7
  <2> QED
    BY <1>5, <1>8, <2>1, <2>2
<1>11. job'.pc # "idle" => job'.id > 0 /\ (job'.kind \in StopKinds <=> job'.id = stopInFlight')
  BY <1>3, <1>6 DEF Shared
<1>12. stopInFlight' # 0 => \/ job'.pc # "idle" /\ job'.id = stopInFlight'
                            \/ \E i \in 1..Len(queue') : queue'[i].id = stopInFlight'
  BY <1>3, <1>4, <1>5, <1>9 DEF Shared
<1> QED
  BY <1>10, <1>11, <1>12 DEF Shared

\* What leaves the tail was submitted after everything that ran, and before
\* everything that waits.
LEMMA Dequeued ==
  ASSUME TypeOK, InOrder, queue # <<>>, queue' = Tail(queue)
  PROVE  /\ Head(queue) = queue[1] /\ 1 \in 1..Len(queue)
         /\ Head(queue).id \in Nat /\ Head(queue).id > 0
         /\ \A i \in 1..Len(queue') :
              /\ i + 1 \in 1..Len(queue) /\ queue'[i] = queue[i + 1]
              /\ queue'[i].id \in Nat /\ queue'[i].id > Head(queue).id
         /\ \A i \in 1..Len(queue) : i = 1 \/ \E k \in 1..Len(queue') : queue'[k] = queue[i]
<1>1. queue \in Seq([id : Nat, kind : Kinds])
  BY DEF TypeOK
<1>2. /\ Len(queue') = Len(queue) - 1 /\ Len(queue) \in Nat \ {0} /\ Head(queue) = queue[1]
      /\ \A i \in 1..Len(queue') : queue'[i] = queue[i + 1]
  BY <1>1
<1>3. 1 \in 1..Len(queue) /\ \A i \in 1..Len(queue') : i + 1 \in 1..Len(queue) /\ 1 < i + 1
  BY <1>2
<1>4. \A i \in 1..Len(queue) : queue[i].id \in Nat /\ job.id \in Nat /\ queue[i].id > job.id
  BY QueuedIds DEF InOrder
<1>5. Head(queue).id \in Nat /\ Head(queue).id > 0
  BY <1>2, <1>3, <1>4
<1>6. \A i \in 1..Len(queue') : queue'[i].id \in Nat /\ queue'[i].id > Head(queue).id
  BY <1>2, <1>3, <1>4 DEF InOrder
<1>7. ASSUME NEW i \in 1..Len(queue), i # 1 PROVE \E k \in 1..Len(queue') : queue'[k] = queue[i]
  <2>1. i - 1 \in 1..Len(queue') /\ (i - 1) + 1 = i
    BY <1>2, <1>7
  <2> QED
    BY <1>2, <2>1
<1> QED
  BY <1>2, <1>3, <1>5, <1>6, <1>7

LEMMA SharedBegins ==
  ASSUME TypeOK, InOrder, Shared, Begin
  PROVE  Shared'
<1> DEFINE t == Head(queue)
<1>1. queue # <<>> /\ queue' = Tail(queue) /\ job.pc = "idle"
  BY DEF Begin
<1>2. /\ t = queue[1] /\ 1 \in 1..Len(queue) /\ t.id \in Nat /\ t.id > 0
      /\ \A i \in 1..Len(queue') :
           /\ i + 1 \in 1..Len(queue) /\ queue'[i] = queue[i + 1]
           /\ queue'[i].id \in Nat /\ queue'[i].id > t.id
      /\ \A i \in 1..Len(queue) : i = 1 \/ \E k \in 1..Len(queue') : queue'[k] = queue[i]
  BY <1>1, Dequeued
<1>3. t \in [id : Nat, kind : Kinds]
  BY <1>1, HeadAndTail DEF TypeOK
<1> HIDE DEF t
<1>4. \A i \in 1..Len(queue') : queue'[i].kind \in StopKinds <=> queue'[i].id = stopInFlight
  BY <1>2, SMTT(20) DEF Shared
<1>5. t.kind \in StopKinds <=> t.id = stopInFlight
  BY <1>2 DEF Shared
<1>6. CASE Finish(t.id, FALSE)
  <2>1. job'.pc = "idle"
    BY <1>6 DEF Finish, Idle
  <2>2. CASE t.id = stopInFlight
    <3>1. stopInFlight' = 0
      BY <1>6, <2>2 DEF Finish
    <3> QED
      BY <1>2, <1>4, <2>1, <2>2, <3>1, SMTT(20) DEF Shared
  <2>3. CASE t.id # stopInFlight
    <3>1. stopInFlight' = stopInFlight
      BY <1>6, <2>3 DEF Finish
    <3>2. ASSUME stopInFlight # 0 PROVE \E k \in 1..Len(queue') : queue'[k].id = stopInFlight
      <4>1. PICK i \in 1..Len(queue) : queue[i].id = stopInFlight
        BY <1>1, <3>2 DEF Shared
      <4> QED
        BY <1>2, <2>3, <4>1
    <3> QED
      BY <1>4, <2>1, <3>1, <3>2 DEF Shared
  <2> QED
    BY <2>2, <2>3
<1>7. ASSUME job'.id = t.id, job'.kind = t.kind, job'.pc # "idle", stopInFlight' = stopInFlight
      PROVE  Shared'
  <2>1. stopInFlight # 0 => t.id = stopInFlight \/ \E k \in 1..Len(queue') : queue'[k].id = stopInFlight
    <3> SUFFICES ASSUME stopInFlight # 0, t.id # stopInFlight
                 PROVE  \E k \in 1..Len(queue') : queue'[k].id = stopInFlight
      OBVIOUS
    <3>1. PICK i \in 1..Len(queue) : queue[i].id = stopInFlight
      BY <1>1 DEF Shared
    <3> QED
      BY <1>2, <3>1
  <2> QED
    BY <1>2, <1>4, <1>5, <1>7, <2>1 DEF Shared
<1>8. CASE BeginStop(t) /\ stopInFlight' = stopInFlight
  <2>1. \A pc \in PCs : /\ StopCaptured(t, pc).id = t.id /\ StopCaptured(t, pc).kind = t.kind
                        /\ StopCaptured(t, pc).pc = pc
    BY DEF StopCaptured, Idle
  <2>2. \E pc \in PCs \ {"idle"} : job' = StopCaptured(t, pc)
    BY <1>8 DEF BeginStop, PCs
  <2> QED
    BY <1>7, <1>8, <2>1, <2>2
<1>9. CASE /\ t.kind = "attach" /\ stopInFlight' = stopInFlight
           /\ job' = [Idle EXCEPT !.id = t.id, !.kind = "attach",
                                  !.pc = "connecting", !.attempt = MaxAttempts]
  <2>1. job'.id = t.id /\ job'.kind = "attach" /\ job'.pc = "connecting"
    BY <1>9 DEF Idle
  <2> QED
    BY <1>7, <1>9, <2>1
<1> QED
  BY <1>6, <1>8, <1>9 DEF Begin, t

LEMMA SharedStep == TypeOK /\ InOrder /\ Shared /\ [Next]_vars => Shared'
<1> SUFFICES ASSUME TypeOK, InOrder, Shared, [Next]_vars PROVE Shared'
  OBVIOUS
<1> USE DEF hostVars
<1>a. job \in Jobs
  BY DEF TypeOK
\* The running transition goes on.
<1>b. ASSUME job'.id = job.id, job'.kind = job.kind, job'.pc # "idle", job.pc # "idle",
             UNCHANGED <<queue, stopInFlight>>
      PROVE  Shared'
  BY <1>b, SharedKept
<1>c. ASSUME NEW ok, Finish(job.id, ok), job.pc # "idle", queue' = queue PROVE Shared'
  BY <1>c, SharedEnds
<1>d. ASSUME FailOpening, job.pc # "idle" PROVE Shared'
  BY <1>c, <1>d DEF FailOpening
<1>e. ASSUME NEW j \in Jobs, ExitOrWait(j), j.id = job.id, j.kind = job.kind, job.pc # "idle",
             UNCHANGED <<queue, stopInFlight>>
      PROVE  Shared'
  BY <1>b, <1>e DEF ExitOrWait, Jobs
<1>f. /\ Forget(job).id = job.id /\ Forget(job).kind = job.kind /\ Forget(job).pc = job.pc
      /\ [Forget(job) EXCEPT !.pc = "stopped"].id = job.id
      /\ [Forget(job) EXCEPT !.pc = "stopped"].kind = job.kind
      /\ [Forget(job) EXCEPT !.pc = "stopped"].pc = "stopped"
  BY <1>a DEF Forget, Jobs
<1>1. ASSUME NEW kind \in Kinds, Open(kind) PROVE Shared'
  BY <1>1, SharedSubmits DEF Open, StopKinds
<1>2. CASE Stop \/ Shutdown \/ ShutdownAgain
  <2>1. ASSUME UNCHANGED <<job, queue, stopInFlight>> PROVE Shared'
    BY <2>1, SharedKept
  <2>2. ASSUME NEW kind \in StopKinds, JoinOrSubmitStop(kind) PROVE Shared'
    BY <2>1, <2>2, SharedSubmits DEF JoinOrSubmitStop, StopKinds, Kinds
  <2> QED
    BY <1>2, <2>2 DEF Stop, Shutdown, ShutdownAgain, StopKinds
<1>3. CASE Disconnect \/ LinkLost
  BY <1>3, <1>f, SharedKept DEF Disconnect, LinkLost
<1>4. CASE Begin
  BY <1>4, SharedBegins
<1>5. CASE EndStop \/ Publish
  BY <1>5, <1>c DEF EndStop, Publish
<1>6. CASE Detached \/ ExitAnswered \/ Waited
  BY <1>6, <1>a, <1>b, <1>f DEF Detached, ExitAnswered, Waited, Jobs
<1>7. CASE Paused
  BY <1>7, <1>a, <1>b, <1>c, <1>e DEF Paused, Jobs
<1>8. CASE Saved
  <2>1. /\ [job EXCEPT !.saved = TRUE] \in Jobs
        /\ [job EXCEPT !.saved = TRUE].id = job.id /\ [job EXCEPT !.saved = TRUE].kind = job.kind
    BY <1>a, JobMoves DEF Jobs
  <2> QED
    BY <1>8, <1>a, <1>c, <1>e, <2>1 DEF Saved
<1>9. ASSUME NEW p \in Procs, job.pc # "idle",
             job' = [job EXCEPT !.pc = "connecting", !.attempt = 1, !.process = p],
             UNCHANGED hostVars
      PROVE  Shared'
  BY <1>9, <1>a, <1>b DEF Jobs
<1>10. CASE StartRun \/ LaunchDebug
  BY <1>9, <1>d, <1>10 DEF StartRun, LaunchDebug
<1>11. CASE StartDebug \/ Connects \/ Retry \/ Negotiated \/ DebuggerAttached
  BY <1>11, <1>a, <1>b DEF StartDebug, Connects, Retry, Negotiated, DebuggerAttached, Jobs
<1>12. CASE ConnectFails
  BY <1>12, <1>a, <1>b, <1>d DEF ConnectFails, Jobs
<1>13. CASE LaunchDebugFails \/ OpeningFails \/ RetrySuperseded
  BY <1>13, <1>d DEF LaunchDebugFails, OpeningFails, RetrySuperseded
<1>14. CASE ReloadBegins \/ ReloadEnds \/ SetExecutionRunning
  BY <1>14, <1>a, SharedKept DEF ReloadBegins, ReloadEnds, SetExecutionRunning, Jobs
<1>15. ASSUME NEW p \in Procs, ProcessExits(p) PROVE Shared'
  BY <1>15, <1>f, SharedKept DEF ProcessExits
<1>16. CASE UNCHANGED vars
  BY <1>16, SharedKept DEF vars
<1> QED
  BY <1>1, <1>2, <1>3, <1>4, <1>5, <1>6, <1>7, <1>8, <1>10, <1>11, <1>12,
     <1>13, <1>14, <1>15, <1>16 DEF Next

\* A queue in which one id is the only stop's holds one stop or none.
LEMMA OneStop ==
  ASSUME TypeOK, InOrder, Shared
  PROVE  StopIsShared
<1> DEFINE stops == {i \in 1..Len(queue) : queue[i].kind \in {"stop", "shutdown"}}
           running == job.pc # "idle" /\ job.kind \in {"stop", "shutdown"}
<1>1. /\ job.id \in Nat /\ stopInFlight \in Nat
      /\ \A i \in 1..Len(queue) : queue[i].id \in Nat /\ job.id < queue[i].id
      /\ \A i, k \in 1..Len(queue) : i < k => queue[i].id < queue[k].id
      /\ Len(queue) \in Nat
  BY QueuedIds DEF InOrder, TypeOK
<1>2. stops = {i \in 1..Len(queue) : queue[i].id = stopInFlight}
  BY DEF Shared, StopKinds
<1>3. running => job.id = stopInFlight /\ job.id > 0
  BY DEF Shared, StopKinds
<1>4. running => stops = {}
  BY <1>1, <1>2, <1>3
<1>5. stopInFlight = 0 => ~running /\ stops = {}
  BY <1>1, <1>2, <1>3
<1>6. ASSUME NEW i \in stops, NEW k \in stops PROVE i = k
  <2>1. /\ i \in 1..Len(queue) /\ k \in 1..Len(queue)
        /\ queue[i].id = stopInFlight /\ queue[k].id = stopInFlight
    BY <1>2
  <2>2. ~(i < k) /\ ~(k < i)
    BY <1>1, <2>1
  <2> QED
    BY <1>1, <2>1, <2>2
<1>7. stopInFlight # 0 /\ ~running => \E i \in stops : stops = {i}
  <2>1. stopInFlight # 0 /\ ~running => \E i \in stops : TRUE
    BY <1>2 DEF Shared, StopKinds
  <2> QED
    BY <1>6, <2>1
<1> HIDE DEF stops, running
<1>8. Cardinality({}) = 0 /\ \A i : Cardinality({i}) = 1
  BY FS_EmptySet, FS_Singleton
<1>9. Cardinality(stops) + (IF running THEN 1 ELSE 0) = (IF stopInFlight = 0 THEN 0 ELSE 1)
  <2>1. CASE running
    <3>1. Cardinality(stops) = 0
      BY <1>4, <1>8, <2>1
    <3>2. stopInFlight # 0
      BY <1>1, <1>3, <2>1
    <3> QED
      BY <2>1, <3>1, <3>2
  <2>2. CASE ~running /\ stopInFlight # 0
    <3>1. Cardinality(stops) = 1
      BY <1>7, <1>8, <2>2
    <3> QED
      BY <2>2, <3>1
  <2>3. CASE ~running /\ stopInFlight = 0
    <3>1. Cardinality(stops) = 0
      BY <1>5, <1>8, <2>3
    <3> QED
      BY <2>3, <3>1
  <2> QED
    BY <2>1, <2>2, <2>3
<1> QED
  BY <1>3, <1>9 DEF StopIsShared, stops, running

LEMMA SharedAlways == Spec => [](TypeOK /\ InOrder /\ Shared)
<1>1. Init => TypeOK /\ InOrder /\ Shared
  BY InitTypes, SharedInit DEF Init, InOrder, Idle
<1>2. (TypeOK /\ InOrder /\ Shared) /\ [Next]_vars => (TypeOK /\ InOrder /\ Shared)'
  BY TypeStep, OrderStep, SharedStep
<1> QED
  BY <1>1, <1>2, PTL DEF Spec

\* However many stops are asked for, and from wherever, one transition serves
\* them all, and its slot is free again exactly when it settled or was superseded
\* (session-coordinator.ts:216-233, 409-433).
THEOREM OneStopForAll == Spec => []StopIsShared
<1>1. TypeOK /\ InOrder /\ Shared => StopIsShared
  BY OneStop
<1> QED
  BY <1>1, SharedAlways, PTL

LEMMA SavedStep == TypeOK /\ SavedOrShutdown /\ [Next]_vars => SavedOrShutdown'
<1> SUFFICES ASSUME TypeOK, SavedOrShutdown, [Next]_vars PROVE SavedOrShutdown'
  OBVIOUS
<1> USE DEF hostVars
<1>a. job \in Jobs
  BY DEF TypeOK
<1>b. ASSUME job'.pc \notin {"exiting", "waiting"} PROVE SavedOrShutdown'
  BY <1>b DEF SavedOrShutdown
<1>c. ASSUME job'.pc = job.pc, job'.linked = job.linked, job'.saved = job.saved, job'.kind = job.kind
      PROVE  SavedOrShutdown'
  BY <1>c DEF SavedOrShutdown
<1>d. ASSUME NEW id, NEW ok, Finish(id, ok) PROVE SavedOrShutdown'
  BY <1>b, <1>d DEF Finish, Idle
<1>e. ASSUME FailOpening PROVE SavedOrShutdown'
  BY <1>d, <1>e DEF FailOpening
<1>f. ASSUME NEW j \in Jobs, ExitOrWait(j), j.saved \/ j.kind = "shutdown" PROVE SavedOrShutdown'
  BY <1>f DEF ExitOrWait, SavedOrShutdown, Jobs
<1>g. /\ Forget(job).pc = job.pc /\ Forget(job).linked = job.linked
      /\ Forget(job).saved = job.saved /\ Forget(job).kind = job.kind
      /\ [Forget(job) EXCEPT !.pc = "stopped"].pc = "stopped"
  BY <1>a DEF Forget, Jobs
<1>h. job.kind # "shutdown" <=> SaveRequired
  BY DEF SaveRequired
<1>1. ASSUME NEW kind \in Kinds, Submit(kind) PROVE SavedOrShutdown'
  BY <1>1, <1>c, <1>g DEF Submit
<1>2. ASSUME NEW kind \in Kinds, Open(kind) PROVE SavedOrShutdown'
  BY <1>1, <1>2 DEF Open
<1>3. CASE Stop \/ Shutdown \/ ShutdownAgain
  BY <1>1, <1>3, <1>c DEF Stop, Shutdown, ShutdownAgain, JoinOrSubmitStop, Kinds
<1>4. CASE Disconnect \/ LinkLost
  BY <1>4, <1>c, <1>g DEF Disconnect, LinkLost
<1>5. CASE Begin
  <2> DEFINE t == Head(queue)
  <2>1. \A pc \in PCs : StopCaptured(t, pc).pc = pc /\ StopCaptured(t, pc).linked = (link = "open")
    BY DEF StopCaptured, Idle
  <2>2. CASE BeginStop(t)
    BY <2>1, <2>2 DEF BeginStop, PCs, SavedOrShutdown
  <2>3. CASE job' = [Idle EXCEPT !.id = t.id, !.kind = "attach",
                                 !.pc = "connecting", !.attempt = MaxAttempts]
    BY <1>b, <2>3 DEF Idle
  <2> QED
    BY <1>5, <1>d, <2>2, <2>3 DEF Begin
<1>6. CASE EndStop \/ Publish
  BY <1>6, <1>d DEF EndStop, Publish
<1>7. CASE Detached \/ Waited
  BY <1>7, <1>a, <1>b, <1>g DEF Detached, Waited, Jobs
<1>8. CASE Paused
  BY <1>8, <1>a, <1>b, <1>d, <1>f, <1>h DEF Paused, Jobs
<1>9. CASE Saved
  <2>1. [job EXCEPT !.saved = TRUE] \in Jobs /\ [job EXCEPT !.saved = TRUE].saved
    BY <1>a, JobMoves DEF Jobs
  <2> QED
    BY <1>9, <1>a, <1>d, <1>f, <1>h, <2>1 DEF Saved
<1>10. CASE ExitAnswered
  BY <1>10, <1>a DEF ExitAnswered, SavedOrShutdown, Jobs
<1>11. CASE StartRun \/ LaunchDebug
  <2>1. \A p \in Procs : [job EXCEPT !.pc = "connecting", !.attempt = 1, !.process = p].pc = "connecting"
    BY <1>a DEF Jobs
  <2> QED
    BY <1>11, <1>b, <1>e, <2>1 DEF StartRun, LaunchDebug
<1>12. CASE StartDebug \/ Connects \/ Retry \/ Negotiated \/ DebuggerAttached
  BY <1>12, <1>a, <1>b DEF StartDebug, Connects, Retry, Negotiated, DebuggerAttached, Jobs
<1>13. CASE ConnectFails
  BY <1>13, <1>a, <1>b, <1>e DEF ConnectFails, Jobs
<1>14. CASE LaunchDebugFails \/ OpeningFails \/ RetrySuperseded
  BY <1>14, <1>e DEF LaunchDebugFails, OpeningFails, RetrySuperseded
<1>15. CASE ReloadBegins \/ ReloadEnds \/ SetExecutionRunning
  BY <1>15, <1>a, <1>c DEF ReloadBegins, ReloadEnds, SetExecutionRunning, Jobs
<1>16. ASSUME NEW p \in Procs, ProcessExits(p) PROVE SavedOrShutdown'
  BY <1>16, <1>c, <1>g DEF ProcessExits
<1>17. CASE UNCHANGED vars
  BY <1>17, <1>c DEF vars
<1> QED
  BY <1>2, <1>3, <1>4, <1>5, <1>6, <1>7, <1>8, <1>9, <1>10, <1>11, <1>12,
     <1>13, <1>14, <1>15, <1>16, <1>17 DEF Next

\* A stop that found a live connection gets as far as the kill only with the disk
\* saved, whatever was lost or reloaded while it was being saved, unless the
\* extension is shutting down (session-coordinator.ts:436-480).
THEOREM NoKillBeforeSave == Spec => SavedBeforeKill
<1>1. Init => TypeOK /\ SavedOrShutdown
  BY InitTypes, SharedInit
<1>2. (TypeOK /\ SavedOrShutdown) /\ [Next]_vars => (TypeOK /\ SavedOrShutdown)'
  BY TypeStep, SavedStep
<1>3. SavedOrShutdown =>
        (job.pc = "waiting" /\ job.linked /\ killed' # killed => job.saved \/ job.kind = "shutdown")
  BY DEF SavedOrShutdown
<1> QED
  BY <1>1, <1>2, <1>3, PTL DEF Spec, SavedBeforeKill

-----------------------------------------------------------------------------
(* The second stop of shutdown().                                          *)

\* The shutdown goes on only when the transition it waits for ends.
LEMMA LastKept ==
  ASSUME LastStop, UNCHANGED <<requestId, queue, stopInFlight, shutdown>>,
         \/ job'.pc = "idle"
         \/ job.pc # "idle" /\ job'.id = job.id /\ job'.kind = job.kind
  PROVE  LastStop'
  BY DEF LastStop

LEMMA LastEnds ==
  ASSUME LastStop, NEW id, NEW ok, Finish(id, ok), requestId' = requestId,
         \A i \in 1..Len(queue') : \E k \in 1..Len(queue) : queue'[i] = queue[k]
  PROVE  LastStop'
<1>1. job'.pc = "idle"
  BY DEF Finish, Idle
<1>2. CASE id = stopInFlight
  BY <1>2 DEF Finish, LastStop
<1>3. CASE id # stopInFlight
  BY <1>1, <1>3 DEF Finish, LastStop
<1> QED
  BY <1>2, <1>3

LEMMA LastStep == TypeOK /\ InOrder /\ LastStop /\ [Next]_vars => LastStop'
<1> SUFFICES ASSUME TypeOK, InOrder, LastStop, [Next]_vars PROVE LastStop'
  OBVIOUS
<1> USE DEF hostVars
<1>a. job \in Jobs
  BY DEF TypeOK
<1>b. ASSUME NEW ok, Finish(job.id, ok), UNCHANGED <<requestId, queue>> PROVE LastStop'
  BY <1>b, LastEnds
<1>c. ASSUME FailOpening PROVE LastStop'
  BY <1>b, <1>c DEF FailOpening
<1>d. ASSUME NEW j \in Jobs, ExitOrWait(j), j.id = job.id, j.kind = job.kind, job.pc # "idle",
             UNCHANGED <<requestId, queue, stopInFlight, shutdown>>
      PROVE  LastStop'
  BY <1>d, LastKept DEF ExitOrWait, Jobs
<1>e. /\ Forget(job).id = job.id /\ Forget(job).kind = job.kind /\ Forget(job).pc = job.pc
      /\ [Forget(job) EXCEPT !.pc = "stopped"].id = job.id
      /\ [Forget(job) EXCEPT !.pc = "stopped"].kind = job.kind
  BY <1>a DEF Forget, Jobs
<1>1. ASSUME shutdown' \notin {"retry", "second"} PROVE LastStop'
  BY <1>1 DEF LastStop
<1>2. CASE (\E kind \in Kinds : Open(kind)) \/ Stop \/ Shutdown \/ Disconnect
  BY <1>1, <1>2 DEF Open, Stop, Shutdown, Disconnect
<1>3. CASE ShutdownAgain
  <2> DEFINE t == [id |-> requestId + 1, kind |-> "shutdown"]
  <2>1. /\ Submit("shutdown") /\ stopInFlight' = requestId + 1 /\ requestId' = requestId + 1
        /\ queue' = Append(queue, t) /\ shutdown' = "second" /\ requestId \in Nat
    BY <1>3 DEF ShutdownAgain, LastStop, JoinOrSubmitStop, Submit, TypeOK
  <2>2. job'.id = job.id /\ job.id \in Nat /\ job.id # requestId + 1
    BY <1>e, <2>1, QueuedIds DEF Submit, InOrder
  <2>3. t \in [id : Nat, kind : Kinds] /\ t.kind = "shutdown" /\ queue \in Seq([id : Nat, kind : Kinds])
    BY <2>1 DEF Kinds, TypeOK
  <2> HIDE DEF t
  <2>4. /\ Len(queue') = Len(queue) + 1 /\ Len(queue) \in Nat
        /\ queue'[Len(queue) + 1] = t
        /\ \A i \in 1..Len(queue) : queue'[i] = queue[i]
    BY <2>1, <2>3, Appended, QueuedIds
  <2>5. \A i \in 1..Len(queue) : queue[i].id # requestId + 1
    BY <2>1, QueuedIds DEF InOrder
  <2>6. \A i \in 1..Len(queue') : i \in 1..Len(queue) \/ i = Len(queue) + 1
    BY <2>4
  <2>7. \A i \in 1..Len(queue') : queue'[i].id = stopInFlight' => queue'[i].kind = "shutdown"
    BY <2>1, <2>3, <2>4, <2>5, <2>6
  <2> QED
    BY <2>1, <2>2, <2>7 DEF LastStop
<1>4. CASE Begin
  <2> DEFINE t == Head(queue)
  <2>1. queue # <<>> /\ queue' = Tail(queue) /\ requestId' = requestId
    BY <1>4 DEF Begin
  <2>2. /\ t = queue[1] /\ 1 \in 1..Len(queue)
        /\ \A i \in 1..Len(queue') : i + 1 \in 1..Len(queue) /\ queue'[i] = queue[i + 1]
    BY <2>1, Dequeued
  <2>3. \A pc \in PCs : StopCaptured(t, pc).id = t.id /\ StopCaptured(t, pc).kind = t.kind
    BY DEF StopCaptured, Idle
  <2> HIDE DEF t
  <2>4. ASSUME job'.id = t.id, job'.kind = t.kind, UNCHANGED <<stopInFlight, shutdown>> PROVE LastStop'
    BY <2>1, <2>2, <2>4 DEF LastStop
  <2>5. CASE BeginStop(t) /\ UNCHANGED <<stopInFlight, shutdown>>
    BY <2>3, <2>4, <2>5 DEF BeginStop, PCs
  <2>6. CASE /\ t.kind = "attach" /\ UNCHANGED <<stopInFlight, shutdown>>
             /\ job' = [Idle EXCEPT !.id = t.id, !.kind = "attach",
                                    !.pc = "connecting", !.attempt = MaxAttempts]
    BY <2>4, <2>6 DEF Idle
  <2>7. CASE Finish(t.id, FALSE)
    BY <2>1, <2>2, <2>7, LastEnds
  <2> QED
    BY <1>4, <2>5, <2>6, <2>7 DEF Begin, t
<1>5. CASE EndStop \/ Publish
  BY <1>5, <1>b DEF EndStop, Publish
<1>6. CASE Detached \/ ExitAnswered \/ Waited
  BY <1>6, <1>a, <1>e, LastKept DEF Detached, ExitAnswered, Waited, Jobs
<1>7. CASE Paused
  BY <1>7, <1>a, <1>b, <1>d, LastKept DEF Paused, Jobs
<1>8. CASE Saved
  <2>1. /\ [job EXCEPT !.saved = TRUE] \in Jobs
        /\ [job EXCEPT !.saved = TRUE].id = job.id /\ [job EXCEPT !.saved = TRUE].kind = job.kind
    BY <1>a, JobMoves DEF Jobs
  <2> QED
    BY <1>8, <1>a, <1>b, <1>d, <2>1 DEF Saved
<1>9. ASSUME NEW p \in Procs, job.pc # "idle", UNCHANGED hostVars,
             job' = [job EXCEPT !.pc = "connecting", !.attempt = 1, !.process = p]
      PROVE  LastStop'
  BY <1>9, <1>a, LastKept DEF Jobs
<1>10. CASE StartRun \/ LaunchDebug
  BY <1>9, <1>c, <1>10 DEF StartRun, LaunchDebug
<1>11. CASE StartDebug \/ Connects \/ Retry \/ Negotiated \/ DebuggerAttached
  BY <1>11, <1>a, LastKept DEF StartDebug, Connects, Retry, Negotiated, DebuggerAttached, Jobs
<1>12. CASE ConnectFails
  BY <1>12, <1>a, <1>c, LastKept DEF ConnectFails, Jobs
<1>13. CASE LaunchDebugFails \/ OpeningFails \/ RetrySuperseded
  BY <1>13, <1>c DEF LaunchDebugFails, OpeningFails, RetrySuperseded
<1>14. CASE LinkLost \/ ReloadBegins \/ ReloadEnds \/ SetExecutionRunning
  BY <1>14, <1>a, <1>e, LastKept DEF LinkLost, ReloadBegins, ReloadEnds, SetExecutionRunning, Jobs
<1>15. ASSUME NEW p \in Procs, ProcessExits(p) PROVE LastStop'
  BY <1>15, <1>e, LastKept DEF ProcessExits
<1>16. CASE UNCHANGED vars
  BY <1>16, LastKept DEF vars
<1> QED
  BY <1>2, <1>3, <1>4, <1>5, <1>6, <1>7, <1>8, <1>10, <1>11, <1>12,
     <1>13, <1>14, <1>15, <1>16 DEF Next
-----------------------------------------------------------------------------
(***************************************************************************)
(* Ownership: which emulator a session uses, and who is responsible for     *)
(* every emulator that was launched.                                        *)
(***************************************************************************)
StopPCs == {"detaching", "pausing", "saving", "exiting", "waiting", "stopped"}

\* Only a launched session has an owner, and only an owner has a process.
Owned ==
    /\ session.owner = IF session.mode = "attach" THEN "none" ELSE session.mode
    /\ session.owner = "none" => session.process = None

\* During a stop the captured session stays, or goes together with its connection;
\* when the stop is over no process is left for the next launch to overwrite.
Stopping ==
    job.pc \in StopPCs =>
        /\ session.process \in {None, job.process} /\ session.owner \in {"none", job.owner}
        /\ (session.process # job.process \/ session.owner # job.owner \/ ~job.same) => link # "open"
        /\ job.pc = "detaching" => session.mode \in {"attach", "none"}
        /\ job.pc = "stopped" => session.process = None
        /\ job.pc \in {"pausing", "saving", "exiting"} /\ job.same => link = "open" /\ peer \in Procs

\* An opening holds the session it launched for as long as its process lives, and
\* that of the leased connection is the one that answers.
Launching ==
    /\ job.pc \in {"stopped", "port", "connecting", "retrying"} => link # "open"
    /\ job.pc = "port" => job.kind = "debug" /\ session.mode = "debug" /\ session.process = None
    /\ job.pc \in OpeningPCs => job.kind \in {"run", "debug", "attach"} /\ session.mode \in {"none", job.kind}
    /\ job.pc \in {"connecting", "retrying"} =>
          IF job.kind = "attach" THEN session.mode = "attach"
          ELSE /\ job.process \in Procs
               /\ proc[job.process] = "alive" => session.mode = job.kind /\ session.process = job.process
    /\ job.live => /\ job.pc \in {"negotiating", "attaching", "loading"} /\ session.mode = job.kind
                   /\ IF job.kind = "attach" THEN peer = External
                      ELSE session.process = peer /\ peer \in Procs

Counted ==
    /\ session.state \in Usable =>
          IF session.mode = "attach" THEN peer = External
          ELSE session.mode \in {"run", "debug"} /\ session.process = peer /\ peer \in Procs
    /\ NoProcessForgotten /\ ExitOnlyOwned /\ ProgramBelongsToSession
    /\ reload = "live" => session.mode # "none"

Held == Owned /\ Stopping /\ Launching /\ Counted

-----------------------------------------------------------------------------
LEMMA DroppedFields ==
  ASSUME session \in Sessions
  PROVE  /\ Dropped.mode = session.mode /\ Dropped.owner = session.owner
         /\ Dropped.process = session.process /\ Dropped.program = session.program
  BY DEF Dropped, Sessions

LEMMA ForgetFields ==
  ASSUME NEW j \in Jobs
  PROVE  /\ Forget(j).pc = j.pc /\ Forget(j).kind = j.kind /\ Forget(j).process = j.process
         /\ Forget(j).owner = j.owner /\ ~Forget(j).live
         /\ Forget(j).same => j.same /\ link = "none"
  BY DEF Forget, Jobs

LEMMA CapturedFields ==
  ASSUME TypeOK, NEW t \in [id : Nat, kind : Kinds], NEW pc \in PCs
  PROVE  /\ StopCaptured(t, pc).pc = pc /\ StopCaptured(t, pc).process = session.process
         /\ StopCaptured(t, pc).owner = session.owner /\ StopCaptured(t, pc).same
         /\ ~StopCaptured(t, pc).live
  BY DEF StopCaptured, Idle

\* Without a connection nothing is published.
LEMMA NotUsable == LinkInv /\ link # "open" => session.state \notin Usable
  BY DEF LinkInv, StateMatchesLink

\* The connection is lost, and the session keeps its process.
LEMMA DropHeld ==
  ASSUME TypeOK, LinkInv', Held, Unlink, session' = Dropped, job' = Forget(job),
         UNCHANGED <<proc, killed, released, exitSent>>
  PROVE  Held'
<1> USE DEF Held
<1>1. /\ session'.mode = session.mode /\ session'.owner = session.owner
      /\ session'.process = session.process /\ session'.program = session.program
  BY DroppedFields DEF TypeOK
<1>2. /\ job'.pc = job.pc /\ job'.kind = job.kind /\ job'.process = job.process
      /\ job'.owner = job.owner /\ ~job'.live /\ (job'.same => job.same /\ link = "none")
  BY ForgetFields DEF TypeOK
<1>3. link' = "none" /\ reload' # "live"
  BY DEF Unlink, ReloadGone
<1>4. session'.state \notin Usable
  BY <1>3, NotUsable DEF LinkInv, StateMatchesLink
<1>5. Owned' /\ Stopping' /\ Launching'
  BY <1>1, <1>2, <1>3 DEF Owned, Stopping, Launching
<1>6. Counted'
  BY <1>1, <1>3, <1>4 DEF Counted, NoProcessForgotten, Alive, ExitOnlyOwned, ProgramBelongsToSession
<1> QED
  BY <1>5, <1>6

\* The session is over, and nobody is forgotten who was not killed or released.
LEMMA GoneHeld ==
  ASSUME TypeOK, LinkInv', Held, DisconnectCurrent, UNCHANGED exitSent,
         ~job'.live,
         job'.pc \in {"idle", "stopped"} \/ job' = Forget(job),
         job'.pc # "port",
         job'.pc \in {"connecting", "retrying"} =>
            job'.kind # "attach" /\ job'.process \in Procs /\ proc'[job'.process] # "alive",
         \A p \in Procs : proc'[p] = "alive" => p \in killed' \cup released'
  PROVE  Held'
<1> USE DEF Held
<1>1. session' = NoSession /\ link' = "none" /\ reload' # "live"
  BY DEF DisconnectCurrent, Unlink, ReloadGone
<1>2. /\ NoSession.mode = "none" /\ NoSession.owner = "none" /\ NoSession.process = None
      /\ NoSession.state \notin Usable /\ ~NoSession.program
  BY DEF NoSession, Usable
<1>3. job' = Forget(job) =>
        /\ job'.pc = job.pc /\ job'.kind = job.kind /\ (job'.same => job.same /\ link = "none")
  BY ForgetFields DEF TypeOK
<1>4. Owned'
  BY <1>1, <1>2 DEF Owned
<1>5. Stopping'
  BY <1>1, <1>2, <1>3 DEF Stopping, StopPCs
<1>6. Launching'
  BY <1>1, <1>2, <1>3 DEF Launching, OpeningPCs
<1>7. Counted'
  BY <1>1, <1>2 DEF Counted, NoProcessForgotten, Alive, ExitOnlyOwned, ProgramBelongsToSession
<1> QED
  BY <1>4, <1>5, <1>6, <1>7

\* Cleaning up kills the one process that could be forgotten.
LEMMA CleanupForgetsNobody ==
  ASSUME TypeOK, Counted, Cleanup, UNCHANGED <<proc, released>>
  PROVE  \A p \in Procs : proc'[p] = "alive" => p \in killed' \cup released'
  BY DEF Counted, NoProcessForgotten, Alive, Cleanup, TypeOK, Sessions

\* A session without process has none to forget.
LEMMA NoneForgetsNobody ==
  ASSUME Counted, session.process = None, UNCHANGED <<proc, killed, released>>
  PROVE  \A p \in Procs : proc'[p] = "alive" => p \in killed' \cup released'
  BY SessionAssumption DEF Counted, NoProcessForgotten, Alive

LEMMA FailHeld == TypeOK /\ LinkInv' /\ Held /\ job.pc \in OpeningPCs \cup {"stopped"} /\ FailOpening
                  /\ (job.pc = "stopped" => job.kind = "run") => Held'
<1> SUFFICES ASSUME TypeOK, LinkInv', Held, job.pc \in OpeningPCs \cup {"stopped"}, FailOpening,
                    job.pc = "stopped" => job.kind = "run"
             PROVE  Held'
  OBVIOUS
<1> USE DEF Held
<1>1. DisconnectCurrent /\ UNCHANGED <<proc, released, exitSent>> /\ job' = Idle
  BY DEF FailOpening, Cleanup, Finish
<1>2. job'.pc = "idle" /\ ~job'.live
  BY <1>1 DEF Idle
<1>3. \A p \in Procs : proc'[p] = "alive" => p \in killed' \cup released'
  <2>1. CASE job.kind = "attach"
    <3>1. session.mode \in {"none", "attach"}
      BY <2>1 DEF Launching
    <3>2. session.process = None
      BY <3>1 DEF Owned
    <3> QED
      BY <1>1, <2>1, <3>2, NoneForgetsNobody DEF FailOpening
  <2>2. CASE job.kind # "attach"
    BY <1>1, <2>2, CleanupForgetsNobody DEF FailOpening
  <2> QED
    BY <2>1, <2>2
<1> QED
  BY <1>1, <1>2, <1>3, GoneHeld

\* A step of the running transition that leaves session and environment alone.
LEMMA QuietHeld ==
  ASSUME Held, UNCHANGED <<link, peer, proc, killed, released>>, exitSent' \subseteq exitSent \cup Procs,
         session'.mode = session.mode, session'.owner = session.owner,
         session'.process = session.process,
         session'.state \in Usable => session.state \in Usable,
         session'.program => session.mode # "none",
         reload' = "live" => session.mode # "none",
         Stopping', Launching'
  PROVE  Held'
  BY DEF Held, Owned, Counted, NoProcessForgotten, Alive, ExitOnlyOwned, ProgramBelongsToSession

\* EXIT goes to a process of this extension.
LEMMA ExitHeld ==
  ASSUME TypeOK, Held, NEW j \in Jobs, ExitOrWait(j), job.pc \in {"pausing", "saving"},
         j.process = job.process, j.owner = job.owner, j.same = job.same, j.live = job.live,
         UNCHANGED <<link, peer, reload, proc, killed, released>>,
         session'.mode = session.mode, session'.owner = session.owner,
         session'.process = session.process, session'.program = session.program,
         session'.state \in Usable => session.state \in Usable
  PROVE  Held'
<1> USE DEF Held
<1>1. PICK pc \in {"exiting", "waiting"} :
        /\ job' = [j EXCEPT !.pc = pc]
        /\ exitSent' = exitSent \cup (IF pc = "exiting" THEN {peer} ELSE {})
        /\ pc = "exiting" => job.same
  BY DEF ExitOrWait
<1>2. /\ job'.pc = pc /\ job'.process = job.process /\ job'.owner = job.owner /\ job'.same = job.same
      /\ job'.live = job.live
  BY <1>1 DEF Jobs
<1>3. pc = "exiting" => peer \in Procs
  BY <1>1 DEF Stopping, StopPCs
<1>4. Stopping'
  BY <1>1, <1>2, <1>3 DEF Stopping, StopPCs
<1>5. Launching'
  BY <1>2 DEF Launching, OpeningPCs
<1> QED
  BY <1>1, <1>3, <1>4, <1>5, QuietHeld DEF Counted, ProgramBelongsToSession

\* A launch takes the place of no process.
LEMMA LaunchHeld ==
  ASSUME TypeOK, LinkInv', Held, NEW p \in Procs, Launched(p), NEW kind \in {"run", "debug"},
         session.process = None, link # "open", ~job.live, job.kind = kind,
         job' = [job EXCEPT !.pc = "connecting", !.attempt = 1, !.process = p],
         session'.mode = kind, session'.owner = kind, session'.process = p,
         UNCHANGED <<killed, released, exitSent>>
  PROVE  Held'
<1> USE DEF Held
<1>1. job'.pc = "connecting" /\ job'.kind = kind /\ job'.process = p /\ ~job'.live
  BY DEF TypeOK, Jobs
<1>2. link' = "connecting" /\ proc' = [proc EXCEPT ![p] = "alive"]
  BY DEF Launched
<1>3. Owned' /\ Stopping' /\ Launching'
  BY <1>1, <1>2 DEF Owned, Stopping, StopPCs, Launching, OpeningPCs
<1>4. session'.state \notin Usable
  BY <1>2 DEF LinkInv, StateMatchesLink
<1>5. NoProcessForgotten'
  BY <1>2, SessionAssumption DEF TypeOK, Counted, NoProcessForgotten, Alive
<1> QED
  BY <1>3, <1>4, <1>5 DEF Counted, ExitOnlyOwned, ProgramBelongsToSession

LEMMA HeldStep ==
  ASSUME ~ForeignRun, PromptExit, TypeOK, LinkInv, LinkInv', Held, [Next]_vars
  PROVE  Held'
<1> USE DEF hostVars
<1>a. job \in Jobs /\ session \in Sessions
  BY DEF TypeOK
<1>b. ASSUME job.pc \in PCs \ OpeningPCs PROVE ~opening
  BY <1>b DEF LinkInv, Phases
<1>c. Owned /\ Stopping /\ Launching /\ Counted
  BY DEF Held
<1>d. ASSUME job.pc \in PCs \ OpeningPCs PROVE ~job.live
  BY <1>c, <1>d DEF Launching, OpeningPCs
<1>e. ASSUME job.pc \in OpeningPCs PROVE opening
  BY <1>e DEF LinkInv, Phases
<1>f. session.program => session.mode # "none"
  BY <1>c DEF Counted, ProgramBelongsToSession
<1>g. reload = "live" => session.mode # "none"
  BY <1>c DEF Counted
\* A transition that ends leaves nothing to be held.
<1>h. ASSUME job'.pc = "idle", ~job'.live, UNCHANGED <<session, reload, link, peer, proc, killed, released, exitSent>>
      PROVE  Held'
  <2>1. Stopping' /\ Launching'
    BY <1>h DEF Stopping, StopPCs, Launching, OpeningPCs
  <2> QED
    BY <1>f, <1>g, <1>h, <2>1, QuietHeld
<1>i. ASSUME UNCHANGED <<session, job, reload, link, peer, proc, killed, released, exitSent>> PROVE Held'
  BY <1>i DEF Held, Owned, Stopping, Launching, Counted, NoProcessForgotten, Alive, ExitOnlyOwned,
     ProgramBelongsToSession
<1>j. Idle.pc = "idle" /\ ~Idle.live
  BY DEF Idle
<1>1. ASSUME NEW kind \in Kinds, Submit(kind) PROVE Held'
  BY <1>1, <1>i, DropHeld DEF Submit
<1>2. ASSUME NEW kind \in Kinds, Open(kind) PROVE Held'
  BY <1>1, <1>2 DEF Open
<1>3. CASE Stop \/ Shutdown \/ ShutdownAgain
  BY <1>1, <1>3, <1>i DEF Stop, Shutdown, ShutdownAgain, JoinOrSubmitStop, Kinds
<1>4. CASE Disconnect
  <2>1. /\ DisconnectCurrent /\ job' = Forget(job) /\ UNCHANGED <<proc, killed, exitSent>>
        /\ released' = released \cup ({session.process} \cap Procs) /\ link = "open"
    BY <1>4 DEF Disconnect
  <2>2. job'.pc = job.pc /\ ~job'.live /\ job.pc \notin {"stopped", "port", "connecting", "retrying"}
    BY <1>a, <1>c, <2>1, ForgetFields DEF Launching
  <2>3. \A p \in Procs : proc'[p] = "alive" => p \in killed' \cup released'
    BY <1>c, <2>1 DEF Counted, NoProcessForgotten, Alive
  <2> QED
    BY <2>1, <2>2, <2>3, GoneHeld
<1>5. CASE Begin
  <2> DEFINE t == Head(queue)
  <2>0. ~opening /\ job.pc = "idle" /\ UNCHANGED <<proc, killed, released, exitSent>>
    BY <1>5, <1>b DEF Begin, PCs, OpeningPCs
  <2>1. t \in [id : Nat, kind : Kinds]
    BY <1>5, HeadAndTail DEF Begin, TypeOK
  <2> HIDE DEF t
  <2>2. CASE Finish(t.id, FALSE) /\ UNCHANGED <<session, opening, link, peer, reload>>
    BY <1>h, <1>j, <2>0, <2>2 DEF Finish
  <2>3. ASSUME NEW pc \in StopPCs, job' = StopCaptured(t, pc), UNCHANGED <<session, link, peer, reload>>,
               pc = "detaching" => session.mode = "attach",
               pc = "stopped" => session.process = None /\ link # "open",
               pc \in {"pausing", "saving", "exiting"} => link = "open" /\ session.mode # "attach"
        PROVE  Held'
    <3>1. /\ job'.pc = pc /\ job'.process = session.process /\ job'.owner = session.owner /\ job'.same /\ ~job'.live
      BY <2>1, <2>3, CapturedFields DEF StopPCs, PCs
    <3>2. link = "open" /\ session.mode # "attach" => peer \in Procs
      BY <1>c, <2>0 DEF LinkInv, StateMatchesLink, Counted
    <3>3. Stopping' /\ Launching'
      BY <2>3, <3>1, <3>2 DEF Stopping, StopPCs, Launching, OpeningPCs
    <3> QED
      BY <1>f, <1>g, <2>0, <2>3, <3>3, QuietHeld
  <2>4. CASE BeginStop(t)
    <3>1. session.state = "stopped" => link # "open"
      BY <2>0 DEF LinkInv, StateMatchesLink, Usable
    <3>2. CASE job' = StopCaptured(t, "stopped") /\ DisconnectCurrent /\ session.mode = "attach"
      <4>1. session.process = None
        BY <1>c, <3>2 DEF Owned
      <4>2. job'.pc = "stopped" /\ ~job'.live
        BY <2>1, <3>2, CapturedIsJob DEF PCs
      <4> QED
        BY <1>c, <2>0, <3>2, <4>1, <4>2, NoneForgetsNobody, GoneHeld
    <3> QED
      BY <2>3, <2>4, <3>1, <3>2 DEF BeginStop, StopPCs
  <2>5. CASE /\ job' = [Idle EXCEPT !.id = t.id, !.kind = "attach",
                                    !.pc = "connecting", !.attempt = MaxAttempts]
             /\ session' = [NoSession EXCEPT !.mode = "attach", !.state = "launching"]
             /\ session.owner = "none"
             /\ link' = "connecting" /\ reload' = ReloadGone
    <3>1. job'.pc = "connecting" /\ job'.kind = "attach" /\ ~job'.live
      BY <2>5 DEF Idle
    <3>2. /\ session'.mode = "attach" /\ session'.owner = "none" /\ session'.process = None
          /\ session'.state \notin Usable /\ ~session'.program
      BY <2>5 DEF NoSession, Usable
    <3>3. Owned' /\ Stopping' /\ Launching'
      BY <2>5, <3>1, <3>2 DEF Owned, Stopping, StopPCs, Launching, OpeningPCs
    <3>4. session.process = None
      BY <1>c, <2>5 DEF Owned
    <3>5. Counted'
      BY <1>c, <2>0, <3>2, <3>4 DEF Counted, NoProcessForgotten, Alive, ExitOnlyOwned, ProgramBelongsToSession
    <3> QED
      BY <3>3, <3>5 DEF Held
  <2> QED
    BY <1>5, <2>2, <2>4, <2>5 DEF Begin, t
<1>6. CASE EndStop
  BY <1>6, <1>h, <1>j DEF EndStop, Finish
<1>7. CASE Detached
  <2>1. /\ job.pc = "detaching" /\ DisconnectCurrent /\ job' = [Forget(job) EXCEPT !.pc = "stopped"]
        /\ UNCHANGED <<proc, killed, released, exitSent>>
    BY <1>7 DEF Detached
  <2>2. job'.pc = "stopped" /\ ~job'.live
    BY <1>a, <2>1, ForgetKeeps DEF Jobs
  <2>3. session.process = None
    BY <1>c, <2>1 DEF Stopping, StopPCs, Owned
  <2> QED
    BY <1>c, <2>1, <2>2, <2>3, NoneForgetsNobody, GoneHeld
<1>8. CASE Paused
  <2>1. /\ job.pc = "pausing" /\ UNCHANGED <<reload, link, peer, proc, killed, released>>
        /\ session' = IF session.state \in Usable
                      THEN [session EXCEPT !.state = "connected"] ELSE session
    BY <1>8 DEF Paused
  <2>2. /\ session'.mode = session.mode /\ session'.owner = session.owner
        /\ session'.process = session.process /\ session'.program = session.program
        /\ session'.state \in Usable => session.state \in Usable
    BY <1>a, <2>1 DEF Sessions
  <2>3. CASE job' = [job EXCEPT !.pc = "saving"] /\ UNCHANGED exitSent
    <3>1. /\ job'.pc = "saving" /\ job'.process = job.process /\ job'.owner = job.owner
          /\ job'.same = job.same /\ job'.live = job.live
      BY <1>a, <2>3 DEF Jobs
    <3>2. Stopping' /\ Launching'
      BY <1>c, <2>1, <2>2, <3>1 DEF Stopping, StopPCs, Launching, OpeningPCs
    <3> QED
      BY <1>f, <1>g, <2>1, <2>2, <2>3, <3>2, QuietHeld
  <2>4. CASE job' = Idle /\ UNCHANGED exitSent
    <3>1. Stopping' /\ Launching'
      BY <1>j, <2>4 DEF Stopping, StopPCs, Launching, OpeningPCs
    <3> QED
      BY <1>f, <1>g, <2>1, <2>2, <2>4, <3>1, QuietHeld
  <2>5. CASE ExitOrWait(job)
    BY <1>a, <2>1, <2>2, <2>5, ExitHeld
  <2> QED
    BY <1>8, <2>3, <2>4, <2>5 DEF Paused, Finish
<1>9. CASE Saved
  <2>1. job.pc = "saving" /\ UNCHANGED <<session, reload, link, peer, proc, killed, released>>
    BY <1>9 DEF Saved
  <2>2. [job EXCEPT !.saved = TRUE] \in Jobs
    BY <1>a, JobMoves
  <2>3. LET j == [job EXCEPT !.saved = TRUE] IN
        j.process = job.process /\ j.owner = job.owner /\ j.same = job.same /\ j.live = job.live
    BY <1>a DEF Jobs
  <2>4. CASE ExitOrWait([job EXCEPT !.saved = TRUE])
    BY <2>1, <2>2, <2>3, <2>4, ExitHeld
  <2>5. CASE ExitOrWait(job)
    BY <1>a, <2>1, <2>5, ExitHeld
  <2>6. CASE job' = Idle /\ UNCHANGED exitSent
    BY <1>h, <1>j, <2>1, <2>6
  <2> QED
    BY <1>9, <2>4, <2>5, <2>6 DEF Saved, Finish
<1>10. CASE ExitAnswered
  <2>1. /\ job.pc = "exiting" /\ job' = [job EXCEPT !.pc = "waiting"]
        /\ UNCHANGED <<session, reload, link, peer, proc, killed, released, exitSent>>
    BY <1>10 DEF ExitAnswered
  <2>2. /\ job'.pc = "waiting" /\ job'.process = job.process /\ job'.owner = job.owner
        /\ job'.same = job.same /\ job'.live = job.live
    BY <1>a, <2>1 DEF Jobs
  <2>3. Stopping' /\ Launching'
    BY <1>c, <2>1, <2>2 DEF Stopping, StopPCs, Launching, OpeningPCs
  <2> QED
    BY <1>f, <1>g, <2>1, <2>3, QuietHeld
<1>11. CASE Waited
  <2>1. /\ job.pc = "waiting" /\ ~(~job.same /\ job.process # None /\ session.process = job.process)
        /\ UNCHANGED <<proc, released, exitSent>>
    BY <1>11 DEF Waited
  <2>2. CASE /\ session.process # job.process \/ session.owner # job.owner \/ ~job.same
             /\ job' = [job EXCEPT !.pc = "stopped"]
             /\ UNCHANGED <<session, link, peer, reload, killed>>
    <3>1. session.process = None /\ link # "open"
      BY <1>c, <2>1, <2>2 DEF Stopping, StopPCs, Owned
    <3>2. /\ job'.pc = "stopped" /\ job'.process = job.process /\ job'.owner = job.owner
          /\ job'.same = job.same /\ job'.live = job.live
      BY <1>a, <2>2 DEF Jobs
    <3>3. Stopping' /\ Launching'
      BY <1>c, <2>1, <2>2, <3>1, <3>2 DEF Stopping, StopPCs, Launching, OpeningPCs
    <3> QED
      BY <1>f, <1>g, <2>1, <2>2, <3>3, QuietHeld
  <2>3. CASE job' = [Forget(job) EXCEPT !.pc = "stopped"] /\ Cleanup
    <3>1. job'.pc = "stopped" /\ ~job'.live
      BY <1>a, <2>3, ForgetKeeps DEF Jobs
    <3> QED
      BY <1>c, <2>1, <2>3, <3>1, CleanupForgetsNobody, GoneHeld DEF Cleanup
  <2> QED
    BY <1>11, <2>2, <2>3 DEF Waited
<1>12. CASE StartRun
  <2>1. /\ job.pc = "stopped" /\ job.kind = "run"
        /\ session.process = None /\ link # "open" /\ ~job.live
    BY <1>12, <1>c, <1>d DEF StartRun, Stopping, StopPCs, Launching, PCs, OpeningPCs
  <2>2. CASE FailOpening
    BY <2>1, <2>2, FailHeld
  <2>3. ASSUME NEW p \in Procs, Launched(p), session' = Opened(p),
               job' = [job EXCEPT !.pc = "connecting", !.attempt = 1, !.process = p],
               UNCHANGED <<killed, released, exitSent>>
        PROVE  Held'
    <3>1. session'.mode = "run" /\ session'.owner = "run" /\ session'.process = p
      BY <1>a, <2>1, <2>3 DEF Opened, Sessions
    <3> QED
      BY <2>1, <2>3, <3>1, LaunchHeld
  <2> QED
    BY <1>12, <2>2, <2>3 DEF StartRun
<1>13. CASE StartDebug
  <2>1. /\ job.pc = "stopped" /\ job.kind = "debug" /\ session.process = None /\ link # "open" /\ ~job.live
        /\ UNCHANGED <<link, peer, proc, killed, released, exitSent>>
        /\ session' = Opened(session.process) /\ job' = [job EXCEPT !.pc = "port"] /\ reload' = ReloadGone
    BY <1>13, <1>c, <1>d DEF StartDebug, Stopping, StopPCs, Launching, PCs, OpeningPCs
  <2>2. /\ session'.mode = "debug" /\ session'.owner = "debug" /\ session'.process = None
        /\ session'.state \notin Usable /\ reload' # "live"
    BY <1>a, <2>1 DEF Opened, Sessions, Usable, ReloadGone
  <2>3. job'.pc = "port" /\ job'.kind = "debug" /\ ~job'.live
    BY <1>a, <2>1 DEF Jobs
  <2>4. Owned' /\ Stopping' /\ Launching'
    BY <2>1, <2>2, <2>3 DEF Owned, Stopping, StopPCs, Launching, OpeningPCs
  <2>5. Counted'
    BY <1>c, <2>1, <2>2 DEF Counted, NoProcessForgotten, Alive, ExitOnlyOwned, ProgramBelongsToSession
  <2> QED
    BY <2>4, <2>5 DEF Held
<1>14. CASE LaunchDebug
  <2>1. /\ job.pc = "port" /\ job.kind = "debug" /\ session.mode = "debug"
        /\ session.process = None /\ link # "open" /\ ~job.live
    BY <1>14, <1>c DEF LaunchDebug, Launching
  <2>2. session.owner = "debug"
    BY <1>c, <2>1 DEF Owned
  <2>3. PICK p \in Procs :
          /\ Launched(p) /\ session' = [session EXCEPT !.process = p]
          /\ job' = [job EXCEPT !.pc = "connecting", !.attempt = 1, !.process = p]
    BY <1>14, Zenon DEF LaunchDebug
  <2>4. UNCHANGED <<killed, released, exitSent>>
    BY <1>14 DEF LaunchDebug
  <2>5. session'.mode = "debug" /\ session'.owner = "debug" /\ session'.process = p
    BY <1>a, <2>1, <2>2, <2>3 DEF Sessions
  <2> QED
    BY <2>1, <2>3, <2>4, <2>5, LaunchHeld
<1>15. CASE LaunchDebugFails \/ OpeningFails \/ RetrySuperseded
  BY <1>15, FailHeld DEF LaunchDebugFails, OpeningFails, RetrySuperseded, OpeningPCs
<1>16. CASE Connects
  <2>1. /\ job.pc = "connecting" /\ link = "connecting" /\ peer' \in Answering
        /\ job' = [job EXCEPT !.pc = "negotiating", !.live = TRUE]
        /\ UNCHANGED <<session, opening, reload, proc, killed, released, exitSent>>
    BY <1>16 DEF Connects
  <2>2. /\ job'.pc = "negotiating" /\ job'.kind = job.kind /\ job'.process = job.process
    BY <1>a, <2>1 DEF Jobs
  <2>3. session.state \notin Usable
    BY <2>1, NotUsable
  <2>4. job.kind \in {"run", "debug", "attach"}
    BY <1>c, <2>1 DEF Launching, OpeningPCs
  <2>5. CASE job.kind = "attach"
    <3>1. peer' = External /\ session.mode = "attach"
      BY <1>c, <2>1, <2>5 DEF Answering, Launching
    <3> QED
      BY <1>c, <2>1, <2>2, <2>3, <2>5, <3>1
      DEF Held, Owned, Stopping, StopPCs, Launching, OpeningPCs, Counted, NoProcessForgotten, Alive,
          ExitOnlyOwned, ProgramBelongsToSession
  <2>6. CASE job.kind # "attach"
    <3>1. peer' = job.process /\ proc[job.process] = "alive"
      BY <2>1, <2>6 DEF Answering
    <3>2. peer' \in Procs /\ session.mode = job.kind /\ session.process = peer'
      BY <1>c, <2>1, <2>6, <3>1 DEF Launching
    <3> QED
      BY <1>c, <2>1, <2>2, <2>3, <2>4, <2>6, <3>2
      DEF Held, Owned, Stopping, StopPCs, Launching, OpeningPCs, Counted, NoProcessForgotten, Alive,
          ExitOnlyOwned, ProgramBelongsToSession
  <2> QED
    BY <2>5, <2>6
\* The opening goes on at another await, with what it holds.
<1>k. ASSUME NEW pc \in OpeningPCs, job.pc \in OpeningPCs, job'.pc = pc, job'.kind = job.kind,
             job'.process = job.process, job'.live = job.live,
             job.live => pc \in {"negotiating", "attaching", "loading"},
             pc \in {"connecting", "retrying"} => job.pc \in {"connecting", "retrying"} /\ link' # "open",
             pc # "port",
             session'.state = session.state, session'.mode = session.mode, session'.owner = session.owner,
             session'.process = session.process, session'.program = session.program,
             UNCHANGED <<reload, peer, proc, killed, released, exitSent>>
      PROVE  Held'
  <2>1. Owned'
    BY <1>c, <1>k DEF Owned
  <2>2. Stopping'
    BY <1>k DEF Stopping, StopPCs, OpeningPCs
  <2>3. Launching'
    BY <1>c, <1>k DEF Launching, OpeningPCs
  <2>4. Counted'
    BY <1>c, <1>k DEF Counted, NoProcessForgotten, Alive, ExitOnlyOwned, ProgramBelongsToSession
  <2> QED
    BY <2>1, <2>2, <2>3, <2>4 DEF Held
<1>17. CASE ConnectFails
  <2>1. CASE FailOpening
    BY <1>17, <2>1, FailHeld DEF ConnectFails, OpeningPCs
  <2>2. CASE /\ job' = [job EXCEPT !.pc = "retrying"] /\ link' = "none"
             /\ UNCHANGED <<session, reload, peer, proc, killed, released, exitSent>>
    <3>1. /\ job.pc = "connecting" /\ job'.pc = "retrying" /\ job'.kind = job.kind
          /\ job'.process = job.process /\ job'.live = job.live /\ ~job.live
      BY <1>17, <1>a, <1>c, <2>2 DEF ConnectFails, Jobs, Launching
    <3> QED
      BY <1>k, <2>2, <3>1 DEF OpeningPCs
  <2> QED
    BY <1>17, <2>1, <2>2 DEF ConnectFails, hostVars
<1>18. CASE Retry
  <2>1. /\ job.pc = "retrying" /\ link' = "connecting"
        /\ job' = [job EXCEPT !.pc = "connecting", !.attempt = @ + 1]
        /\ UNCHANGED <<session, reload, peer, proc, killed, released, exitSent>>
    BY <1>18 DEF Retry
  <2>2. /\ job'.pc = "connecting" /\ job'.kind = job.kind
        /\ job'.process = job.process /\ job'.live = job.live /\ ~job.live
    BY <1>a, <1>c, <2>1 DEF Jobs, Launching
  <2> QED
    BY <1>k, <2>1, <2>2 DEF OpeningPCs
<1>19. CASE Negotiated \/ DebuggerAttached
  <2>1. /\ job.pc \in {"negotiating", "attaching"}
        /\ \E pc \in {"attaching", "loading"} : job' = [job EXCEPT !.pc = pc]
        /\ UNCHANGED <<reload, peer, proc, killed, released, exitSent>>
        /\ \/ session' = [session EXCEPT !.info = TRUE]
           \/ session' = [session EXCEPT !.attached = TRUE]
    BY <1>19 DEF Negotiated, DebuggerAttached
  <2>2. /\ job'.pc \in {"attaching", "loading"} /\ job'.kind = job.kind
        /\ job'.process = job.process /\ job'.live = job.live
    BY <1>a, <2>1 DEF Jobs
  <2>3. /\ session'.state = session.state /\ session'.mode = session.mode /\ session'.owner = session.owner
        /\ session'.process = session.process /\ session'.program = session.program
    BY <1>a, <2>1 DEF Sessions
  <2> QED
    BY <1>k, <2>1, <2>2, <2>3 DEF OpeningPCs
<1>20. CASE Publish
  <2>1. /\ job.pc = "loading" /\ job.live /\ job' = Idle
        /\ UNCHANGED <<reload, peer, proc, killed, released, exitSent>>
    BY <1>20 DEF Publish, Finish
  <2>2. /\ session'.mode = session.mode /\ session'.owner = session.owner
        /\ session'.process = session.process
    BY <1>20, <1>a DEF Publish, Sessions
  <2>3. /\ session.mode = job.kind /\ job.kind \in {"run", "debug", "attach"}
        /\ IF job.kind = "attach" THEN peer = External ELSE session.process = peer /\ peer \in Procs
    BY <1>c, <2>1 DEF Launching, OpeningPCs
  <2>4. Owned'
    BY <1>c, <2>2 DEF Owned
  <2>5. Stopping' /\ Launching'
    BY <1>j, <2>1 DEF Stopping, StopPCs, Launching, OpeningPCs
  <2>6. Counted'
    BY <1>c, <2>1, <2>2, <2>3 DEF Counted, NoProcessForgotten, Alive, ExitOnlyOwned, ProgramBelongsToSession
  <2> QED
    BY <2>4, <2>5, <2>6 DEF Held
<1>21. CASE LinkLost
  BY <1>21, DropHeld DEF LinkLost
<1>22. ASSUME NEW p \in Procs, ProcessExits(p) PROVE Held'
  <2>1. /\ proc' = [proc EXCEPT ![p] = "dead"] /\ UNCHANGED <<killed, released, exitSent>>
        /\ proc \in [Procs -> {"none", "alive", "dead"}]
    BY <1>22 DEF ProcessExits, TypeOK
  <2>2. \A q \in Procs : proc'[q] = "alive" => proc[q] = "alive" /\ q # p
    BY <2>1
  <2>3. CASE session.process = p
    <3>1. DisconnectCurrent /\ job' = Forget(job)
      BY <1>22, <2>3 DEF ProcessExits
    <3>2. /\ job'.pc = job.pc /\ job'.kind = job.kind /\ job'.process = job.process /\ ~job'.live
      BY <1>a, <3>1, ForgetFields
    <3>3. session.process # None
      BY <2>3, SessionAssumption
    <3>4. job.pc # "port"
      BY <1>c, <3>3 DEF Launching
    <3>5. job.pc \in {"connecting", "retrying"} =>
            job.kind # "attach" /\ job.process \in Procs /\ proc'[job.process] # "alive"
      BY <1>c, <2>2, <2>3, <3>3 DEF Launching, Owned
    <3>6. \A q \in Procs : proc'[q] = "alive" => q \in killed' \cup released'
      BY <1>c, <2>1, <2>2, <2>3 DEF Counted, NoProcessForgotten, Alive
    <3> QED
      BY <2>1, <3>1, <3>2, <3>4, <3>5, <3>6, GoneHeld
  <2>4. CASE session.process # p
    <3>1. UNCHANGED <<session, reload, link, peer, job>>
      BY <1>22, <2>4 DEF ProcessExits
    <3>2. Owned' /\ Stopping'
      BY <1>c, <3>1 DEF Owned, Stopping
    <3>3. Launching'
      BY <1>c, <2>2, <3>1 DEF Launching
    <3>4. Counted'
      BY <1>c, <2>1, <2>2, <3>1 DEF Counted, NoProcessForgotten, Alive, ExitOnlyOwned, ProgramBelongsToSession
    <3> QED
      BY <3>2, <3>3, <3>4 DEF Held
  <2> QED
    BY <2>3, <2>4
\* Of the session only what is published changes.
<1>l. ASSUME UNCHANGED <<link, peer, proc, killed, released, exitSent>>,
             session'.mode = session.mode, session'.owner = session.owner,
             session'.process = session.process,
             session'.state \in Usable => session.state \in Usable,
             session'.program => session.mode # "none",
             reload' = "live" => session.mode # "none",
             job'.pc = job.pc, job'.kind = job.kind, job'.process = job.process,
             job'.owner = job.owner, job'.same = job.same, job'.live = job.live
      PROVE  Held'
  <2>1. Stopping' /\ Launching'
    BY <1>c, <1>l DEF Stopping, Launching
  <2> QED
    BY <1>l, <2>1, QuietHeld
<1>23. CASE SetExecutionRunning
  <2>1. /\ session.state \in Usable /\ UNCHANGED <<job, reload, link, peer, proc, killed, released, exitSent>>
        /\ \E s \in Usable : session' = [session EXCEPT !.state = s]
    BY <1>23 DEF SetExecutionRunning
  <2>2. /\ session'.mode = session.mode /\ session'.owner = session.owner
        /\ session'.process = session.process /\ session'.program = session.program
    BY <1>a, <2>1 DEF Sessions
  <2> QED
    BY <1>f, <1>g, <1>l, <2>1, <2>2
<1>24. CASE ReloadBegins
  <2>1. /\ session.state \in Usable
        /\ UNCHANGED <<session, job, link, peer, proc, killed, released, exitSent>>
    BY <1>24 DEF ReloadBegins
  <2>2. session.mode # "none"
    BY <1>c, <2>1 DEF Counted
  <2> QED
    BY <1>l, <2>1, <2>2
<1>25. CASE ReloadEnds
  <2>1. /\ reload' = "idle" /\ UNCHANGED <<link, peer, proc, killed, released, exitSent>>
        /\ \/ UNCHANGED <<session, job>>
           \/ /\ reload = "live" /\ session' = [session EXCEPT !.program = TRUE]
              /\ job' = [job EXCEPT !.sameProgram = FALSE]
    BY <1>25 DEF ReloadEnds
  <2>2. /\ session'.mode = session.mode /\ session'.owner = session.owner
        /\ session'.process = session.process /\ session'.state = session.state
        /\ session'.program => session.program \/ reload = "live"
    BY <1>a, <2>1 DEF Sessions
  <2>3. /\ job'.pc = job.pc /\ job'.kind = job.kind /\ job'.process = job.process
        /\ job'.owner = job.owner /\ job'.same = job.same /\ job'.live = job.live
    BY <1>a, <2>1 DEF Jobs
  <2> QED
    BY <1>f, <1>g, <1>l, <2>1, <2>2, <2>3
<1>26. CASE UNCHANGED vars
  BY <1>26, <1>i DEF vars
<1> QED
  BY <1>2, <1>3, <1>4, <1>5, <1>6, <1>7, <1>8, <1>9, <1>10, <1>11, <1>12,
     <1>13, <1>14, <1>15, <1>16, <1>17, <1>18, <1>19, <1>20, <1>21, <1>22,
     <1>23, <1>24, <1>25, <1>26 DEF Next

LEMMA HeldInit == Init => Held
  BY SessionAssumption DEF Init, Held, Owned, Stopping, StopPCs, Launching, OpeningPCs, Counted,
     NoProcessForgotten, Alive, ExitOnlyOwned, ProgramBelongsToSession, NoSession, Idle, Usable

LEMMA HeldAccounts == TypeOK /\ Held => ProcessesAccounted
  BY DEF Held, Owned, Counted, ProcessesAccounted, OwnedOrBorrowed, OwnerlessMeansNoProcess, TypeOK,
     Sessions, Usable

\* Every emulator is accounted for, in whatever order losses, exits, detaches,
\* reloads and transitions come: the one that answers is owned or borrowed, no
\* launched one is dropped without a kill or a release, no foreign one is told to
\* exit (session-coordinator.ts:235-262, 349-381, 482-498, 532-577).  Nobody else
\* holds the fixed port, and an emulator that lost its socket exits within the
\* two seconds a stop waits for it; without the second the run session_hung_shutdown
\* finds a process left behind.
THEOREM EmulatorsAreAccounted ==
  ASSUME ~ForeignRun, PromptExit
  PROVE  Spec => []ProcessesAccounted
<1>1. Init => TypeOK /\ LinkInv /\ Held
  BY InitTypes, LinkInit, HeldInit
<1>2. (TypeOK /\ LinkInv /\ Held) /\ [Next]_vars => (TypeOK /\ LinkInv /\ Held)'
  BY TypeStep, LinkStep, HeldStep
<1>3. TypeOK /\ LinkInv /\ Held => ProcessesAccounted
  BY HeldAccounts
<1> QED
  BY <1>1, <1>2, <1>3, PTL DEF Spec

-----------------------------------------------------------------------------
(* What a shutdown leaves behind.                                          *)

\* A shutdown is over only when a stop got to its end, or the second one failed.
LEMMA DoneByFinish ==
  ASSUME NEW id, NEW ok \in BOOLEAN, Finish(id, ok), shutdown # "done", shutdown' = "done"
  PROVE  id = stopInFlight /\ (shutdown = "second" \/ (shutdown = "first" /\ ok))
<1>1. id = stopInFlight
  BY DEF Finish
<1>2. shutdown' = CASE shutdown = "first" -> IF ok THEN "done" ELSE "retry"
                    [] shutdown = "second" -> "done"
                    [] OTHER -> shutdown
  BY <1>1 DEF Finish
<1>3. CASE shutdown = "first"
  BY <1>1, <1>2, <1>3
<1>4. CASE shutdown # "first"
  BY <1>1, <1>2, <1>4
<1> QED
  BY <1>3, <1>4

\* And the second one cannot fail before its end: it tolerates every failure, and
\* nothing supersedes it.
LEMMA OnlyEndStopIsDone ==
  ASSUME TypeOK, InOrder, Shared, LastStop, Held, [Next]_vars, shutdown # "done", shutdown' = "done"
  PROVE  job.pc = "stopped" /\ job.kind \in StopKinds
<1> SUFFICES ASSUME ~(job.pc = "stopped" /\ job.kind \in StopKinds)
             PROVE  FALSE
  OBVIOUS
<1> USE DEF hostVars
<1>a. shutdown' # shutdown
  OBVIOUS
<1>b. job.pc \in OpeningPCs => job.kind \notin StopKinds
  BY DEF Held, Launching, StopKinds
<1>c. ASSUME job.pc # "idle", job.kind \notin StopKinds PROVE job.id # stopInFlight
  BY <1>c DEF Shared
<1>d. ASSUME FailOpening, job.pc \in OpeningPCs \/ (job.pc = "stopped" /\ job.kind = "run") PROVE FALSE
  <2>1. Finish(job.id, FALSE)
    BY <1>d DEF FailOpening
  <2>2. job.pc # "idle" /\ job.kind \notin StopKinds
    BY <1>b, <1>d DEF OpeningPCs, StopKinds
  <2> QED
    BY <1>c, <2>1, <2>2, DoneByFinish
<1>e. ASSUME Finish(job.id, FALSE), SaveRequired, job.pc # "idle" PROVE FALSE
  <2>1. job.id = stopInFlight /\ shutdown = "second"
    BY <1>e, DoneByFinish
  <2> QED
    BY <1>e, <2>1 DEF LastStop, SaveRequired
<1>1. ~((\E kind \in Kinds : Open(kind)) \/ Stop \/ Shutdown \/ ShutdownAgain \/ Disconnect)
  BY <1>a DEF Open, Stop, Shutdown, ShutdownAgain, Disconnect
<1>2. ASSUME Begin PROVE FALSE
  <2> DEFINE t == Head(queue)
  <2>1. queue # <<>> /\ queue' = Tail(queue)
    BY <1>2 DEF Begin
  <2>2. t = queue[1] /\ 1 \in 1..Len(queue)
    BY <2>1, Dequeued
  <2>3. Finish(t.id, FALSE) /\ (t.id # requestId \/ t.kind = "attach")
    BY <1>2, <1>a DEF Begin
  <2> HIDE DEF t
  <2>4. t.id = stopInFlight /\ shutdown = "second"
    BY <2>3, DoneByFinish
  <2> QED
    BY <2>2, <2>3, <2>4 DEF LastStop
<1>3. ASSUME EndStop PROVE FALSE
  <2>1. job.pc = "stopped" /\ Finish(job.id, job.kind \in {"stop", "shutdown"})
    BY <1>3 DEF EndStop
  <2>2. (job.kind \in {"stop", "shutdown"}) \in BOOLEAN
    OBVIOUS
  <2>3. job.id = stopInFlight
    BY <2>1, <2>2, DoneByFinish
  <2> QED
    BY <1>c, <2>1, <2>3
<1>4. ~(Detached \/ ExitAnswered \/ Waited)
  BY <1>a DEF Detached, ExitAnswered, Waited
<1>5. ~(Paused \/ Saved)
  BY <1>a, <1>e DEF Paused, Saved
<1>6. ~StartRun
  BY <1>a, <1>d DEF StartRun
<1>7. ~(LaunchDebugFails \/ OpeningFails \/ RetrySuperseded \/ ConnectFails)
  BY <1>a, <1>d DEF LaunchDebugFails, OpeningFails, RetrySuperseded, ConnectFails, OpeningPCs
<1>8. ~(StartDebug \/ LaunchDebug \/ Connects \/ Retry \/ Negotiated \/ DebuggerAttached)
  BY <1>a DEF StartDebug, LaunchDebug, Connects, Retry, Negotiated, DebuggerAttached
<1>9. ASSUME Publish PROVE FALSE
  <2>1. job.pc = "loading" /\ Finish(job.id, TRUE)
    BY <1>9 DEF Publish
  <2>2. job.id = stopInFlight
    BY <2>1, DoneByFinish
  <2> QED
    BY <1>b, <1>c, <2>1, <2>2 DEF OpeningPCs
<1>10. ~(LinkLost \/ (\E p \in Procs : ProcessExits(p)) \/ SetExecutionRunning \/ ReloadBegins \/ ReloadEnds)
  BY <1>a DEF LinkLost, ProcessExits, SetExecutionRunning, ReloadBegins, ReloadEnds
<1>11. ~UNCHANGED vars
  BY <1>a DEF vars
<1> QED
  BY <1>1, <1>2, <1>3, <1>4, <1>5, <1>6, <1>7, <1>8, <1>9, <1>10, <1>11 DEF Next

\* When shutdown() settles, every emulator the extension ever launched has exited,
\* was killed, or was left running on purpose, even when it joined a stop that
\* failed or was superseded (session-coordinator.ts:409-426); under the two
\* hypotheses of EmulatorsAreAccounted, and for the same reason.
THEOREM NothingLeftBehind ==
  ASSUME ~ForeignRun, PromptExit
  PROVE  Spec => ShutdownReleases
<1> DEFINE Inv == TypeOK /\ LinkInv /\ Held /\ InOrder /\ Shared /\ LastStop
<1>1. Init => Inv
  BY InitTypes, LinkInit, HeldInit, SharedInit DEF Init, InOrder, Idle
<1>2. Inv /\ [Next]_vars => Inv'
  BY TypeStep, LinkStep, HeldStep, OrderStep, SharedStep, LastStep
<1>3. Inv /\ [Next]_vars =>
        (shutdown # "done" /\ shutdown' = "done" => Alive \subseteq killed \cup released)
  <2> SUFFICES ASSUME Inv, [Next]_vars, shutdown # "done", shutdown' = "done"
               PROVE  Alive \subseteq killed \cup released
    OBVIOUS
  <2>0. job.pc = "stopped"
    BY OnlyEndStopIsDone
  <2>1. session.process = None
    BY <2>0 DEF Held, Stopping, StopPCs
  <2> QED
    BY <2>1, SessionAssumption DEF Held, Counted, NoProcessForgotten, Alive
<1> QED
  BY <1>1, <1>2, <1>3, PTL DEF Spec, ShutdownReleases
=============================================================================
