--------------------------- MODULE IpcClientProofs ---------------------------
(***************************************************************************)
(* Safety of IpcClient for every set of requests, every assignment of      *)
(* priorities, sizes and scopes, and every queue limit.                    *)
(***************************************************************************)
EXTENDS IpcClient, FiniteSetTheorems, TLAPS

\* The inductive invariant: the type invariant, where each pending request is
\* held, which timer it has, and on which connection it was submitted.
ClientInv == TypeOK /\ NoRequestLost /\ TimersMatch /\ PendingOnThisConnection

LEMMA ClientInit == Init => ClientInv
  BY ClientAssumption DEF Init, ClientInv, TypeOK, NoRequestLost, TimersMatch,
     PendingOnThisConnection, Held, Outcomes, NoneOr

\* failConnection settles everything held and disarms its timers.
LEMMA FailConnectionKeeps == ClientInv /\ FailConnection => ClientInv'
<1> SUFFICES ASSUME ClientInv, FailConnection PROVE ClientInv'
  OBVIOUS
<1> USE ClientAssumption DEF ClientInv, TypeOK, NoRequestLost, TimersMatch,
        PendingOnThisConnection, FailConnection, Held, NoneOr, Outcomes,
        EmptyBuffer, NextEpoch
<1>1. TypeOK'
  BY DEF DialEnding, TimersOff, Rejecting
<1>2. NoRequestLost'
  BY DEF Rejecting
<1>3. TimersMatch'
  BY DEF TimersOff
<1>4. PendingOnThisConnection'
  BY DEF Rejecting
<1> QED
  BY <1>1, <1>2, <1>3, <1>4

\* A completed frame settles the active request and the stale requests ahead
\* of the next one, and leaves every other request where it was.
LEMMA CompleteActiveKeeps ==
  ASSUME ClientInv, active # None, link = "open", NEW c \in Chunks,
         CompleteActive(c), stream' = Tail(stream), stream # <<>>
  PROVE  ClientInv'
<1> USE ClientAssumption DEF ClientInv, TypeOK, NoRequestLost, TimersMatch,
        PendingOnThisConnection, Held, NoneOr, Outcomes
<1> PICK n \in NoneOr(Requests) :
      /\ Dispatchable(n)
      /\ active' = n
      /\ queue' = queue \ (Skipped(n) \cup (IF n = None THEN {} ELSE {n}))
      /\ timer' = [r \in Requests |->
                      IF r = n THEN "wire"
                      ELSE IF r = active \/ r \in Skipped(n) THEN "off"
                      ELSE timer[r]]
      /\ outcome' = [Rejecting(Skipped(n)) EXCEPT
                        ![active] = IF active \in stale THEN "rejected"
                                                        ELSE "resolved"]
      /\ answer' = [answer EXCEPT ![active] = c.req]
      /\ buffer' = None
      /\ inbox' = IF n = None THEN inbox ELSE Append(inbox, n)
      /\ UNCHANGED <<link, epoch, seq, nextSequence, dial, stale, epochOf>>
  BY Zenon DEF CompleteActive, EmptyBuffer
<1>1. active \in Requests /\ active \notin queue
  OBVIOUS
<1>2. /\ Skipped(n) \subseteq queue
      /\ n # None => n \in queue /\ n \notin Skipped(n)
      /\ n = None => Skipped(n) = queue
  BY DEF Skipped, Dispatchable
<1>3. TypeOK'
  BY <1>1, <1>2, SMTT(20) DEF Rejecting, Chunks
<1>4. NoRequestLost'
  BY <1>1, <1>2 DEF Rejecting
<1>5. TimersMatch'
  BY <1>1, <1>2
<1>6. PendingOnThisConnection'
  BY <1>1, <1>2 DEF Rejecting
<1> QED
  BY <1>3, <1>4, <1>5, <1>6

LEMMA RepliesAreChunks ==
  ASSUME NEW r \in Requests, NEW reply \in Replies(r)
  PROVE  reply \in Seq(Chunks)
<1>1. \A k \in ChunkKinds : Chunk(r, k) \in Chunks
  BY DEF Chunk, Chunks, NoneOr
<1>2. \A a, b \in Chunks : <<a>> \in Seq(Chunks) /\ <<a, b>> \in Seq(Chunks)
  OBVIOUS
<1>3. {"whole", "head", "tail", "extra", "bad"} = ChunkKinds
  BY DEF ChunkKinds
<1> QED
  BY <1>1, <1>2, <1>3 DEF Replies

LEMMA ClientStep == ClientInv /\ [Next]_vars => ClientInv'
<1> SUFFICES ASSUME ClientInv, [Next]_vars PROVE ClientInv'
  OBVIOUS
<1> USE ClientAssumption DEF ClientInv, TypeOK, NoRequestLost, TimersMatch,
        PendingOnThisConnection, Held, NoneOr, Outcomes
<1>1. ASSUME NEW d \in Dialers, Connect(d) PROVE ClientInv'
  BY <1>1 DEF Connect
<1>2. CASE Connected
  BY <1>2 DEF Connected, DialEnding, NextEpoch, EmptyBuffer
<1>3. CASE ConnectFails
  BY <1>3 DEF ConnectFails, DialEnding
<1>4. CASE FailConnection
  BY <1>4, FailConnectionKeeps
<1>5. ASSUME NEW r \in Requests, Submit(r) PROVE ClientInv'
  <2>1. CASE Refuse(r)
    BY <2>1 DEF Refuse, Rejecting
  <2>2. CASE SendNow(r)
    BY <2>2 DEF SendNow, RefusedAtSubmission, WireFree, ArmWire
  <2>3. CASE Enqueue(r)
    <3>1. /\ queue' = queue \cup {r} /\ active' = active /\ r \notin Held
          /\ outcome' = [outcome EXCEPT ![r] = "pending"]
          /\ timer' = [timer EXCEPT ![r] = "queue"]
          /\ link = "open" /\ active # None
      BY <2>3 DEF Enqueue, RefusedAtSubmission, WireFree
    <3>2. TypeOK'
      BY <2>3, <3>1, SMTT(20) DEF Enqueue
    <3>3. NoRequestLost' /\ TimersMatch'
      BY <2>3, <3>1, SMTT(20) DEF Enqueue
    <3>4. PendingOnThisConnection'
      BY <2>3, <3>1 DEF Enqueue
    <3> QED
      BY <3>2, <3>3, <3>4
  <2>4. CASE Overflow(r)
    BY <2>4, SMTT(20) DEF Overflow, Rejecting, WireFree
  <2> QED
    BY <1>5, <2>1, <2>2, <2>3, <2>4 DEF Submit
<1>6. ASSUME NEW r \in Requests, QueueTimeout(r) PROVE ClientInv'
  BY <1>6 DEF QueueTimeout, TimersOff, Rejecting
<1>7. ASSUME NEW r \in Requests, WireTimeout(r) PROVE ClientInv'
  BY <1>7, FailConnectionKeeps DEF WireTimeout
<1>8. CASE Receive
  <2> DEFINE c == Head(stream)
  <2>1. c \in Chunks /\ Tail(stream) \in Seq(Chunks)
    BY <1>8 DEF Receive
  <2>2. CASE active # None /\ Completes(c) /\ CompleteActive(c) /\ stream' = Tail(stream)
    BY <1>8, <2>1, <2>2, CompleteActiveKeeps DEF Receive
  <2>3. CASE FailConnection
    BY <2>3, FailConnectionKeeps
  <2>4. CASE /\ buffer' = c.req
             /\ stream' = Tail(stream)
             /\ UNCHANGED <<link, epoch, active, queue, seq, nextSequence,
                            queuedBytes, timer, outcome, dial, stale, inbox,
                            epochOf, answer>>
    BY <2>1, <2>4 DEF Chunks
  <2> QED
    BY <1>8, <2>2, <2>3, <2>4 DEF Receive
<1>9. ASSUME NEW r \in Requests, ScopeEnds(r) PROVE ClientInv'
  BY <1>9 DEF ScopeEnds, clientVars
<1>10. CASE ServerReplies
  <2>1. Head(inbox) \in Requests /\ Tail(inbox) \in Seq(Requests)
    BY <1>10 DEF ServerReplies
  <2>3. PICK reply \in Replies(Head(inbox)) : stream' = stream \o reply
    BY <1>10 DEF ServerReplies
  <2>4. stream' \in Seq(Chunks)
    BY <2>1, <2>3, RepliesAreChunks
  <2> QED
    BY <1>10, <2>1, <2>4 DEF ServerReplies, clientVars
<1>11. CASE UnaskedBytes
  BY <1>11, FailConnectionKeeps DEF UnaskedBytes
<1>12. CASE UNCHANGED vars
  BY <1>12 DEF vars
<1> QED
  BY <1>1, <1>2, <1>3, <1>4, <1>5, <1>6, <1>7, <1>8, <1>9, <1>10, <1>11, <1>12
  DEF Next, Disconnect, SocketFails

\* Type correctness for every instance.
THEOREM TypeCorrect == Spec => []TypeOK
<1>1. ClientInv => TypeOK
  BY DEF ClientInv
<1> QED
  BY <1>1, ClientInit, ClientStep, PTL DEF Spec

\* No promise is lost or settled twice over, whatever the interleaving of
\* replies, timers, scopes and failures.
THEOREM NothingLost == Spec => []NoRequestLost
<1>1. ClientInv => NoRequestLost
  BY DEF ClientInv
<1> QED
  BY <1>1, ClientInit, ClientStep, PTL DEF Spec

-----------------------------------------------------------------------------
(* The action properties follow from the invariant.                        *)

\* The queue is served by priority, then by submission.
THEOREM QueueIsServedInOrder == Spec => UrgentFirst
<1>1. ClientInv /\ [Next]_vars =>
        [\A r \in queue : active' = r =>
            \A q \in queue \ {r} : q \in stale \/ Ahead(r, q)]_vars
  <2> SUFFICES ASSUME ClientInv, Next, NEW r \in queue, active' = r,
                      NEW q \in queue \ {r}, q \notin stale
               PROVE  Ahead(r, q)
    BY DEF vars
  <2>1. active # None /\ active # r /\ r # None
    BY ClientAssumption DEF ClientInv, NoRequestLost, TypeOK, NoneOr
  <2>2. Receive
    BY <2>1 DEF Next, Submit, Connect, Connected, ConnectFails, Disconnect,
       SocketFails, FailConnection, Refuse, SendNow, Enqueue, Overflow,
       QueueTimeout, WireTimeout, ScopeEnds, ServerReplies, UnaskedBytes,
       WireFree, clientVars
  <2>3. CompleteActive(Head(stream))
    BY <2>1, <2>2 DEF Receive, FailConnection
  <2>4. Dispatchable(r)
    BY <2>3 DEF CompleteActive
  <2> QED
    BY <2>1, <2>4 DEF Dispatchable
<1> QED
  BY <1>1, ClientInit, ClientStep, PTL DEF Spec, UrgentFirst

\* A request whose scope ended is neither written nor resolved afterwards.
THEOREM StaleWorkIsSilent == Spec => StaleScopeIsSilent
<1>1. ClientInv /\ [Next]_vars =>
        [\A r \in stale : /\ active' = r => active = r
                          /\ outcome'[r] = "resolved" => outcome[r] = "resolved"]_vars
  <2> SUFFICES ASSUME ClientInv, Next, NEW r \in stale
               PROVE  /\ active' = r => active = r
                      /\ outcome'[r] = "resolved" => outcome[r] = "resolved"
    BY DEF vars
  <2>1. r \in Requests /\ r # None
    BY ClientAssumption DEF ClientInv, TypeOK
  <2> USE DEF ClientInv, TypeOK, Outcomes
  <2>2. CASE Receive
    <3>1. CASE CompleteActive(Head(stream))
      <4>1. PICK n \in NoneOr(Requests) :
              /\ Dispatchable(n)
              /\ active' = n
              /\ outcome' = [Rejecting(Skipped(n)) EXCEPT
                                ![active] = IF active \in stale THEN "rejected"
                                                                ELSE "resolved"]
        BY <3>1, Zenon DEF CompleteActive
      <4>2. active' # r
        BY <2>1, <4>1 DEF Dispatchable
      <4>3. outcome'[r] = "resolved" => outcome[r] = "resolved"
        BY <2>1, <4>1 DEF Rejecting
      <4> QED
        BY <4>2, <4>3
    <3> QED
      BY <2>1, <2>2, <3>1 DEF Receive, FailConnection, Rejecting
  <2>3. CASE \E q \in Requests : Submit(q)
    BY <2>1, <2>3 DEF Submit, Refuse, SendNow, Enqueue, Overflow, Rejecting,
       RefusedAtSubmission, WireFree
  <2> QED
    BY <2>1, <2>2, <2>3 DEF Next, Connect, Connected, ConnectFails, Disconnect,
       SocketFails, FailConnection, QueueTimeout, WireTimeout, ScopeEnds,
       ServerReplies, UnaskedBytes, clientVars, Rejecting
<1> QED
  BY <1>1, ClientInit, ClientStep, PTL DEF Spec, StaleScopeIsSilent

-----------------------------------------------------------------------------
(* Replies: with a server that answers each frame once, what is on its way to *)
(* the client always belongs to the active request.                         *)

\* Strengthening: either the server still has the active frame, or its reply
\* is on the way, whole or with its first part buffered.
WireInv ==
    /\ inbox # <<>> => inbox = <<active>> /\ stream = <<>>
    /\ active = None => stream = <<>> /\ inbox = <<>>
    /\ stream # <<>> => \/ stream \in Replies(active) /\ buffer = None
                        \/ stream = <<Chunk(active, "tail")>> /\ buffer = active
    /\ buffer # None => stream = <<Chunk(active, "tail")>> /\ buffer = active
    /\ OwnReply

LEMMA TailOfOne == ASSUME NEW x PROVE Tail(<<x>>) = <<>>
  OBVIOUS

LEMMA WireStep ==
  ASSUME ClientInv, WireInv, [Next]_vars
  PROVE  WireInv'
<1> USE ClientAssumption DEF WireInv, OwnReply, ClientInv, TypeOK, Outcomes, NoneOr
<1>1. ASSUME NEW d \in Dialers, Connect(d) PROVE WireInv'
  BY <1>1 DEF Connect, Replies, Chunk
<1>2. CASE Connected \/ ConnectFails
  <2>1. active = None
    BY <1>2 DEF Connected, ConnectFails, NoRequestLost, Held
  <2> QED
    BY <1>2, <2>1 DEF Connected, ConnectFails, EmptyBuffer
<1>3. CASE FailConnection
  BY <1>3 DEF FailConnection, Rejecting, EmptyBuffer
<1>4. ASSUME NEW r \in Requests, Submit(r) PROVE WireInv'
  <2>1. CASE SendNow(r)
    <3>1. inbox = <<>> /\ stream = <<>> /\ buffer = None
      BY <2>1 DEF SendNow, WireFree, Chunk
    <3> QED
      BY <2>1, <3>1 DEF SendNow
  <2>2. CASE Refuse(r) \/ Enqueue(r) \/ Overflow(r)
    <3>1. UNCHANGED <<inbox, stream, active, buffer, answer>>
      BY <2>2 DEF Refuse, Enqueue, Overflow
    <3>2. \A q \in Requests : outcome'[q] = "resolved" => outcome[q] = "resolved"
      BY <2>2 DEF Refuse, Enqueue, Overflow, Rejecting
    <3> QED
      BY <3>1, <3>2 DEF Replies, Chunk
  <2> QED
    BY <1>4, <2>1, <2>2 DEF Submit
<1>5. ASSUME NEW r \in Requests, QueueTimeout(r) PROVE WireInv'
  BY <1>5 DEF QueueTimeout, Rejecting, Replies, Chunk
<1>6. CASE Receive
  <2> DEFINE c == Head(stream)
  <2>1. /\ active # None /\ inbox = <<>> /\ c.req = active
        /\ stream \in Replies(active) \/ stream = <<Chunk(active, "tail")>>
    BY <1>6 DEF Receive, Replies, Chunk
  <2>2. CASE Completes(c) /\ CompleteActive(c) /\ stream' = Tail(stream)
    <3>1. PICK n \in NoneOr(Requests) :
            /\ active' = n
            /\ outcome' = [Rejecting(Skipped(n)) EXCEPT
                              ![active] = IF active \in stale THEN "rejected"
                                                              ELSE "resolved"]
            /\ answer' = [answer EXCEPT ![active] = c.req]
            /\ buffer' = None
            /\ inbox' = IF n = None THEN inbox ELSE Append(inbox, n)
      BY <2>2, Zenon DEF CompleteActive, EmptyBuffer
    <3>2. stream' = <<>>
      <4>1. c.kind \in {"whole", "tail"}
        BY <2>2 DEF Completes
      <4>2. stream \in {<<Chunk(active, "whole")>>, <<Chunk(active, "tail")>>}
        BY <2>1, <4>1 DEF Replies, Chunk
      <4> QED
        BY <2>2, <4>2, TailOfOne
    <3>3. inbox' = IF n = None THEN <<>> ELSE <<n>>
      BY <2>1, <3>1
    <3>4. OwnReply'
      BY <2>1, <3>1 DEF Rejecting
    <3> QED
      BY <3>1, <3>2, <3>3, <3>4
  <2>3. CASE /\ Partial(c)
             /\ buffer' = c.req
             /\ stream' = Tail(stream)
             /\ UNCHANGED <<active, outcome, inbox, answer>>
    <3>1. stream = <<Chunk(active, "head"), Chunk(active, "tail")>>
      BY <2>1, <2>3 DEF Partial, Replies, Chunk
    <3>2. stream' = <<Chunk(active, "tail")>>
      BY <3>1, <2>3
    <3> QED
      BY <2>1, <2>3, <3>2
  <2> QED
    BY <1>6, <1>3, <2>1, <2>2, <2>3 DEF Receive
<1>7. ASSUME NEW r \in Requests, ScopeEnds(r) PROVE WireInv'
  BY <1>7 DEF ScopeEnds, clientVars, Replies, Chunk
<1>8. CASE ServerReplies
  <2>1. inbox = <<active>> /\ stream = <<>> /\ active # None /\ buffer = None
    BY <1>8 DEF ServerReplies, Chunk
  <2>2. PICK reply \in Replies(active) : stream' = reply
    <3>1. PICK reply \in Replies(active) : stream' = stream \o reply
      BY <1>8, <2>1 DEF ServerReplies
    <3>2. reply \in Seq(Chunks)
      BY <2>1, RepliesAreChunks
    <3> QED
      BY <2>1, <3>1, <3>2
  <2>3. /\ inbox' = <<>> /\ stream' \in Replies(active') /\ active' # None
        /\ buffer' = None /\ UNCHANGED <<outcome, answer>>
    BY <1>8, <2>1, <2>2 DEF ServerReplies, clientVars, Replies, Chunk
  <2> QED
    BY <2>3
<1>9. CASE UNCHANGED vars
  BY <1>9 DEF vars, Replies, Chunk
<1> QED
  BY <1>1, <1>2, <1>3, <1>4, <1>5, <1>6, <1>7, <1>8, <1>9
  DEF Next, Disconnect, SocketFails, WireTimeout, UnaskedBytes

\* Without correlation ids, a request still resolves only with its own reply, and
\* no part of a frame outlives the request it answers (ipc-client.ts:185-213).
THEOREM RepliesAreNotMixed == Spec => []RepliesAreOwn
<1>1. Init => WireInv
  BY DEF Init, WireInv, OwnReply
<1>2. ClientInv /\ WireInv /\ [Next]_vars => WireInv'
  BY WireStep
<1>3. WireInv => RepliesAreOwn
  BY DEF WireInv, RepliesAreOwn, NoHalfFrameKept
<1> QED
  BY <1>1, <1>2, <1>3, ClientInit, ClientStep, PTL DEF Spec

\* Timers and held requests agree, so no timer outlives its request.
THEOREM TimersAgree == Spec => []TimersMatch
<1>1. ClientInv => TimersMatch
  BY DEF ClientInv
<1> QED
  BY <1>1, ClientInit, ClientStep, PTL DEF Spec

\* No request waits across a change of connection.
THEOREM NoReplay == Spec => []PendingOnThisConnection
<1>1. ClientInv => PendingOnThisConnection
  BY DEF ClientInv
<1> QED
  BY <1>1, ClientInit, ClientStep, PTL DEF Spec

\* An accepted request is held in one place, under one timer and on one connection
\* until it is settled (ipc-client.ts:123-183, 227-253).
THEOREM AcceptedIsHeld == Spec => []RequestsAreHeld
<1>1. ClientInv => RequestsAreHeld
  BY DEF ClientInv, RequestsAreHeld
<1> QED
  BY <1>1, ClientInit, ClientStep, PTL DEF Spec

-----------------------------------------------------------------------------
(* Refinement.                                                             *)

\* Every run of the client is a run of the promise its callers rely on.
THEOREM ClientKeepsPromise == Spec => ImplementsPromise
<1>1. Init => Promise!Init
  BY DEF Init, Promise!Init
<1>2. ClientInv /\ [Next]_vars => [Promise!Next]_(Promise!vars)
  <2> SUFFICES ASSUME ClientInv, [Next]_vars
               PROVE  [Promise!Next]_(Promise!vars)
    OBVIOUS
  <2> USE ClientAssumption DEF Promise!vars, Promise!Pending, Promise!Rejecting
  <2>1. ASSUME link # "none", FailConnection PROVE Promise!Lose
    BY <2>1 DEF FailConnection, Promise!Lose, Rejecting, Held, ClientInv,
       NoRequestLost, TypeOK, NoneOr, NextEpoch
  <2>2. ASSUME NEW r \in Requests, Submit(r)
        PROVE  Promise!Refuse(r) \/ Promise!Accept(r)
    BY <2>2 DEF Submit, Refuse, SendNow, Enqueue, Overflow, Rejecting,
       RefusedAtSubmission, Promise!Refuse, Promise!Accept, ClientInv, TypeOK
  <2>3. ASSUME NEW r \in Requests, QueueTimeout(r) PROVE Promise!Reject({r})
    BY <2>3 DEF QueueTimeout, Rejecting, Promise!Reject, ClientInv, TypeOK,
       NoRequestLost, Held
  <2>4. CASE Receive /\ active # None /\ CompleteActive(Head(stream))
    <3>1. PICK n \in NoneOr(Requests) :
            /\ Dispatchable(n)
            /\ outcome' = [Rejecting(Skipped(n)) EXCEPT
                              ![active] = IF active \in stale THEN "rejected"
                                                              ELSE "resolved"]
            /\ UNCHANGED <<link, epoch>>
      BY <2>4, Zenon DEF CompleteActive
    <3>2. /\ active \in Requests \ Skipped(n) /\ Skipped(n) \subseteq queue
          /\ link = "open"
          /\ outcome \in [Requests -> Outcomes]
          /\ \A r \in queue \cup {active} : r \in Requests /\ outcome[r] = "pending"
      BY <2>4 DEF ClientInv, TypeOK, NoneOr, NoRequestLost, Held, Skipped, Receive
    <3>3. CASE active \in stale
      <4>1. Promise!Reject(Skipped(n) \cup {active})
        BY <3>1, <3>2, <3>3 DEF Promise!Reject, Rejecting
      <4>2. Skipped(n) \cup {active} \in SUBSET Requests
        BY <3>2
      <4> QED
        BY <4>1, <4>2 DEF Promise!Next
    <3>4. CASE active \notin stale
      <4>1. Promise!Answer(active, Skipped(n))
        BY <3>1, <3>2, <3>4 DEF Promise!Answer, Rejecting
      <4>2. Skipped(n) \in SUBSET Requests
        BY <3>2
      <4> QED
        BY <3>2, <4>1, <4>2 DEF Promise!Next
    <3> QED
      BY <3>3, <3>4
  <2>5. ASSUME Connected PROVE Promise!Open
    BY <2>5 DEF Connected, NextEpoch, Promise!Open
  <2>6. ASSUME \/ \E d \in Dialers : Connect(d)
               \/ ConnectFails
               \/ Receive /\ UNCHANGED <<link, epoch, outcome>>
               \/ \E r \in Requests : ScopeEnds(r)
               \/ ServerReplies
               \/ UNCHANGED vars
        PROVE UNCHANGED Promise!vars
    BY <2>6 DEF Connect, ConnectFails, ScopeEnds, ServerReplies,
       clientVars, vars
  <2>7. ASSUME Receive
        PROVE  \/ active # None /\ CompleteActive(Head(stream))
               \/ UNCHANGED <<link, epoch, outcome>>
               \/ FailConnection
    BY <2>7 DEF Receive
  <2>8. ASSUME NEW r \in Requests, QueueTimeout(r) PROVE Promise!Next
    <3>1. {r} \in SUBSET Requests
      OBVIOUS
    <3> QED
      BY <2>3, <2>8, <3>1 DEF Promise!Next
  <2>9. ASSUME FailConnection PROVE Promise!Next
    BY <2>1, <2>9 DEF FailConnection, Promise!Next
  <2>10. ASSUME NEW r \in Requests, Submit(r) PROVE Promise!Next
    BY <2>2, <2>10 DEF Promise!Next
  <2> QED
    BY <2>4, <2>5, <2>6, <2>7, <2>8, <2>9, <2>10
    DEF Next, Disconnect, SocketFails, WireTimeout, UnaskedBytes, Promise!Next
<1> QED
  BY <1>1, <1>2, ClientInit, ClientStep, PTL
  DEF Spec, ImplementsPromise, Promise!Spec
-----------------------------------------------------------------------------
(***************************************************************************)
(* The sum of the queued frames.  FrameSum is a fold, that is, a function    *)
(* defined by recursion on the subsets of its argument; that there is such a *)
(* function, and that it does not depend on the order of the fold, is proved *)
(* from minimal counterexamples among the subsets of a finite set.          *)
(***************************************************************************)
Picked(s) == CHOOSE x \in s : TRUE
\* g is the fold on the subsets of S.
FoldsOver(g, S) == g = [s \in SUBSET S |-> IF s = {} THEN 0 ELSE FrameBytes[Picked(s)] + g[s \ {Picked(s)}]]

\* A set of subsets of a finite set has a minimal member.
LEMMA MinimalSubset ==
  ASSUME NEW S, IsFiniteSet(S), NEW T \in SUBSET (SUBSET S), T # {}
  PROVE  \E M \in T : \A U \in T : U \subseteq M => U = M
<1>1. IsWellFoundedOn(StrictSubsetOrdering(S), SUBSET S)
  BY FS_StrictSubsetOrderingWellFounded, FS_FiniteSubsetsOfFinite, Zenon
<1>2. PICK M \in T : \A U \in T : <<U, M>> \notin StrictSubsetOrdering(S)
  BY <1>1, WFMin, Zenon
<1>3. ASSUME NEW U \in T, U \subseteq M, U # M PROVE FALSE
  <2>1. U \in SUBSET S /\ M \in SUBSET S
    OBVIOUS
  <2>2. <<U, M>> \in StrictSubsetOrdering(S)
    BY <1>3, <2>1 DEF StrictSubsetOrdering
  <2> QED
    BY <1>2, <1>3, <2>2
<1> QED
  BY <1>2, <1>3

LEMMA FrameSumIsTheFold ==
  ASSUME NEW S
  PROVE  FrameSum(S) = (CHOOSE g : FoldsOver(g, S))[S]
BY DEF FrameSum, MapThenSumSet, MapThenFoldSet, FoldsOver, Picked

\* The recursion that defines the fold has a solution on every finite set, and
\* each solution is the sum on all subsets.
SumsUpTo(S) ==
    /\ \E g : FoldsOver(g, S)
    /\ \A g : FoldsOver(g, S) => \A U \in SUBSET S : g[U] = FrameSum(U)
LEMMA FoldsExist ==
  ASSUME NEW S, IsFiniteSet(S)
  PROVE  SumsUpTo(S)
<1> DEFINE T == {U \in SUBSET S : ~SumsUpTo(U)}
<1> SUFFICES ASSUME T # {} PROVE FALSE
  OBVIOUS
<1>0. T \in SUBSET (SUBSET S)
  OBVIOUS
<1> HIDE DEF T
<1>1. PICK M \in T : \A U \in T : U \subseteq M => U = M
  BY <1>0, MinimalSubset
<1> USE DEF T
<1>2. ASSUME NEW U \in SUBSET M, U # M PROVE SumsUpTo(U)
  BY <1>1, <1>2
<1> HIDE DEF T
<1>3. ASSUME NEW s \in SUBSET M, s # {}
      PROVE  Picked(s) \in s /\ s \ {Picked(s)} \in SUBSET M /\ s \ {Picked(s)} # M
             /\ s \ {Picked(s)} \in SUBSET s
  BY <1>3 DEF Picked
\* On proper subsets the sum satisfies the recursion.
<1>4. ASSUME NEW s \in SUBSET M, s # M
      PROVE  FrameSum(s) = IF s = {} THEN 0 ELSE FrameBytes[Picked(s)] + FrameSum(s \ {Picked(s)})
  <2>1. SumsUpTo(s)
    BY <1>2, <1>4
  <2>2. PICK g : FoldsOver(g, s)
    BY <2>1 DEF SumsUpTo
  <2>3. \A U \in SUBSET s : g[U] = FrameSum(U)
    BY <2>1, <2>2 DEF SumsUpTo
  <2>4. g[s] = IF s = {} THEN 0 ELSE FrameBytes[Picked(s)] + g[s \ {Picked(s)}]
    BY <2>2 DEF FoldsOver
  <2>5. s # {} => s \ {Picked(s)} \in SUBSET s
    OBVIOUS
  <2> QED
    BY <2>3, <2>4, <2>5
<1> DEFINE h == [s \in SUBSET M |-> IF s = {} THEN 0 ELSE FrameBytes[Picked(s)] + FrameSum(s \ {Picked(s)})]
<1>5. \A s \in SUBSET M : s # {} => h[s \ {Picked(s)}] = FrameSum(s \ {Picked(s)})
  BY <1>3, <1>4
<1>6. FoldsOver(h, M)
  <2>1. \A s \in SUBSET M : (IF s = {} THEN 0 ELSE FrameBytes[Picked(s)] + FrameSum(s \ {Picked(s)}))
                           = (IF s = {} THEN 0 ELSE FrameBytes[Picked(s)] + h[s \ {Picked(s)}])
    BY <1>5
  <2> HIDE DEF h
  <2>2. h = [s \in SUBSET M |-> IF s = {} THEN 0 ELSE FrameBytes[Picked(s)] + h[s \ {Picked(s)}]]
    BY <2>1 DEF h
  <2> QED
    BY <2>2 DEF FoldsOver
<1> HIDE DEF h
\* A solution on M is the sum on proper subsets: a minimal exception has none below it.
<1>7. ASSUME NEW g, FoldsOver(g, M), NEW U \in SUBSET M, U # M
      PROVE  g[U] = FrameSum(U)
  <2> DEFINE X == {V \in SUBSET U : g[V] # FrameSum(V)}
  <2> SUFFICES ASSUME X # {} PROVE FALSE
    OBVIOUS
  <2>1. IsFiniteSet(U)
    BY FS_Subset, <1>1 DEF T
  <2>0. X \in SUBSET (SUBSET U)
    OBVIOUS
  <2> HIDE DEF X
  <2>2. PICK V \in X : \A W \in X : W \subseteq V => W = V
    BY <2>0, <2>1, MinimalSubset
  <2> USE DEF X
  <2>3. V \in SUBSET M /\ V # M /\ V \in SUBSET U /\ g[V] # FrameSum(V)
    BY <1>7
  <2>4. g[V] = IF V = {} THEN 0 ELSE FrameBytes[Picked(V)] + g[V \ {Picked(V)}]
    BY <1>7, <2>3 DEF FoldsOver
  <2>5. FrameSum(V) = IF V = {} THEN 0 ELSE FrameBytes[Picked(V)] + FrameSum(V \ {Picked(V)})
    BY <1>4, <2>3
  <2>6. CASE V # {}
    <3>1. V \ {Picked(V)} \in SUBSET U /\ V \ {Picked(V)} \subseteq V /\ V \ {Picked(V)} # V
      BY <1>3, <2>3, <2>6
    <3>2. g[V \ {Picked(V)}] = FrameSum(V \ {Picked(V)})
      BY <2>2, <3>1
    <3> QED
      BY <2>3, <2>4, <2>5, <2>6, <3>2
  <2> QED
    BY <2>3, <2>4, <2>5, <2>6
<1>8. FrameSum(M) = IF M = {} THEN 0 ELSE FrameBytes[Picked(M)] + FrameSum(M \ {Picked(M)})
  <2> DEFINE f == CHOOSE g : FoldsOver(g, M)
  <2>1. FoldsOver(f, M)
    BY <1>6
  <2>2. FrameSum(M) = f[M]
    BY FrameSumIsTheFold
  <2> HIDE DEF f
  <2>3. f[M] = IF M = {} THEN 0 ELSE FrameBytes[Picked(M)] + f[M \ {Picked(M)}]
    BY <2>1 DEF FoldsOver
  <2>4. M # {} => f[M \ {Picked(M)}] = FrameSum(M \ {Picked(M)})
    BY <1>3, <1>7, <2>1
  <2> QED
    BY <2>2, <2>3, <2>4
<1>9. ASSUME NEW g, FoldsOver(g, M) PROVE g[M] = FrameSum(M)
  <2>1. g[M] = IF M = {} THEN 0 ELSE FrameBytes[Picked(M)] + g[M \ {Picked(M)}]
    BY <1>9 DEF FoldsOver
  <2>2. M # {} => g[M \ {Picked(M)}] = FrameSum(M \ {Picked(M)})
    BY <1>3, <1>7, <1>9
  <2> QED
    BY <1>8, <2>1, <2>2
<1>10. SumsUpTo(M)
  BY <1>6, <1>7, <1>9 DEF SumsUpTo
<1> QED
  BY <1>1, <1>10 DEF T

LEMMA FrameSumUnfolds ==
  ASSUME NEW S, IsFiniteSet(S)
  PROVE  FrameSum(S) = IF S = {} THEN 0 ELSE FrameBytes[Picked(S)] + FrameSum(S \ {Picked(S)})
<1>1. PICK g : FoldsOver(g, S) /\ \A U \in SUBSET S : g[U] = FrameSum(U)
  BY FoldsExist DEF SumsUpTo
<1>2. g[S] = IF S = {} THEN 0 ELSE FrameBytes[Picked(S)] + g[S \ {Picked(S)}]
  BY <1>1 DEF FoldsOver
<1>3. S \ {Picked(S)} \in SUBSET S
  OBVIOUS
<1> QED
  BY <1>1, <1>2, <1>3

LEMMA FrameSumIsNat ==
  ASSUME NEW S \in SUBSET Requests, IsFiniteSet(S)
  PROVE  FrameSum(S) \in Nat
<1> DEFINE T == {U \in SUBSET S : FrameSum(U) \notin Nat}
<1> SUFFICES ASSUME T # {} PROVE FALSE
  OBVIOUS
<1>0. T \in SUBSET (SUBSET S)
  OBVIOUS
<1> HIDE DEF T
<1>1. PICK M \in T : \A U \in T : U \subseteq M => U = M
  BY <1>0, MinimalSubset
<1> USE DEF T
<1>2. IsFiniteSet(M) /\ M \subseteq S /\ FrameSum(M) \notin Nat
  BY FS_Subset
<1>3. FrameSum(M) = IF M = {} THEN 0 ELSE FrameBytes[Picked(M)] + FrameSum(M \ {Picked(M)})
  BY <1>2, FrameSumUnfolds
<1>4. CASE M # {}
  <2>1. Picked(M) \in M
    BY <1>4 DEF Picked
  <2>2. M \ {Picked(M)} \notin T
    BY <1>1, <2>1
  <2>3. FrameSum(M \ {Picked(M)}) \in Nat /\ FrameBytes[Picked(M)] \in Nat
    BY <1>2, <2>1, <2>2, ClientAssumption
  <2> QED
    BY <1>2, <1>3, <1>4, <2>3
<1> QED
  BY <1>2, <1>3, <1>4

\* Whatever the fold picks first, any one frame can be taken out of the sum.
LEMMA FrameSumRemoves ==
  ASSUME NEW S \in SUBSET Requests, IsFiniteSet(S), NEW r \in S
  PROVE  FrameSum(S) = FrameBytes[r] + FrameSum(S \ {r})
<1> DEFINE T == {U \in SUBSET S : \E q \in U : FrameSum(U) # FrameBytes[q] + FrameSum(U \ {q})}
<1> SUFFICES ASSUME T # {} PROVE FALSE
  OBVIOUS
<1>0. T \in SUBSET (SUBSET S)
  OBVIOUS
<1> HIDE DEF T
<1>1. PICK M \in T : \A U \in T : U \subseteq M => U = M
  BY <1>0, MinimalSubset
<1> USE DEF T
<1>2. PICK q \in M : FrameSum(M) # FrameBytes[q] + FrameSum(M \ {q})
  OBVIOUS
<1>3. IsFiniteSet(M) /\ M \subseteq S
  BY FS_Subset
<1> DEFINE p == Picked(M)
<1>4. p \in M
  BY <1>2 DEF Picked
<1>5. FrameSum(M) = FrameBytes[p] + FrameSum(M \ {p})
  BY <1>2, <1>3, FrameSumUnfolds
<1> HIDE DEF p
<1>6. p # q
  BY <1>2, <1>5
<1>7. M \ {p} \notin T /\ M \ {q} \notin T
  BY <1>1, <1>2, <1>4
<1>8. /\ FrameSum(M \ {p}) = FrameBytes[q] + FrameSum((M \ {p}) \ {q})
      /\ FrameSum(M \ {q}) = FrameBytes[p] + FrameSum((M \ {q}) \ {p})
  BY <1>3, <1>4, <1>6, <1>7
<1>9. (M \ {p}) \ {q} = (M \ {q}) \ {p}
  OBVIOUS
<1>10. FrameBytes[p] \in Nat /\ FrameBytes[q] \in Nat
  BY <1>3, <1>4, ClientAssumption
<1>11. FrameSum((M \ {p}) \ {q}) \in Nat
  <2>1. (M \ {p}) \ {q} \in SUBSET S /\ (M \ {p}) \ {q} \in SUBSET Requests
    BY <1>3
  <2> QED
    BY <2>1, FS_Subset, FrameSumIsNat
<1> QED
  BY <1>2, <1>5, <1>8, <1>9, <1>10, <1>11

LEMMA FrameSumAdds ==
  ASSUME NEW S \in SUBSET Requests, IsFiniteSet(S), NEW r \in Requests \ S
  PROVE  FrameSum(S \cup {r}) = FrameSum(S) + FrameBytes[r]
<1>1. IsFiniteSet(S \cup {r}) /\ (S \cup {r}) \ {r} = S
  BY FS_AddElement
<1>2. FrameSum(S \cup {r}) = FrameBytes[r] + FrameSum(S)
  BY <1>1, FrameSumRemoves
<1> QED
  BY <1>2, FrameSumIsNat, ClientAssumption

LEMMA FrameSumSubtracts ==
  ASSUME NEW S \in SUBSET Requests, IsFiniteSet(S), NEW U \in SUBSET S
  PROVE  FrameSum(S \ U) = FrameSum(S) - FrameSum(U)
<1> DEFINE T == {V \in SUBSET S : FrameSum(S \ V) # FrameSum(S) - FrameSum(V)}
<1> SUFFICES ASSUME T # {} PROVE FALSE
  OBVIOUS
<1>0. T \in SUBSET (SUBSET S)
  OBVIOUS
<1> HIDE DEF T
<1>1. PICK M \in T : \A V \in T : V \subseteq M => V = M
  BY <1>0, MinimalSubset
<1> USE DEF T
<1>2. M \in SUBSET S /\ IsFiniteSet(M) /\ IsFiniteSet(S \ M) /\ FrameSum(S \ M) # FrameSum(S) - FrameSum(M)
  BY FS_Subset
<1>3. FrameSum(S) \in Nat /\ FrameSum(M) \in Nat /\ FrameSum(S \ M) \in Nat
  BY <1>2, FrameSumIsNat
<1>4. CASE M = {}
  <2>1. FrameSum(M) = 0 /\ S \ M = S
    BY <1>2, <1>4, FrameSumUnfolds
  <2> QED
    BY <1>2, <1>3, <2>1
<1>5. CASE M # {}
  <2>1. PICK r : r \in M
    BY <1>5
  <2>2. FrameSum(M) = FrameBytes[r] + FrameSum(M \ {r})
    BY <1>2, <2>1, FrameSumRemoves
  <2>3. (S \ M) \cup {r} = S \ (M \ {r}) /\ r \in Requests \ (S \ M)
    BY <1>2, <2>1
  <2>4. FrameSum(S \ (M \ {r})) = FrameSum(S \ M) + FrameBytes[r]
    BY <1>2, <2>3, FrameSumAdds
  <2>5. FrameSum(S \ (M \ {r})) = FrameSum(S) - FrameSum(M \ {r})
    BY <1>1, <2>1
  <2>6. FrameSum(M \ {r}) \in Nat /\ FrameBytes[r] \in Nat
    <3>1. M \ {r} \in SUBSET Requests /\ IsFiniteSet(M \ {r})
      BY <1>2, FS_RemoveElement
    <3> QED
      BY <2>3, <3>1, FrameSumIsNat, ClientAssumption
  <2> QED
    BY <1>2, <1>3, <2>2, <2>4, <2>5, <2>6
<1> QED
  BY <1>4, <1>5
-----------------------------------------------------------------------------
\* The accounts are inductive together with where requests are held; that the
\* queue is finite is what the sum and the number of its members rest on.
AccountInv == IsFiniteSet(queue) /\ QueueAccounting

LEMMA AccountInit == Init => AccountInv
<1> SUFFICES ASSUME Init PROVE AccountInv
  OBVIOUS
<1>1. queue = {} /\ queuedBytes = 0
  BY DEF Init
<1>2. IsFiniteSet(queue) /\ Cardinality(queue) = 0 /\ FrameSum(queue) = 0
  BY <1>1, FS_EmptySet, FrameSumUnfolds
<1> QED
  BY <1>1, <1>2, ClientAssumption DEF AccountInv, QueueAccounting

\* The queue can only lose requests with their bytes.
LEMMA LessIsAccounted ==
  ASSUME ClientInv, AccountInv, NEW gone \in SUBSET queue,
         queue' = queue \ gone, queuedBytes' = queuedBytes - FrameSum(gone)
  PROVE  AccountInv'
<1>1. IsFiniteSet(queue) /\ queue \in SUBSET Requests
  BY DEF ClientInv, TypeOK, AccountInv
<1>2. queue' \in SUBSET queue /\ gone \in SUBSET Requests
  BY <1>1
<1>3. IsFiniteSet(queue') /\ IsFiniteSet(gone) /\ Cardinality(queue') <= Cardinality(queue)
      /\ Cardinality(queue) \in Nat /\ Cardinality(queue') \in Nat
  BY <1>1, <1>2, FS_Subset, FS_CardinalityType
<1>4. FrameSum(queue') = FrameSum(queue) - FrameSum(gone)
  BY <1>1, FrameSumSubtracts
<1>5. FrameSum(queue) \in Nat /\ FrameSum(gone) \in Nat
  BY <1>1, <1>2, <1>3, FrameSumIsNat
<1>6. FrameSum(queue)' = FrameSum(queue')
  BY DEF FrameSum, MapThenSumSet, MapThenFoldSet
<1> QED
  BY <1>3, <1>4, <1>5, <1>6, ClientAssumption DEF AccountInv, QueueAccounting

LEMMA AccountStep == ClientInv /\ AccountInv /\ [Next]_vars => AccountInv'
<1> SUFFICES ASSUME ClientInv, AccountInv, [Next]_vars PROVE AccountInv'
  OBVIOUS
<1>1. CASE UNCHANGED <<queue, queuedBytes>>
  <2>1. FrameSum(queue)' = FrameSum(queue)
    BY <1>1
  <2> QED
    BY <1>1, <2>1 DEF AccountInv, QueueAccounting
<1>2. CASE queue' = {} /\ queuedBytes' = 0
  <2>1. IsFiniteSet(queue') /\ Cardinality(queue') = 0 /\ FrameSum(queue') = 0
    BY <1>2, FS_EmptySet, FrameSumUnfolds
  <2>2. FrameSum(queue)' = FrameSum(queue')
    BY DEF FrameSum, MapThenSumSet, MapThenFoldSet
  <2> QED
    BY <1>2, <2>1, <2>2, ClientAssumption DEF AccountInv, QueueAccounting
<1>3. ASSUME NEW r \in Requests, Enqueue(r) PROVE AccountInv'
  <2>1. /\ r \notin queue /\ queue \in SUBSET Requests /\ IsFiniteSet(queue)
        /\ queue' = queue \cup {r} /\ queuedBytes' = queuedBytes + FrameBytes[r]
    BY <1>3 DEF Enqueue, ClientInv, TypeOK, NoRequestLost, AccountInv, Held
  <2>2. ~(Cardinality(queue) >= MaxQueued) /\ ~(queuedBytes + FrameBytes[r] > MaxQueuedBytes)
    BY <1>3 DEF Enqueue, QueueFull
  <2>3. IsFiniteSet(queue') /\ Cardinality(queue') = Cardinality(queue) + 1 /\ Cardinality(queue) \in Nat
    BY <2>1, FS_AddElement, FS_CardinalityType
  <2>4. FrameSum(queue') = FrameSum(queue) + FrameBytes[r] /\ FrameSum(queue) \in Nat
    BY <2>1, FrameSumAdds, FrameSumIsNat
  <2>5. FrameSum(queue)' = FrameSum(queue')
    BY DEF FrameSum, MapThenSumSet, MapThenFoldSet
  <2> QED
    BY <2>1, <2>2, <2>3, <2>4, <2>5, ClientAssumption DEF AccountInv, QueueAccounting
<1>4. ASSUME NEW r \in Requests, QueueTimeout(r) PROVE AccountInv'
  <2>1. {r} \in SUBSET queue /\ queue' = queue \ {r} /\ queuedBytes' = queuedBytes - FrameBytes[r]
        /\ r \in Requests \ {}
    BY <1>4 DEF QueueTimeout
  <2>2. FrameSum({}) = 0 /\ IsFiniteSet({}) /\ {} \in SUBSET Requests
    BY FS_EmptySet, FrameSumUnfolds
  <2>3. FrameSum({} \cup {r}) = FrameSum({}) + FrameBytes[r]
    BY <2>1, <2>2, FrameSumAdds
  <2>4. FrameSum({r}) = FrameBytes[r]
    <3>1. {} \cup {r} = {r}
      OBVIOUS
    <3> QED
      BY <2>2, <2>3, <3>1, ClientAssumption
  <2> QED
    BY <2>1, <2>4, LessIsAccounted
<1>5. ASSUME NEW c, CompleteActive(c) PROVE AccountInv'
  <2> PICK n \in NoneOr(Requests) :
        /\ Dispatchable(n)
        /\ queue' = queue \ (Skipped(n) \cup (IF n = None THEN {} ELSE {n}))
        /\ queuedBytes' = queuedBytes - FrameSum(Skipped(n) \cup (IF n = None THEN {} ELSE {n}))
    BY <1>5, Zenon DEF CompleteActive
  <2> DEFINE gone == Skipped(n) \cup (IF n = None THEN {} ELSE {n})
  <2>1. gone \in SUBSET queue
    BY DEF Skipped, Dispatchable
  <2> QED
    BY <2>1, LessIsAccounted
<1> QED
  BY <1>1, <1>2, <1>3, <1>4, <1>5
  DEF Next, vars, clientVars, Connect, Connected, ConnectFails, Disconnect, SocketFails, FailConnection,
      Submit, Refuse, SendNow, Overflow, WireTimeout, Receive, ScopeEnds, ServerReplies, UnaskedBytes

\* The counter of queued bytes, kept by hand in five places, is the sum of the
\* frames that wait, and neither limit of the queue is ever exceeded.
THEOREM QueueIsAccountedFor == Spec => []QueueAccounting
<1>1. Init => ClientInv /\ AccountInv
  BY ClientInit, AccountInit
<1>2. ClientInv /\ AccountInv /\ [Next]_vars => (ClientInv /\ AccountInv)'
  BY ClientStep, AccountStep
<1>3. AccountInv => QueueAccounting
  BY DEF AccountInv
<1> QED
  BY <1>1, <1>2, <1>3, PTL DEF Spec
=============================================================================
