------------------------------ MODULE IpcClient ------------------------------
(***************************************************************************)
(* The TCP client of src/src/emulator/client/ipc-client.ts: one active     *)
(* request on the wire, a bounded queue ordered by priority, a timer per   *)
(* request, scopes that go stale, and a connection that is abandoned as a  *)
(* whole whenever the stream can no longer be trusted.                     *)
(*                                                                         *)
(* One action is one run of an event handler or of a synchronous call: the *)
(* code is single-threaded JavaScript and none of these handlers awaits.   *)
(* The emulator at the other end is an environment that replies once to    *)
(* each frame it received (docs/emulator.md:24), possibly in pieces,       *)
(* damaged, or not at all.                                                 *)
(***************************************************************************)
EXTENDS Integers, Sequences, FiniteSets, FiniteSetsExt

CONSTANTS Requests,        \* calls of send / sendRaw
          Dialers,         \* callers of connect()
          None,            \* absence of a request
          PriorityOf,      \* 0 critical .. 3 low (PRIORITY_ORDER)
          FrameBytes,      \* encoded length of each request
          Scoped,          \* requests that carry an OperationScope
          MaxQueued,       \* IpcClientLimits.maxQueuedRequests
          MaxQueuedBytes,  \* IpcClientLimits.maxQueuedBytes
          MaxFrameBytes,   \* IpcClientLimits.maxPayloadBytes + 4
          MaxEpoch         \* bound: connections are dialled below this epoch

ASSUME ClientAssumption ==
    /\ None \notin Requests
    /\ PriorityOf \in [Requests -> 0..3]
    /\ FrameBytes \in [Requests -> Nat]
    /\ Scoped \subseteq Requests
    /\ MaxQueued \in Nat \ {0} /\ MaxQueuedBytes \in Nat \ {0}
    /\ MaxFrameBytes \in Nat \ {0}
    /\ MaxEpoch \in Nat

VARIABLES
    link,          \* "none", "connecting" or "open": socket and connecting
    epoch,         \* connection identity compared by every scope
    active,        \* the request on the wire, or None
    queue,         \* requestQueue as a set, ordered by Ahead
    seq,           \* sequence number given at submission
    nextSequence,
    queuedBytes,
    timer,         \* "off", "queue" (queue wait) or "wire" (response wait)
    buffer,        \* request whose partial frame is buffered, or None
    outcome,       \* state of the promise returned to the caller
    dial,          \* state of the promise returned by connect()
    stale,         \* requests whose scope no longer holds
    inbox,         \* environment: frames the server has yet to answer
    stream,        \* environment: chunks on their way to the client
    epochOf,       \* history: epoch at submission
    answer         \* history: whose reply resolved a request

clientVars == <<link, epoch, active, queue, seq, nextSequence, queuedBytes,
                timer, buffer, outcome, dial>>
vars == <<link, epoch, active, queue, seq, nextSequence, queuedBytes, timer,
          buffer, outcome, dial, stale, inbox, stream, epochOf, answer>>

Outcomes == {"unsent", "pending", "resolved", "rejected"}
Settled == {"resolved", "rejected"}
NoneOr(S) == S \cup {None}

\* A chunk as the data handler sees it: the whole frame, its beginning or its
\* end, a frame with bytes after it, or bytes that are no valid frame.
ChunkKinds == {"whole", "head", "tail", "extra", "bad"}
Chunks == [req : NoneOr(Requests), kind : ChunkKinds]
Chunk(r, k) == [req |-> r, kind |-> k]

FrameSum(S) == MapThenSumSet(LAMBDA r : FrameBytes[r], S)

\* Order of requestQueue.sort: priority, then submission.
Ahead(q, r) == \/ PriorityOf[q] < PriorityOf[r]
               \/ PriorityOf[q] = PriorityOf[r] /\ seq[q] < seq[r]

\* Mutant: failing settles the request on the wire only.
RejectingOnlyActive(S) ==
    [r \in Requests |-> IF r \in S /\ r = active THEN "rejected" ELSE outcome[r]]
Rejecting(S) == [r \in Requests |-> IF r \in S THEN "rejected" ELSE outcome[r]]

\* Mutant: clock.cancel is never called.
TimersLeft(S) == timer
TimersOff(S) == [r \in Requests |-> IF r \in S THEN "off" ELSE timer[r]]
Held == queue \cup (IF active = None THEN {} ELSE {active})

\* Mutant: a write without its deadline.
UntimedWrite(r) == timer
ArmWire(r) == [timer EXCEPT ![r] = "wire"]

\* Mutant: partial bytes survive the exchange or the connection they belong to.
KeptBuffer == buffer
EmptyBuffer == None

\* Mutant: observers cannot tell connections apart.
SameEpoch == epoch
NextEpoch == epoch + 1

\* Mutant: a submission does not look at the active request.
AlwaysFree == TRUE
WireFree == active = None

TypeOK ==
    /\ link \in {"none", "connecting", "open"}
    /\ epoch \in Nat
    /\ active \in NoneOr(Requests)
    /\ queue \subseteq Requests
    /\ seq \in [Requests -> Nat]
    /\ nextSequence \in Nat
    /\ timer \in [Requests -> {"off", "queue", "wire"}]
    /\ buffer \in NoneOr(Requests)
    /\ outcome \in [Requests -> Outcomes]
    /\ dial \in [Dialers -> {"idle", "waiting", "connected", "refused"}]
    /\ stale \subseteq Scoped
    /\ inbox \in Seq(Requests)
    /\ stream \in Seq(Chunks)
    /\ epochOf \in [Requests -> Nat]
    /\ answer \in [Requests -> NoneOr(Requests)]

Init ==
    /\ link = "none"
    /\ epoch = 0
    /\ active = None
    /\ queue = {}
    /\ seq = [r \in Requests |-> 0]
    /\ nextSequence = 0
    /\ queuedBytes = 0
    /\ timer = [r \in Requests |-> "off"]
    /\ buffer = None
    /\ outcome = [r \in Requests |-> "unsent"]
    /\ dial = [d \in Dialers |-> "idle"]
    /\ stale = {}
    /\ inbox = <<>>
    /\ stream = <<>>
    /\ epochOf = [r \in Requests |-> 0]
    /\ answer = [r \in Requests |-> None]

-----------------------------------------------------------------------------
(* Connecting.                                                             *)

\* Mutant: the shared promise of connect() is not settled.
DialLeft(end) == dial
DialEnding(end) == [d \in Dialers |-> IF dial[d] = "waiting" THEN end ELSE dial[d]]

\* connect(): resolves at once when connected, shares a pending attempt.
Connect(d) ==
    /\ dial[d] # "waiting"
    /\ \/ /\ link = "open"
          /\ dial' = [dial EXCEPT ![d] = "connected"]
          /\ UNCHANGED link
       \/ /\ link = "connecting"
          /\ dial' = [dial EXCEPT ![d] = "waiting"]
          /\ UNCHANGED link
       \/ /\ link = "none"
          /\ epoch < MaxEpoch
          /\ dial' = [dial EXCEPT ![d] = "waiting"]
          /\ link' = "connecting"
    /\ UNCHANGED <<epoch, active, queue, seq, nextSequence, queuedBytes, timer,
                   buffer, outcome, stale, inbox, stream, epochOf, answer>>

\* The socket's 'connect' event: the attempt becomes the connection.
Connected ==
    /\ link = "connecting"
    /\ link' = "open"
    /\ epoch' = NextEpoch
    /\ buffer' = EmptyBuffer
    /\ dial' = DialEnding("connected")
    /\ inbox' = <<>>
    /\ stream' = <<>>
    /\ UNCHANGED <<active, queue, seq, nextSequence, queuedBytes, timer,
                   outcome, stale, epochOf, answer>>

\* 'error' or 'close' before connecting, or CONNECT_TIMEOUT_MS: cancel().
ConnectFails ==
    /\ link = "connecting"
    /\ link' = "none"
    /\ dial' = DialEnding("refused")
    /\ UNCHANGED <<epoch, active, queue, seq, nextSequence, queuedBytes, timer,
                   buffer, outcome, stale, inbox, stream, epochOf, answer>>

\* failConnection(): detach first, settle everything once.  Bytes still in
\* flight are dropped with the socket's listeners.
FailConnection ==
    /\ link # "none"
    /\ link' = "none"
    /\ epoch' = NextEpoch
    /\ dial' = DialEnding("refused")
    /\ buffer' = EmptyBuffer
    /\ active' = None
    /\ queue' = {}
    /\ queuedBytes' = 0
    /\ timer' = TimersOff(Held)
    /\ outcome' = Rejecting(Held)
    /\ inbox' = <<>>
    /\ stream' = <<>>
    /\ UNCHANGED <<seq, nextSequence, stale, epochOf, answer>>

\* disconnect(), also while connecting.
Disconnect == FailConnection

\* 'end', 'close' or 'error' on the socket, or the callback of a failed write.
SocketFails == link = "open" /\ FailConnection

-----------------------------------------------------------------------------
(* Submitting a request.                                                   *)

\* Every exception thrown inside the promise executor rejects the promise.
RefusedAtSubmission(r) ==
    \/ r \in stale
    \/ link # "open"
    \/ FrameBytes[r] > MaxFrameBytes

\* Mutant: the limits are compared with what is queued before the request is.
QueueOverfull(r) == Cardinality(queue) > MaxQueued \/ queuedBytes > MaxQueuedBytes
QueueFull(r) == \/ Cardinality(queue) >= MaxQueued
                \/ queuedBytes + FrameBytes[r] > MaxQueuedBytes

Refuse(r) ==
    /\ outcome[r] = "unsent"
    /\ RefusedAtSubmission(r)
    /\ outcome' = Rejecting({r})
    /\ UNCHANGED <<link, epoch, active, queue, seq, nextSequence, queuedBytes,
                   timer, buffer, dial, stale, inbox, stream, epochOf, answer>>

\* No request on the wire: executeWrite sends this one without queueing it.
SendNow(r) ==
    /\ outcome[r] = "unsent"
    /\ ~RefusedAtSubmission(r)
    /\ WireFree
    /\ active' = r
    /\ seq' = [seq EXCEPT ![r] = nextSequence]
    /\ nextSequence' = nextSequence + 1
    /\ timer' = ArmWire(r)
    /\ outcome' = [outcome EXCEPT ![r] = "pending"]
    /\ epochOf' = [epochOf EXCEPT ![r] = epoch]
    /\ inbox' = Append(inbox, r)
    /\ UNCHANGED <<link, epoch, queue, queuedBytes, buffer, dial, stale,
                   stream, answer>>

Enqueue(r) ==
    /\ outcome[r] = "unsent"
    /\ ~RefusedAtSubmission(r)
    /\ ~WireFree
    /\ ~QueueFull(r)
    /\ queue' = queue \cup {r}
    /\ queuedBytes' = queuedBytes + FrameBytes[r]
    /\ seq' = [seq EXCEPT ![r] = nextSequence]
    /\ nextSequence' = nextSequence + 1
    /\ timer' = [timer EXCEPT ![r] = "queue"]
    /\ outcome' = [outcome EXCEPT ![r] = "pending"]
    /\ epochOf' = [epochOf EXCEPT ![r] = epoch]
    /\ UNCHANGED <<link, epoch, active, buffer, dial, stale, inbox, stream,
                   answer>>

\* The capacity check fails after the sequence number was taken.
Overflow(r) ==
    /\ outcome[r] = "unsent"
    /\ ~RefusedAtSubmission(r)
    /\ ~WireFree
    /\ QueueFull(r)
    /\ outcome' = Rejecting({r})
    /\ seq' = [seq EXCEPT ![r] = nextSequence]
    /\ nextSequence' = nextSequence + 1
    /\ UNCHANGED <<link, epoch, active, queue, queuedBytes, timer, buffer,
                   dial, stale, inbox, stream, epochOf, answer>>

-----------------------------------------------------------------------------
(* Timers.                                                                 *)

\* Expiring unsent work does not invalidate the stream.
QueueTimeout(r) ==
    /\ timer[r] = "queue"
    /\ r \in queue
    /\ queue' = queue \ {r}
    /\ queuedBytes' = queuedBytes - FrameBytes[r]
    /\ timer' = TimersOff({r})
    /\ outcome' = Rejecting({r})
    /\ UNCHANGED <<link, epoch, active, seq, nextSequence, buffer, dial, stale,
                   inbox, stream, epochOf, answer>>

\* Mutant: a timeout rejects the request and keeps the stream.
ForgivingTimeout(r) ==
    /\ timer[r] = "wire"
    /\ active = r
    /\ active' = None
    /\ outcome' = Rejecting({r})
    /\ timer' = TimersOff({r})
    /\ UNCHANGED <<link, epoch, queue, seq, nextSequence, queuedBytes, buffer,
                   dial, stale, inbox, stream, epochOf, answer>>

\* An answer that did not come in time makes the stream indeterminate.
WireTimeout(r) ==
    /\ timer[r] = "wire"
    /\ active = r
    /\ FailConnection

-----------------------------------------------------------------------------
(* Receiving.                                                              *)

\* Mutants: the queue is not sorted; scopes are not checked at dispatch.
UnsortedDispatch(n) ==
    IF n = None THEN queue \subseteq stale ELSE n \in queue \ stale
UncheckedDispatch(n) ==
    IF n = None THEN queue = {}
    ELSE n \in queue /\ \A q \in queue : q = n \/ Ahead(n, q)

\* processNextInQueue and executeWrite: stale entries at the head are
\* rejected one after the other until a current one is written.
Dispatchable(n) ==
    IF n = None THEN queue \subseteq stale
    ELSE /\ n \in queue \ stale
         /\ \A q \in queue \ stale : q = n \/ Ahead(n, q)

Skipped(n) == IF n = None THEN queue
              ELSE {q \in queue \cap stale : Ahead(q, n)}

\* A complete, valid frame settles the active request and frees the wire.
CompleteActive(c) ==
    \E n \in NoneOr(Requests) :
        LET gone == Skipped(n)
            left == gone \cup (IF n = None THEN {} ELSE {n})
        IN /\ Dispatchable(n)
           /\ active' = n
           /\ queue' = queue \ left
           /\ queuedBytes' = queuedBytes - FrameSum(left)
           /\ timer' = [r \in Requests |->
                           IF r = n THEN "wire"
                           ELSE IF r = active \/ r \in gone THEN "off"
                           ELSE timer[r]]
           /\ outcome' = [Rejecting(gone) EXCEPT
                             ![active] = IF active \in stale THEN "rejected"
                                                             ELSE "resolved"]
           /\ answer' = [answer EXCEPT ![active] = c.req]
           /\ buffer' = EmptyBuffer
           /\ inbox' = IF n = None THEN inbox ELSE Append(inbox, n)
           /\ UNCHANGED <<link, epoch, seq, nextSequence, dial, stale, epochOf>>

Completes(c) == \/ c.kind = "whole" /\ buffer = None
                \/ c.kind = "tail" /\ buffer = c.req
Partial(c) == c.kind = "head" /\ buffer = None

\* The data handler.  A chunk nobody waits for, extra bytes after a frame and
\* an undecodable frame all fail the connection.
Receive ==
    /\ link = "open"
    /\ stream # <<>>
    /\ LET c == Head(stream) IN
       \/ /\ active # None /\ Partial(c)
          /\ buffer' = c.req
          /\ stream' = Tail(stream)
          /\ UNCHANGED <<link, epoch, active, queue, seq, nextSequence,
                         queuedBytes, timer, outcome, dial, stale, inbox,
                         epochOf, answer>>
       \/ /\ active # None /\ Completes(c)
          /\ CompleteActive(c)
          /\ stream' = Tail(stream)
       \/ /\ \/ active = None
             \/ ~Partial(c) /\ ~Completes(c)
          /\ FailConnection

\* Bytes that arrive while no request is on the wire, whatever they are.  Bytes
\* of an unasked frame that overtake a request cannot be told from its reply.
UnaskedBytes == link = "open" /\ active = None /\ FailConnection

-----------------------------------------------------------------------------
(* Environment: scopes and the emulator.                                   *)

\* Mutant: a request without a scope is treated as if it had one.
AnyScopeEnds(r) ==
    /\ r \notin stale
    /\ stale' = stale \cup {r}
    /\ UNCHANGED <<clientVars, inbox, stream, epochOf, answer>>

\* A session ends or is replaced while a request waits: assertCurrent throws.
ScopeEnds(r) ==
    /\ r \in Scoped \ stale
    /\ stale' = stale \cup {r}
    /\ UNCHANGED <<clientVars, inbox, stream, epochOf, answer>>

Replies(r) == { <<Chunk(r, "whole")>>, <<Chunk(r, "head"), Chunk(r, "tail")>>,
                <<Chunk(r, "extra")>>, <<Chunk(r, "bad")>> }

ServerReplies ==
    /\ link = "open"
    /\ inbox # <<>>
    /\ \E reply \in Replies(Head(inbox)) : stream' = stream \o reply
    /\ inbox' = Tail(inbox)
    /\ UNCHANGED <<clientVars, stale, epochOf, answer>>

-----------------------------------------------------------------------------
Submit(r) == Refuse(r) \/ SendNow(r) \/ Enqueue(r) \/ Overflow(r)

Next ==
    \/ \E d \in Dialers : Connect(d)
    \/ Connected
    \/ ConnectFails
    \/ Disconnect
    \/ SocketFails
    \/ \E r \in Requests : Submit(r)
    \/ \E r \in Requests : QueueTimeout(r)
    \/ \E r \in Requests : WireTimeout(r)
    \/ Receive
    \/ \E r \in Requests : ScopeEnds(r)
    \/ ServerReplies
    \/ UnaskedBytes

\* Node fires every armed timer; nothing else is assumed, in particular not
\* that the server ever answers.
Fairness ==
    /\ \A r \in Requests : WF_vars(QueueTimeout(r) \/ WireTimeout(r))
    /\ WF_vars(ConnectFails)

Spec == Init /\ [][Next]_vars /\ Fairness

-----------------------------------------------------------------------------
(* Properties.                                                             *)

\* Every accepted request is in exactly one place that will settle it (on the
\* wire or in the queue), and nothing settled is still held: processNextInQueue,
\* the two timers and failConnection never drop or keep a promise.
NoRequestLost ==
    /\ \A r \in Requests : outcome[r] = "pending" <=> r \in Held
    /\ active \notin queue
    /\ active = None => queue = {}
    /\ Held # {} => link = "open"

\* Each held request has exactly the timer of the place that holds it, and no
\* timer outlives its request (clock.cancel on every path out).
TimersMatch ==
    \A r \in Requests : timer[r] = IF r \in queue THEN "queue"
                                   ELSE IF r = active THEN "wire" ELSE "off"

\* queuedBytes is incremented and decremented in five places: it stays the sum
\* of the queued frames, and neither queue limit is exceeded.
QueueAccounting ==
    /\ queuedBytes = FrameSum(queue)
    /\ queuedBytes <= MaxQueuedBytes
    /\ Cardinality(queue) <= MaxQueued

\* Nothing submitted on one connection waits on, or is answered by, another:
\* failConnection drains without replay (docs/architecture-owners.md:5).
PendingOnThisConnection ==
    \A r \in Requests : outcome[r] = "pending" => epochOf[r] = epoch

\* The protocol has no correlation ids (docs/emulator.md:22), yet with a server
\* that answers each frame once a request resolves only with its own reply,
\* however late, split, damaged or padded replies are.
OwnReply == \A r \in Requests : outcome[r] = "resolved" => answer[r] = r

\* A partial frame is buffered only while the request it answers is on the wire.
NoHalfFrameKept == buffer # None => buffer = active

\* What is accepted is held until it is settled: in one place, under that place's
\* timer, on the connection it was accepted on, through every order of replies,
\* time-outs, closes and new submissions.
RequestsAreHeld == NoRequestLost /\ TimersMatch /\ PendingOnThisConnection

\* Replies are matched by their position alone, so one byte too many in the
\* buffer, or one late reply, would shift every following answer.
RepliesAreOwn == OwnReply /\ NoHalfFrameKept

\* A queued request is written only when no queued request that could still be
\* written comes before it in the order of requestQueue.sort.
UrgentFirst ==
    [][\A r \in queue : active' = r =>
          \A q \in queue \ {r} : q \in stale \/ Ahead(r, q)]_vars

\* Once its scope is gone a request is neither written nor resolved
\* (executeWrite and complete both re-check the scope).
StaleScopeIsSilent ==
    [][\A r \in stale : /\ active' = r => active = r
                        /\ outcome'[r] = "resolved" => outcome[r] = "resolved"]_vars

\* Every accepted request settles and every connect() ends, even if the server
\* never answers: the timers bound both waits.
RequestsSettle ==
    \A r \in Requests : outcome[r] = "pending" ~> outcome[r] \in Settled
DialsEnd == \A d \in Dialers : dial[d] = "waiting" ~> dial[d] # "waiting"

EverythingEnds == RequestsSettle /\ DialsEnd

\* ipc-client implements the promise its callers rely on.
Promise == INSTANCE IpcPromise WITH up <- link = "open", generation <- epoch
ImplementsPromise == Promise!Spec
=============================================================================
