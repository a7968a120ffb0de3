-------------------------- MODULE CollectionsProofs --------------------------
(***************************************************************************)
(* The four collection services, for every set of identifiers and texts and  *)
(* every number of events and jobs: the mirror is honest, a change reaches   *)
(* the session it was asked in, and a poll is not lost.                     *)
(***************************************************************************)
EXTENDS Collections, FiniteSetTheorems, SequenceTheorems, TLAPS

(***************************************************************************)
(* A finite set of identifiers can be put in order: the place of an          *)
(* identifier is the number of those that are not above it.                  *)
(***************************************************************************)
LEMMA OrderExists ==
  ASSUME NEW S \in SUBSET Nat, IsFiniteSet(S)
  PROVE  \E ids \in [1..Cardinality(S) -> S] :
            \A m, n \in 1..Cardinality(S) : m < n => ids[m] < ids[n]
<1> DEFINE n == Cardinality(S)
           Below(x) == {y \in S : y <= x}
           place == [x \in S |-> Cardinality(Below(x))]
<1>1. n \in Nat /\ IsFiniteSet(1..n) /\ Cardinality(1..n) = n
  BY FS_CardinalityType, FS_Interval
<1>2. \A x \in S : IsFiniteSet(Below(x)) /\ Cardinality(Below(x)) \in Nat /\ Cardinality(Below(x)) <= n
  BY FS_Subset, FS_CardinalityType
<1>3. \A x \in S : Cardinality(Below(x)) # 0
  <2> SUFFICES ASSUME NEW x \in S PROVE Below(x) # {}
    BY <1>2, FS_EmptySet
  <2>1. x \in Nat /\ x <= x
    OBVIOUS
  <2>2. x \in Below(x)
    BY <2>1
  <2> QED
    BY <2>2
<1>4. ASSUME NEW x \in S, NEW y \in S, x < y
      PROVE  Cardinality(Below(x)) < Cardinality(Below(y))
  <2>1. Below(x) \in SUBSET Below(y) /\ y \in Below(y) /\ y \notin Below(x)
    <3>1. x \in Nat /\ y \in Nat /\ \A z \in S : z \in Nat
      OBVIOUS
    <3>2. \A z \in S : z <= x => z <= y
      BY <1>4, <3>1
    <3>3. ~(y <= x) /\ y <= y
      BY <1>4, <3>1
    <3> QED
      BY <3>2, <3>3
  <2>2. Cardinality(Below(x)) <= Cardinality(Below(y)) /\ Cardinality(Below(x)) # Cardinality(Below(y))
    BY <1>2, <2>1, FS_Subset
  <2> QED
    BY <1>2, <2>2
<1>5. \A x \in S : place[x] = Cardinality(Below(x)) /\ place[x] \in 1..n
  BY <1>1, <1>2, <1>3
<1> HIDE DEF Below, place
<1>6. \A x, y \in S : x # y => place[x] # place[y]
  <2> SUFFICES ASSUME NEW x \in S, NEW y \in S, x # y PROVE place[x] # place[y]
    OBVIOUS
  <2>1. x < y \/ y < x
    OBVIOUS
  <2> QED
    BY <1>2, <1>4, <1>5, <2>1
<1>7. place \in Injection(S, 1..n)
  <2>1. place \in [S -> 1..n]
    BY <1>5 DEF place
  <2> QED
    BY <1>6, <2>1 DEF Injection, IsInjective
<1>8. place \in Surjection(S, 1..n)
  BY <1>1, <1>7, FS_Injection
<1>9. \A m \in 1..n : \E x \in S : place[x] = m
  BY <1>8 DEF Surjection
<1> DEFINE ids == [m \in 1..n |-> CHOOSE x \in S : place[x] = m]
<1>10. \A m \in 1..n : ids[m] \in S /\ place[ids[m]] = m
  BY <1>9
<1>11. ids \in [1..n -> S]
  BY <1>10
<1> HIDE DEF ids, n
<1>12. ASSUME NEW l \in 1..n, NEW m \in 1..n, l < m PROVE ids[l] < ids[m]
  <2>1. ids[l] \in S /\ ids[m] \in S /\ place[ids[l]] = l /\ place[ids[m]] = m
    BY <1>10
  <2>2. l \in Nat /\ m \in Nat
    BY <1>1
  <2>3. ids[l] # ids[m]
    BY <2>1, <2>2, <1>12
  <2>4. ~(ids[m] < ids[l])
    <3> SUFFICES ASSUME ids[m] < ids[l] PROVE FALSE
      OBVIOUS
    <3>1. place[ids[m]] < place[ids[l]]
      BY <1>4, <1>5, <2>1
    <3> QED
      BY <1>12, <2>1, <2>2, <3>1
  <2>5. ids[l] \in Nat /\ ids[m] \in Nat
    BY <2>1
  <2> QED
    BY <2>3, <2>4, <2>5
<1> QED
  BY <1>11, <1>12 DEF n

\* ById lists a set of identifiers: each of its places holds one of them.
LEMMA ByIdLists ==
  ASSUME NEW S \in SUBSET Ids
  PROVE  /\ ById(S) \in [1..Cardinality(S) -> S] /\ Cardinality(S) \in Nat
         /\ ById(S) \in Seq(S) /\ Len(ById(S)) = Cardinality(S)
<1>1. IsFiniteSet(S) /\ S \in SUBSET Nat
  BY CollectionsAssumption, FS_Subset
<1>2. Cardinality(S) \in Nat
  BY <1>1, FS_CardinalityType
<1>3. ById(S) \in [1..Cardinality(S) -> S]
  BY <1>1, OrderExists DEF ById
<1> QED
  BY <1>2, <1>3
-----------------------------------------------------------------------------
(***************************************************************************)
(* The invariant.                                                           *)
(***************************************************************************)
Jobs == [op : Operations \cup {"refresh", "poll"}, id : Ids \cup {0}, value : Entry \cup {None},
         asked : Nat, sync : BOOLEAN]
GoodJobs == {j \in Jobs : j.op \in Operations => j.id \in Ids /\ j.value \in Entry}
Cmds == [kind : {"getAll", "getUpdates", "check", "add", "put", "touch", "disable", "delete", "restore",
                 "deleteAll", "disableAll"},
         id : Ids \cup {0}, value : Entry \cup {None}]
GoodCmds == {c \in Cmds : c.kind \in {"add", "put"} => c.value \in Entry}
Messages == [op : Operations, id : Ids, value : Entry, generation : Nat, asked : Nat]

\* What the user asked for is of this session or of an earlier generation.
Meant(m) == m.generation <= generation /\ (m.generation = generation => up /\ m.asked = session)
Rechecked(j) == j.op \in Operations /\ (Guarded \/ j.op \notin Dialogs)

\* The session, and what the service knows in it.
LinkOK ==
    /\ view \in Views /\ session \in Nat /\ up \in BOOLEAN /\ supported \in BOOLEAN /\ visible \in BOOLEAN
    /\ coll \in Collection /\ mirror \in Collection
    /\ rev \in Nat /\ known \in Int /\ generation \in Nat /\ overtaken \in BOOLEAN
    /\ supported => up
    /\ ~up => known = -1 /\ mirror = Empty

\* The running job has a session and a command on the wire.
JobOK ==
    /\ running \in BOOLEAN /\ failing \in BOOLEAN /\ wire \in {"idle", "sent", "answered"}
    /\ todo \in Seq(GoodCmds)
    /\ wire = "answered" => answer.ok \in BOOLEAN /\ answer.coll \in Collection /\ answer.rev \in Nat
    /\ wire # "idle" <=> todo # <<>>
    /\ running <=> todo # <<>>
    /\ running => supported /\ queue # <<>>

\* What is queued is of this session, but for the dialogs that nobody rechecks.
QueueOK(q, s) ==
    /\ q \in Seq(GoodJobs)
    /\ \A n \in 1..Len(q) : Rechecked(q[n]) => q[n].asked = s

\* The panel polls where there is something to poll.
Refreshing == {"idle", "current", "stale"}
Banners == {"noSession", "unsupported", "loading", "ready", "error"}
PanelOK ==
    /\ QueueOK(queue, session) /\ Len(queue) <= MaxQueue + 1
    /\ polling \in BOOLEAN /\ refreshing \in Refreshing /\ again \in BOOLEAN
    /\ waiting \subseteq {"sync", "poll"} /\ banner \in Banners
    /\ Polls => visible /\ up /\ supported
    /\ ~up /\ Guarded => queue = <<>> /\ banner = "noSession"

UserOK ==
    /\ message # None => message \in Messages /\ Meant(message)
    /\ dialog \subseteq {m \in Messages : m.op \in Dialogs}
    /\ \A d \in dialog : Meant(d)

ServiceInv == LinkOK /\ JobOK /\ PanelOK /\ UserOK

\* A counter that has not moved vouches for the mirror, unless a change no list has shown
\* is behind it.  WatchpointService asks for the counter right after the list it is to
\* vouch for; ScriptService has it with the list and with the answer to each of its changes.
ListArrived == wire = "answered" /\ answer.ok /\ Head(todo).kind = "getAll"
CounterVouches == known <= rev /\ (known = rev /\ ~overtaken /\ ~ListArrived => mirror = coll)
ChangeTaken(c) ==
    /\ [mirror EXCEPT ![answer.id] = answer.coll[answer.id]] = coll
    /\ c.kind = "touch" => mirror = coll
Heard(c) ==
    /\ answer.rev <= rev
    /\ c.kind = "getAll" /\ answer.rev = rev => answer.coll = coll
    /\ c.kind = "getAll" /\ view = "watchpoints" => answer.coll = coll \/ overtaken
    /\ c.kind = "getUpdates" /\ answer.rev = rev => mirror = coll \/ overtaken
    /\ TakesCounterOver(c) /\ answer.rev = rev /\ ~overtaken => ChangeTaken(c)
HeardNow == wire = "answered" /\ answer.ok => Heard(Head(todo))
CounterAfterList ==
    \A n \in 1..Len(todo) : todo[n].kind = "getUpdates" =>
        /\ view = "watchpoints"
        /\ IF n = 1 THEN wire = "sent" => mirror = coll \/ overtaken ELSE todo[n-1].kind = "getAll"
Vouched == Counted /\ up => CounterVouches /\ HeardNow /\ CounterAfterList
-----------------------------------------------------------------------------
(***************************************************************************)
(* The commands of a job are well formed: those that write an entry have one. *)
(***************************************************************************)
LEMMA CmdGood ==
  ASSUME NEW i \in Ids \cup {0}, NEW e \in Entry \cup {None},
         NEW kind \in {"getAll", "getUpdates", "check", "add", "put", "touch", "disable", "delete",
                       "restore", "deleteAll", "disableAll"},
         kind \in {"add", "put"} => e \in Entry
  PROVE  Cmd(kind, i, e) \in GoodCmds
BY DEF Cmd, Cmds, GoodCmds

LEMMA RereadGood == Reread \in Seq(GoodCmds) /\ Reread # <<>> /\ <<Plain("check")>> \in Seq(GoodCmds)
<1>1. Plain("getAll") \in GoodCmds /\ Plain("getUpdates") \in GoodCmds /\ Plain("check") \in GoodCmds
  BY CmdGood DEF Plain
<1> QED
  BY <1>1 DEF Reread

LEMMA EntryLemma ==
  /\ \A e \in Entry, b \in BOOLEAN : [e EXCEPT !.on = b] \in Entry
  /\ \A e \in Entry : Off(e) \in Entry /\ e.on \in BOOLEAN /\ e.text \in Texts
BY DEF Entry, Off

LEMMA DisableEachGood ==
  ASSUME mirror \in Collection
  PROVE  DisableEach \in Seq(GoodCmds)
<1> DEFINE ids == ById(Active(mirror))
<1>1. Active(mirror) \in SUBSET Ids
  BY DEF Active
<1>2. ids \in Seq(Active(mirror)) /\ Len(ids) \in Nat /\ \A n \in 1..Len(ids) : ids[n] \in Active(mirror)
  BY <1>1, ByIdLists, ElementOfSeq
<1> HIDE DEF ids
<1>3. \A n \in 1..Len(ids) : Cmd("put", ids[n], Off(mirror[ids[n]])) \in GoodCmds
  <2> SUFFICES ASSUME NEW n \in 1..Len(ids) PROVE Cmd("put", ids[n], Off(mirror[ids[n]])) \in GoodCmds
    OBVIOUS
  <2>1. ids[n] \in Ids /\ mirror[ids[n]] \in Entry
    BY <1>2 DEF Active, Collection
  <2> QED
    BY <2>1, EntryLemma, CmdGood
<1>4. [n \in 1..Len(ids) |-> Cmd("put", ids[n], Off(mirror[ids[n]]))] \in Seq(GoodCmds)
  BY <1>2, <1>3, IsASeq
<1> QED
  BY <1>4 DEF DisableEach, ids

LEMMA ForAllGood == ForAll("restore") \in Seq(GoodCmds)
<1> DEFINE S == {i \in Ids : mirror[i] # None}
           ids == ById(S)
<1>1. S \in SUBSET Ids
  OBVIOUS
<1>2. ids \in Seq(S) /\ Len(ids) \in Nat /\ \A n \in 1..Len(ids) : ids[n] \in S
  BY <1>1, ByIdLists, ElementOfSeq
<1> HIDE DEF ids
<1>3. \A n \in 1..Len(ids) : Cmd("restore", ids[n], None) \in GoodCmds
  BY <1>2, CmdGood
<1>4. [n \in 1..Len(ids) |-> Cmd("restore", ids[n], None)] \in Seq(GoodCmds)
  BY <1>2, <1>3, IsASeq
<1> QED
  BY <1>4 DEF ForAll, ids

LEMMA ThenReread ==
  ASSUME NEW s \in Seq(GoodCmds)
  PROVE  s \o Reread \in Seq(GoodCmds) /\ s \o Reread # <<>>
<1>1. Reread \in Seq(GoodCmds) /\ Len(Reread) \in Nat \ {0}
  BY RereadGood, EmptySeq
<1>2. s \o Reread \in Seq(GoodCmds) /\ Len(s \o Reread) = Len(s) + Len(Reread) /\ Len(s) \in Nat
  BY <1>1, ConcatProperties, LenProperties
<1>3. Len(s \o Reread) # 0
  BY <1>1, <1>2
<1> QED
  BY <1>2, <1>3, EmptySeq

\* Each service's commands, for the jobs of its panel.
LEMMA CommandsGood ==
  ASSUME LinkOK, NEW j \in GoodJobs, NeedsEntry(j) => mirror[j.id] # None
  PROVE  Commands(j) \in Seq(GoodCmds) /\ Commands(j) # <<>>
<1>a. /\ view \in ViewNames /\ mirror \in Collection /\ j.op \in Operations \cup {"refresh", "poll"}
  BY CollectionsAssumption DEF LinkOK, GoodJobs, Jobs
<1>b. j.op \in Operations => j.id \in Ids /\ j.value \in Entry /\ mirror[j.id] \in Entry \cup {None}
  BY <1>a DEF GoodJobs, Collection
<1>c. \A c \in GoodCmds : <<c>> \in Seq(GoodCmds) /\ <<c>> # <<>>
  OBVIOUS
<1>p. \A kind \in {"deleteAll", "disableAll"} : Plain(kind) \in GoodCmds
  BY CmdGood DEF Plain
<1>1. CASE j.op \in {"refresh", "poll"}
  <2>1. CASE j.op = "refresh"
    <3>1. Commands(j) = Reread
      BY <2>1 DEF Commands
    <3> QED
      BY <3>1, RereadGood
  <2>2. CASE j.op = "poll"
    <3>1. Commands(j) = <<Plain("check")>>
      BY <2>2 DEF Commands
    <3> QED
      BY <3>1, RereadGood
  <2> QED
    BY <1>1, <2>1, <2>2
<1>2. CASE view = "scripts" /\ j.op \notin {"refresh", "poll"}
  <2>1. j.op \in ScriptOperations /\ Commands(j) = ScriptCommands(j)
    BY <1>a, <1>2 DEF Commands, Operations
  <2>2. \A kind \in {"touch", "disable", "delete"} : Cmd(kind, j.id, None) \in GoodCmds
    BY <1>a, <1>b, <1>2, CmdGood
  <2>3. Cmd("add", 0, j.value) \in GoodCmds /\ Cmd("put", j.id, j.value) \in GoodCmds
    BY <1>a, <1>b, <1>2, CmdGood
  <2>4. <<Cmd("delete", j.id, None)>> \o Reread \in Seq(GoodCmds) /\ <<Cmd("delete", j.id, None)>> \o Reread # <<>>
    BY <1>c, <2>2, ThenReread
  <2>5. j.op \in {"disableAll", "deleteAll"} => <<Plain(j.op)>> \o Reread \in Seq(GoodCmds) /\ <<Plain(j.op)>> \o Reread # <<>>
    BY <1>c, <1>p, ThenReread
  <2> QED
    BY <1>c, <2>1, <2>2, <2>3, <2>4, <2>5 DEF ScriptCommands, ScriptOperations
<1>3. CASE view = "watchpoints" /\ j.op \notin {"refresh", "poll"}
  <2>1. j.op \in WatchpointOperations /\ Commands(j) = WatchpointCommands(j)
    BY <1>a, <1>3 DEF Commands, Operations
  <2>2. /\ Cmd("add", 0, j.value) \in GoodCmds /\ Cmd("put", j.id, j.value) \in GoodCmds
        /\ Cmd("delete", j.id, None) \in GoodCmds
    BY <1>a, <1>b, <1>3, CmdGood
  <2>3. \A c \in GoodCmds : <<c>> \o Reread \in Seq(GoodCmds) /\ <<c>> \o Reread # <<>>
    BY <1>c, ThenReread
  <2>4. DisableEach \o Reread \in Seq(GoodCmds) /\ DisableEach \o Reread # <<>>
    BY <1>a, DisableEachGood, ThenReread
  <2> QED
    BY <1>p, <2>1, <2>2, <2>3, <2>4 DEF WatchpointCommands, WatchpointOperations
<1>4. CASE view = "edits" /\ j.op \notin {"refresh", "poll"}
  <2>1. j.op \in EditOperations /\ Commands(j) = EditCommands(j)
    BY <1>a, <1>4 DEF Commands, Operations
  <2>2. /\ Cmd("restore", j.id, None) \in GoodCmds /\ Cmd("delete", j.id, None) \in GoodCmds
        /\ Cmd("put", j.id, [j.value EXCEPT !.on = TRUE]) \in GoodCmds
    BY <1>a, <1>b, <1>4, CmdGood, EntryLemma
  <2>3. \A c \in GoodCmds : <<c>> \o Reread \in Seq(GoodCmds) /\ <<c>> \o Reread # <<>>
    BY <1>c, ThenReread
  <2>4. DisableEach \o Reread \in Seq(GoodCmds) /\ DisableEach \o Reread # <<>>
    BY <1>a, DisableEachGood, ThenReread
  <2>5. ForAll("restore") \o Reread \in Seq(GoodCmds) /\ ForAll("restore") \o Reread # <<>>
    BY ForAllGood, ThenReread
  <2>6. j.op \in {"activity", "retain"} =>
          /\ Cmd("put", j.id, [mirror[j.id] EXCEPT !.on = j.value.on]) \in GoodCmds
          /\ Cmd("put", j.id, Off(mirror[j.id])) \in GoodCmds
    BY <1>a, <1>b, <1>4, CmdGood, EntryLemma DEF NeedsEntry
  <2>7. \A c, d \in GoodCmds : <<c, d>> \o Reread \in Seq(GoodCmds) /\ <<c, d>> \o Reread # <<>>
    <3>1. \A c, d \in GoodCmds : <<c, d>> \in Seq(GoodCmds)
      OBVIOUS
    <3> QED
      BY <3>1, ThenReread
  <2> QED
    BY <1>p, <2>1, <2>2, <2>3, <2>4, <2>5, <2>6, <2>7 DEF EditCommands, EditOperations
<1>5. CASE view = "performance" /\ j.op \notin {"refresh", "poll"}
  <2>1. j.op \in PerformanceOperations /\ Commands(j) = PerformanceCommands(j)
    BY <1>a, <1>5 DEF Commands, Operations
  <2>2. /\ Cmd("add", 0, j.value) \in GoodCmds /\ Cmd("put", j.id, j.value) \in GoodCmds
        /\ Cmd("delete", j.id, None) \in GoodCmds
    BY <1>a, <1>b, <1>5, CmdGood
  <2>3. \A c \in GoodCmds : <<c>> \o Reread \in Seq(GoodCmds) /\ <<c>> \o Reread # <<>>
    BY <1>c, ThenReread
  <2>4. DisableEach \o Reread \in Seq(GoodCmds) /\ DisableEach \o Reread # <<>>
    BY <1>a, DisableEachGood, ThenReread
  <2>5. j.op = "activity" => Cmd("put", j.id, [mirror[j.id] EXCEPT !.on = j.value.on]) \in GoodCmds
    BY <1>a, <1>b, <1>5, CmdGood, EntryLemma DEF NeedsEntry
  <2> QED
    BY <1>p, <2>1, <2>2, <2>3, <2>4, <2>5 DEF PerformanceCommands, PerformanceOperations
<1> QED
  BY <1>a, <1>1, <1>2, <1>3, <1>4, <1>5 DEF ViewNames

LEMMA CleanupGood ==
  ASSUME NEW j, NEW c
  PROVE  Cleanup(j, c) \in Seq(GoodCmds)
BY RereadGood DEF Cleanup
-----------------------------------------------------------------------------
(***************************************************************************)
(* The queue, and the end of a job.                                         *)
(***************************************************************************)
LEMMA OperationsAreNamed ==
  ASSUME view \in ViewNames
  PROVE  "refresh" \notin Operations /\ "poll" \notin Operations /\ Dialogs \subseteq Operations
BY DEF ViewNames, Operations, Dialogs, ScriptOperations, WatchpointOperations, EditOperations,
       PerformanceOperations, ScriptDialogs, EditDialogs

LEMMA OwnJobs ==
  ASSUME view \in ViewNames, NEW op \in {"refresh", "poll"}, NEW sync \in BOOLEAN
  PROVE  Job(op, 0, None, 0, sync) \in GoodJobs /\ ~Rechecked(Job(op, 0, None, 0, sync))
BY OperationsAreNamed DEF Job, Jobs, GoodJobs, Rechecked

LEMMA QueueShrinks ==
  ASSUME NEW q, NEW s, QueueOK(q, s), q # <<>>
  PROVE  /\ QueueOK(Tail(q), s) /\ Len(Tail(q)) = Len(q) - 1 /\ Len(q) \in Nat
         /\ Head(q) \in GoodJobs /\ (Rechecked(Head(q)) => Head(q).asked = s)
<1>1. /\ Tail(q) \in Seq(GoodJobs) /\ Len(Tail(q)) = Len(q) - 1 /\ Head(q) \in GoodJobs
      /\ \A n \in 1..Len(Tail(q)) : Tail(q)[n] = q[n+1]
      /\ Len(q) \in Nat \ {0}
  BY HeadTailProperties, EmptySeq DEF QueueOK
<1>2. Head(q) = q[1]
  BY DEF QueueOK
<1>3. \A n \in 1..Len(Tail(q)) : n + 1 \in 1..Len(q)
  BY <1>1
<1> QED
  BY <1>1, <1>2, <1>3 DEF QueueOK

LEMMA QueueGrows ==
  ASSUME NEW q, NEW s, QueueOK(q, s), NEW j \in GoodJobs, Rechecked(j) => j.asked = s
  PROVE  QueueOK(Append(q, j), s) /\ Len(Append(q, j)) = Len(q) + 1 /\ Append(q, j) # <<>> /\ Len(q) \in Nat
<1>1. /\ Append(q, j) \in Seq(GoodJobs) /\ Len(Append(q, j)) = Len(q) + 1 /\ Len(q) \in Nat
      /\ \A n \in 1..Len(q) : Append(q, j)[n] = q[n]
      /\ Append(q, j)[Len(q) + 1] = j
  BY AppendProperties, LenProperties DEF QueueOK
<1>2. \A n \in 1..Len(Append(q, j)) : n \in 1..Len(q) \/ n = Len(q) + 1
  BY <1>1
<1> QED
  BY <1>1, <1>2, EmptySeq DEF QueueOK

\* A refresh that is joined keeps its place and what it is.
LEMMA QueueJoined ==
  ASSUME view \in ViewNames, NEW s, QueueOK(queue, s), NEW sync \in BOOLEAN, RequestRefresh(sync)
  PROVE  QueueOK(queue', s) /\ Len(queue') <= Len(queue) + 1 /\ queue' # <<>> /\ Len(queue) \in Nat
<1> DEFINE joined == {n \in 1..Len(queue) : queue[n].op = "refresh"}
<1>1. queue \in Seq(GoodJobs) /\ Len(queue) \in Nat
  BY LenProperties DEF QueueOK
<1>2. CASE view = "scripts" /\ joined # {}
  <2> DEFINE F(n) == IF n \in joined THEN [queue[n] EXCEPT !.sync = @ \/ sync] ELSE queue[n]
  <2>1. queue' = [n \in 1..Len(queue) |-> F(n)]
    BY <1>2 DEF RequestRefresh
  <2>2. \A n \in 1..Len(queue) : F(n) \in GoodJobs /\ (Rechecked(F(n)) => F(n).asked = s)
    <3> SUFFICES ASSUME NEW n \in 1..Len(queue)
                 PROVE  F(n) \in GoodJobs /\ (Rechecked(F(n)) => F(n).asked = s)
      OBVIOUS
    <3>1. queue[n] \in GoodJobs /\ (Rechecked(queue[n]) => queue[n].asked = s)
      BY <1>1 DEF QueueOK
    <3>2. CASE n \in joined
      <4>1. (queue[n].sync \/ sync) \in BOOLEAN
        OBVIOUS
      <4>2. /\ F(n) = [queue[n] EXCEPT !.sync = queue[n].sync \/ sync] /\ queue[n] \in Jobs
            /\ queue[n].op = "refresh"
        BY <3>1, <3>2 DEF GoodJobs
      <4>3. F(n) \in Jobs /\ F(n).op = "refresh"
        BY <4>1, <4>2 DEF Jobs
      <4> QED
        BY <4>3, OperationsAreNamed DEF GoodJobs, Rechecked
    <3>3. CASE n \notin joined
      BY <3>1, <3>3
    <3> QED
      BY <3>2, <3>3
  <2> HIDE DEF F
  <2>3. queue' \in Seq(GoodJobs) /\ Len(queue') = Len(queue) /\ \A n \in 1..Len(queue) : queue'[n] = F(n)
    BY <1>1, <2>1, <2>2
  <2>4. Len(queue) # 0
    BY <1>2
  <2>5. queue' # <<>>
    BY <2>3, <2>4, EmptySeq
  <2> QED
    BY <1>1, <2>2, <2>3, <2>5 DEF QueueOK
<1>3. CASE ~(view = "scripts" /\ joined # {})
  <2>1. queue' = Append(queue, Job("refresh", 0, None, 0, sync))
    BY <1>3 DEF RequestRefresh
  <2>2. Job("refresh", 0, None, 0, sync) \in GoodJobs /\ ~Rechecked(Job("refresh", 0, None, 0, sync))
    BY OwnJobs
  <2>3. QueueOK(queue', s) /\ Len(queue') = Len(queue) + 1 /\ queue' # <<>>
    BY <2>1, <2>2, QueueGrows
  <2> QED
    BY <1>1, <2>3
<1> QED
  BY <1>2, <1>3

\* The service of a behaviour does not change, nor what its panel can ask for.
LEMMA ViewStays ==
  ASSUME view' = view
  PROVE  /\ Operations' = Operations /\ Dialogs' = Dialogs /\ (Guarded' <=> Guarded)
         /\ GoodJobs' = GoodJobs /\ Messages' = Messages
<1>1. Operations' = Operations /\ Dialogs' = Dialogs /\ (Guarded' <=> Guarded)
  BY DEF Operations, Dialogs, Guarded
<1> QED
  BY <1>1 DEF Messages, GoodJobs, Jobs

LEMMA QueueStays ==
  ASSUME view' = view, QueueOK(queue', session')
  PROVE  QueueOK(queue, session)'
BY ViewStays DEF QueueOK, Rechecked

LEMMA ViewKnown == LinkOK => view \in ViewNames
BY CollectionsAssumption DEF LinkOK

\* When a job ends, whoever awaited it goes on: the panel polls while it may.
LEMMA JobEndsKeeps ==
  ASSUME ServiceInv, queue # <<>>, NEW ok \in BOOLEAN, JobEnds(ok), ok => supported,
         UNCHANGED <<view, session, up, supported, visible>>
  PROVE  JobOK' /\ PanelOK' /\ (Polls /\ up /\ visible => Polls')
<1> DEFINE j == Head(queue)
<1>0. /\ LinkOK /\ PanelOK /\ view \in ViewNames /\ QueueOK(queue, session)
      /\ running' = FALSE /\ failing' = FALSE /\ todo' = <<>> /\ wire' = "idle"
  BY ViewKnown DEF ServiceInv, PanelOK, JobEnds
<1>1. JobOK'
  BY <1>0, EmptySeq DEF JobOK, GoodCmds, Cmds
<1>2. QueueOK(Tail(queue), session) /\ Len(Tail(queue)) = Len(queue) - 1 /\ Len(queue) \in Nat /\ j \in GoodJobs
  BY <1>0, QueueShrinks
<1>3. j.sync \in BOOLEAN /\ j.op \in Operations \cup {"refresh", "poll"}
  BY <1>2 DEF GoodJobs, Jobs
<1>b. up \in BOOLEAN /\ supported \in BOOLEAN /\ visible \in BOOLEAN /\ (supported => up) /\ polling \in BOOLEAN
      /\ MaxQueue \in Nat /\ Len(queue) <= MaxQueue + 1
  BY <1>0, CollectionsAssumption DEF LinkOK, PanelOK
<1>u. up \/ ~Guarded
  BY <1>0 DEF PanelOK
<1>4. CASE Guarded /\ j.op = "refresh"
  <2> DEFINE fails == refreshing = "current" /\ ~ok
             enabled == visible /\ up /\ supported
  <2>0. DrainGoesOn(ok)
    BY <1>4 DEF JobEnds
  <2>1. CASE ~fails /\ again /\ enabled
    <3>1. /\ queue' = Append(Tail(queue), Job("refresh", 0, None, 0, FALSE))
          /\ refreshing' = "current" /\ again' = FALSE /\ UNCHANGED <<polling, waiting>>
          /\ banner' \in {banner, "ready"}
      BY <2>0, <2>1 DEF DrainGoesOn, Shows
    <3>2. QueueOK(queue', session) /\ Len(queue') = Len(queue)
      <4>1. Job("refresh", 0, None, 0, FALSE) \in GoodJobs /\ ~Rechecked(Job("refresh", 0, None, 0, FALSE))
        BY <1>0, OwnJobs
      <4>2. QueueOK(queue', session) /\ Len(queue') = Len(Tail(queue)) + 1
        BY <1>2, <3>1, <4>1, QueueGrows
      <4> QED
        BY <1>2, <4>2
    <3>3. QueueOK(queue, session)'
      BY <3>2, QueueStays
    <3>4. PanelOK'
      BY <1>0, <1>b, <2>1, <3>1, <3>2, <3>3 DEF PanelOK, Polls, Refreshing, Banners
    <3> QED
      BY <1>1, <3>1, <3>4 DEF Polls
  <2>2. CASE ~(~fails /\ again /\ enabled)
    <3>1. /\ refreshing' = "idle" /\ waiting' = {} /\ UNCHANGED again /\ queue' = Tail(queue)
          /\ polling' = (enabled /\ (polling \/ "poll" \in waiting \/ (~fails /\ "sync" \in waiting)))
          /\ banner' \in {banner, "ready", "error"}
      BY <2>0, <2>2 DEF DrainGoesOn, Shows
    <3>2. QueueOK(queue, session)'
      BY <1>2, <3>1, QueueStays
    <3>3. polling' \in BOOLEAN /\ (polling' => enabled) /\ (enabled /\ Polls => polling')
      <4>1. (enabled /\ (polling \/ "poll" \in waiting \/ (~fails /\ "sync" \in waiting))) \in BOOLEAN
        OBVIOUS
      <4> QED
        BY <3>1, <4>1 DEF Polls
    <3>4. PanelOK'
      BY <1>0, <1>b, <1>u, <1>2, <3>1, <3>2, <3>3, ViewStays DEF PanelOK, Polls, Refreshing, Banners
    <3> QED
      BY <1>0, <1>1, <3>3, <3>4 DEF Polls, PanelOK
  <2> QED
    BY <2>1, <2>2
<1>5. CASE ~(Guarded /\ j.op = "refresh")
  <2>1. /\ queue' = Tail(queue) /\ polling' = (polling \/ (ok /\ j.sync /\ visible))
        /\ banner' \in {banner, "ready", "error"} /\ UNCHANGED <<refreshing, again, waiting>>
    BY <1>5 DEF JobEnds, Shows
  <2>2. polling' \in BOOLEAN /\ (polling => polling') /\ (polling' => polling \/ (supported /\ visible))
    <3>1. (polling \/ (ok /\ j.sync /\ visible)) \in BOOLEAN
      OBVIOUS
    <3> QED
      BY <2>1, <3>1
  <2>3. QueueOK(queue, session)'
    BY <1>2, <2>1, QueueStays
  <2>4. PanelOK'
    BY <1>0, <1>b, <1>u, <1>2, <2>1, <2>2, <2>3, ViewStays DEF PanelOK, Polls, Refreshing, Banners
  <2> QED
    BY <1>1, <2>1, <2>2, <2>4 DEF Polls
<1> QED
  BY <1>4, <1>5

\* A job goes on with its next command, or ends.
LEMMA ContinueKeeps ==
  ASSUME ServiceInv, queue # <<>>, supported, NEW rest \in Seq(GoodCmds), NEW bad \in BOOLEAN,
         Continue(rest, bad), UNCHANGED <<view, session, up, supported, visible>>
  PROVE  JobOK' /\ PanelOK' /\ (Polls /\ up /\ visible => Polls')
<1>1. CASE rest # <<>>
  <2>1. /\ todo' = rest /\ failing' = bad /\ wire' = "sent" /\ running' = TRUE
        /\ UNCHANGED <<queue, polling, refreshing, again, waiting, banner>>
    BY <1>1 DEF Continue
  <2>2. JobOK'
    BY <1>1, <2>1, ViewStays DEF JobOK, GoodCmds, Cmds
  <2>3. PanelOK'
    BY <2>1, QueueStays, ViewStays DEF ServiceInv, PanelOK, Polls
  <2> QED
    BY <2>1, <2>2, <2>3 DEF Polls
<1>2. CASE rest = <<>>
  BY <1>2, JobEndsKeeps DEF Continue
<1> QED
  BY <1>1, <1>2

\* A request joins the refresh in flight, or queues one.
LEMMA RequestDrainKeeps ==
  ASSUME view \in ViewNames, NEW s, QueueOK(queue, s), NEW who, RequestDrain(who)
  PROVE  /\ QueueOK(queue', s) /\ Len(queue') <= Len(queue) + 1 /\ (queue # <<>> => queue' # <<>>)
         /\ waiting' = waiting \cup {who} /\ refreshing' \in {refreshing, "current"}
         /\ again' \in BOOLEAN /\ Len(queue) \in Nat
<1>1. Len(queue) \in Nat
  BY LenProperties DEF QueueOK
<1>2. CASE refreshing = "idle"
  <2>1. queue' = Append(queue, Job("refresh", 0, None, 0, FALSE))
    BY <1>2 DEF RequestDrain
  <2>2. Job("refresh", 0, None, 0, FALSE) \in GoodJobs /\ ~Rechecked(Job("refresh", 0, None, 0, FALSE))
    BY OwnJobs
  <2>3. QueueOK(queue', s) /\ Len(queue') = Len(queue) + 1 /\ queue' # <<>>
    BY <2>1, <2>2, QueueGrows
  <2>4. waiting' = waiting \cup {who} /\ refreshing' = "current" /\ again' = FALSE
    BY <1>2 DEF RequestDrain
  <2>5. Len(queue') <= Len(queue) + 1
    BY <1>1, <2>3
  <2>6. again' \in BOOLEAN /\ refreshing' \in {refreshing, "current"}
    BY <2>4
  <2> QED
    BY <1>1, <2>3, <2>4, <2>5, <2>6
<1>3. CASE refreshing # "idle"
  <2>1. waiting' = waiting \cup {who} /\ refreshing' = refreshing /\ queue' = queue /\ again' = TRUE
    BY <1>3 DEF RequestDrain
  <2> QED
    BY <1>1, <2>1
<1> QED
  BY <1>2, <1>3

\* A panel that hears of a session or is shown asks for a refresh, or stops.
LEMMA SyncSessionKeeps ==
  ASSUME view \in ViewNames, view' = view, QueueOK(queue, session'), Len(queue) <= MaxQueue,
         up' \in BOOLEAN, supported' \in BOOLEAN, visible' \in BOOLEAN,
         polling \in BOOLEAN, refreshing \in Refreshing, again \in BOOLEAN, waiting \subseteq {"sync", "poll"},
         banner \in Banners, SyncSession,
         ~visible' => ~Polls, ~up' /\ Guarded => queue = <<>>
  PROVE  /\ PanelOK' /\ (queue # <<>> => queue' # <<>>)
         /\ Polls /\ up' /\ visible' /\ supported' => Polls'
<1>b. Len(queue) \in Nat /\ MaxQueue \in Nat
  BY LenProperties, CollectionsAssumption DEF QueueOK
<1>1. CASE ~up' \/ (up' /\ visible' /\ ~supported')
  <2>1. /\ polling' = FALSE /\ refreshing' \in Refreshing /\ again' = FALSE /\ waiting' = waiting \ {"poll"}
        /\ UNCHANGED queue /\ banner' = (IF up' THEN "unsupported" ELSE "noSession")
    BY <1>1 DEF SyncSession, StopPolling, Shows, Refreshing
  <2>2. QueueOK(queue, session)'
    BY <2>1, QueueStays
  <2>3. ~Polls'
    BY <2>1 DEF Polls
  <2>4. (~up /\ Guarded => queue = <<>> /\ banner = "noSession")'
    BY <2>1, ViewStays
  <2>5. /\ (polling \in BOOLEAN /\ refreshing \in Refreshing /\ again \in BOOLEAN)'
        /\ (waiting \subseteq {"sync", "poll"} /\ banner \in Banners)'
    BY <2>1 DEF Banners, Refreshing
  <2>6. (Len(queue) <= MaxQueue + 1)'
    BY <1>b, <2>1
  <2>7. PanelOK'
    BY <2>2, <2>3, <2>4, <2>5, <2>6 DEF PanelOK
  <2> QED
    BY <1>1, <2>1, <2>7
<1>2. CASE up' /\ ~visible'
  <2>1. UNCHANGED <<polling, refreshing, again, waiting, banner, queue>>
    BY <1>2 DEF SyncSession
  <2>2. QueueOK(queue, session)'
    BY <2>1, QueueStays
  <2> QED
    BY <1>2, <1>b, <2>1, <2>2 DEF PanelOK, Polls, Refreshing, Banners
<1>3. CASE up' /\ visible' /\ supported'
  <2>1. banner' = "loading" /\ UNCHANGED polling
    BY <1>3 DEF SyncSession, Shows
  <2>2. /\ QueueOK(queue', session') /\ Len(queue') <= Len(queue) + 1 /\ (queue # <<>> => queue' # <<>>)
        /\ refreshing' \in Refreshing /\ again' \in BOOLEAN /\ waiting' \subseteq {"sync", "poll"}
        /\ waiting \subseteq waiting'
    <3>1. CASE Guarded
      <4>1. RequestDrain("sync")
        BY <1>3, <3>1 DEF SyncSession
      <4> QED
        <5>1. /\ QueueOK(queue', session') /\ Len(queue') <= Len(queue) + 1 /\ (queue # <<>> => queue' # <<>>)
              /\ waiting' = waiting \cup {"sync"} /\ refreshing' \in {refreshing, "current"} /\ again' \in BOOLEAN
          BY <4>1, RequestDrainKeeps
        <5> QED
          BY <5>1 DEF Refreshing
    <3>2. CASE ~Guarded
      <4>1. RequestRefresh(TRUE) /\ UNCHANGED <<refreshing, again, waiting>>
        BY <1>3, <3>2 DEF SyncSession
      <4> QED
        BY <4>1, QueueJoined
    <3> QED
      BY <3>1, <3>2
  <2>3. QueueOK(queue, session)'
    BY <2>2, QueueStays
  <2>4. Len(queue') \in Nat
    BY <2>2, LenProperties DEF QueueOK
  <2>5. PanelOK'
    BY <1>3, <1>b, <2>1, <2>2, <2>3, <2>4 DEF PanelOK, Polls, Banners, Refreshing
  <2> QED
    BY <2>1, <2>2, <2>5 DEF Polls
<1> QED
  BY <1>1, <1>2, <1>3
-----------------------------------------------------------------------------
(***************************************************************************)
(* The steps.  Each keeps the invariant, and a poll that is due stays due.   *)
(***************************************************************************)
GoesOn == Polls /\ up' /\ visible' => Polls'

\* What a step leaves alone stays as it was.
LEMMA LinkStays ==
  ASSUME LinkOK, UNCHANGED <<link, visible, coll, rev, overtaken, mirror, known, generation>>
  PROVE  LinkOK'
BY DEF LinkOK, link

LEMMA JobStays ==
  ASSUME JobOK, UNCHANGED <<running, failing, todo, wire, answer, supported>>, queue # <<>> => queue' # <<>>
  PROVE  JobOK'
BY DEF JobOK, GoodCmds, Cmds

LEMMA UserStays ==
  ASSUME UserOK, UNCHANGED <<view, session, up, generation, message, dialog>>
  PROVE  UserOK'
BY ViewStays DEF UserOK, Meant

LEMMA PanelStays ==
  ASSUME PanelOK, UNCHANGED <<view, session, up, supported, visible, queue, polling, refreshing, again, waiting, banner>>
  PROVE  PanelOK' /\ GoesOn
BY QueueStays, ViewStays DEF PanelOK, Polls, GoesOn

LEMMA BeginKeeps ==
  ASSUME ServiceInv, Begin
  PROVE  ServiceInv' /\ GoesOn
<1> DEFINE j == Head(queue)
<1>0. /\ queue # <<>> /\ UNCHANGED <<view, session, up, supported, visible, link, coll, rev, overtaken, mirror, known, generation, message, dialog>>
      /\ LinkOK /\ JobOK /\ PanelOK /\ UserOK
  BY DEF Begin, link, emulator, ServiceInv
<1>1. LinkOK' /\ UserOK'
  BY <1>0, LinkStays, UserStays
<1>2. j \in GoodJobs /\ supported \in BOOLEAN
  BY <1>0, QueueShrinks DEF PanelOK, LinkOK
<1>3. JobOK' /\ PanelOK' /\ GoesOn
  <2>1. CASE ~supported
    <3>1. JobEnds(FALSE)
      BY <2>1 DEF Begin
    <3> QED
      BY <1>0, <2>1, <3>1, JobEndsKeeps DEF GoesOn
  <2>2. CASE supported /\ NeedsEntry(j) /\ mirror[j.id] = None
    <3> DEFINE rest == Cleanup(j, Plain("entry"))
    <3>1. Continue(rest, TRUE)
      BY <2>2 DEF Begin
    <3>2. rest \in Seq(GoodCmds)
      BY CleanupGood
    <3> HIDE DEF rest
    <3> QED
      BY <1>0, <2>2, <3>1, <3>2, ContinueKeeps DEF GoesOn
  <2>3. CASE supported /\ ~(NeedsEntry(j) /\ mirror[j.id] = None)
    <3> DEFINE rest == Commands(j)
    <3>1. Continue(rest, FALSE)
      BY <2>3 DEF Begin
    <3>2. rest \in Seq(GoodCmds)
      BY <1>0, <1>2, <2>3, CommandsGood
    <3> HIDE DEF rest
    <3> QED
      BY <1>0, <2>3, <3>1, <3>2, ContinueKeeps DEF GoesOn
  <2> QED
    BY <1>2, <2>1, <2>2, <2>3
<1> QED
  BY <1>1, <1>3 DEF ServiceInv

LEMMA NotWhileRunningKeeps ==
  ASSUME ServiceInv, NotWhileRunning
  PROVE  ServiceInv' /\ GoesOn
<1>0. /\ queue # <<>> /\ JobEnds(FALSE)
      /\ UNCHANGED <<view, session, up, supported, visible, link, coll, rev, overtaken, mirror, known, generation, message, dialog>>
      /\ LinkOK /\ UserOK
  BY DEF NotWhileRunning, link, emulator, ServiceInv
<1>1. LinkOK' /\ UserOK'
  BY <1>0, LinkStays, UserStays
<1>2. JobOK' /\ PanelOK' /\ GoesOn
  BY <1>0, JobEndsKeeps DEF GoesOn
<1> QED
  BY <1>1, <1>2 DEF ServiceInv

\* What the emulator answers is a collection and a count, whatever it was asked.
LEMMA ExecutedTyped ==
  ASSUME coll \in Collection, NEW c \in GoodCmds
  PROVE  Executed(c) = None \/ Executed(c) \in Collection
<1>1. c \in Cmds /\ (c.kind \in {"add", "put"} => c.value \in Entry)
  BY DEF GoodCmds
<1>3. Empty \in Collection
  BY DEF Empty, Collection
<1>4. [i \in Ids |-> IF coll[i] = None THEN None ELSE Off(coll[i])] \in Collection
  BY EntryLemma DEF Collection
<1>5. CASE c.kind = "disable" /\ coll[c.id] # None
  <2>1. Executed(c) = [coll EXCEPT ![c.id] = Off(@)]
    BY <1>5 DEF Executed
  <2>2. CASE c.id \in Ids
    <3>1. Off(coll[c.id]) \in Entry
      BY <1>5, <2>2, EntryLemma DEF Collection
    <3> QED
      BY <2>1, <3>1 DEF Collection
  <2>3. CASE c.id \notin Ids
    BY <2>1, <2>3 DEF Collection
  <2> QED
    BY <2>2, <2>3
<1>6. CASE c.kind = "add"
  <2>1. Executed(c) \in {None, [coll EXCEPT ![Min(Free)] = c.value]}
    BY <1>6 DEF Executed
  <2> QED
    BY <1>1, <1>6, <2>1 DEF Collection
<1>7. CASE c.kind \in {"check", "getUpdates", "getAll"} \/ (c.kind = "touch" /\ coll[c.id] # None)
  <2>1. Executed(c) = coll
    BY <1>7 DEF Executed
  <2> QED
    BY <2>1
<1>8. CASE c.kind = "put" /\ (view = "edits" \/ coll[c.id] # None)
  <2>1. Executed(c) = [coll EXCEPT ![c.id] = c.value]
    BY <1>8 DEF Executed
  <2> QED
    BY <1>1, <1>8, <2>1 DEF Collection
<1>9. CASE c.kind \in {"delete", "restore"} /\ coll[c.id] # None
  <2>1. Executed(c) = [coll EXCEPT ![c.id] = None]
    BY <1>9 DEF Executed
  <2> QED
    BY <2>1 DEF Collection
<1>10. CASE c.kind = "deleteAll"
  <2>1. Executed(c) = Empty
    BY <1>10 DEF Executed
  <2> QED
    BY <1>3, <2>1
<1>11. CASE c.kind = "disableAll"
  <2>1. Executed(c) = [i \in Ids |-> IF coll[i] = None THEN None ELSE Off(coll[i])]
    BY <1>11 DEF Executed
  <2> QED
    BY <1>4, <2>1
<1>12. CASE \/ c.kind = "put" /\ ~(view = "edits" \/ coll[c.id] # None)
            \/ c.kind \in {"touch", "disable", "delete", "restore"} /\ coll[c.id] = None
  <2>1. Executed(c) = None
    BY <1>12 DEF Executed
  <2> QED
    BY <2>1
<1> QED
  BY <1>1, <1>5, <1>6, <1>7, <1>8, <1>9, <1>10, <1>11, <1>12 DEF Cmds

LEMMA AnswerKeeps ==
  ASSUME ServiceInv, wire = "sent", wire' = "answered", coll' \in Collection, rev' \in Nat, overtaken' \in BOOLEAN,
         NEW ok \in BOOLEAN, NEW c \in Collection, NEW i, answer' = Answer(ok, c, i),
         UNCHANGED <<mirror, known, generation, queue, running, todo, failing, panel, link>>
  PROVE  ServiceInv' /\ GoesOn
<1>0. /\ UNCHANGED <<view, session, up, supported, visible, polling, refreshing, again, waiting, message, dialog, banner>>
      /\ LinkOK /\ JobOK /\ PanelOK /\ UserOK
  BY DEF panel, link, ServiceInv
<1>1. LinkOK'
  BY <1>0 DEF LinkOK
<1>2. answer'.ok = ok /\ answer'.coll = c /\ answer'.rev = rev'
  BY DEF Answer
<1>3. JobOK'
  BY <1>0, <1>2 DEF JobOK, GoodCmds, Cmds
<1>4. PanelOK' /\ GoesOn
  BY <1>0, PanelStays
<1>5. UserOK'
  BY <1>0, UserStays
<1> QED
  BY <1>1, <1>3, <1>4, <1>5 DEF ServiceInv

\* The command on the wire is one of the job's.
LEMMA OnTheWire ==
  ASSUME ServiceInv, wire # "idle"
  PROVE  /\ todo # <<>> /\ Head(todo) \in GoodCmds /\ Head(todo) = todo[1] /\ running /\ supported /\ up /\ queue # <<>>
         /\ Tail(todo) \in Seq(GoodCmds) /\ Len(Tail(todo)) = Len(todo) - 1 /\ Len(todo) \in Nat \ {0}
         /\ \A n \in 1..Len(Tail(todo)) : n + 1 \in 1..Len(todo) /\ Tail(todo)[n] = todo[n + 1]
<1>1. /\ todo \in Seq(GoodCmds) /\ todo # <<>> /\ running /\ supported /\ up /\ queue # <<>>
  BY DEF ServiceInv, JobOK, LinkOK
<1>2. Tail(todo) \in Seq(GoodCmds) /\ Len(Tail(todo)) = Len(todo) - 1 /\ Head(todo) \in GoodCmds /\ Len(todo) \in Nat \ {0}
      /\ \A n \in 1..Len(Tail(todo)) : Tail(todo)[n] = todo[n+1]
  BY <1>1, HeadTailProperties, EmptySeq
<1>3. Head(todo) = todo[1]
  BY <1>1
<1>4. \A n \in 1..Len(Tail(todo)) : n + 1 \in 1..Len(todo)
  BY <1>2
<1> QED
  BY <1>1, <1>2, <1>3, <1>4

LEMMA ExecuteKeeps ==
  ASSUME ServiceInv, Execute
  PROVE  ServiceInv' /\ GoesOn
<1> DEFINE c == Head(todo)
           r == Executed(c)
<1>1. wire = "sent" /\ wire' = "answered"
      /\ UNCHANGED <<mirror, known, generation, queue, running, todo, failing, panel, link>>
  BY DEF Execute
<1>2. c \in GoodCmds /\ coll \in Collection /\ rev \in Nat /\ overtaken \in BOOLEAN
  BY <1>1, OnTheWire DEF ServiceInv, LinkOK
<1>3. r = None \/ r \in Collection
  BY <1>2, ExecutedTyped
<1>4. CASE r = None
  <2>1. coll' = coll /\ rev' = rev /\ overtaken' = overtaken /\ answer' = Answer(FALSE, coll, 0)
    BY <1>4 DEF Execute, emulator
  <2> QED
    BY <1>1, <1>2, <2>1, AnswerKeeps
<1>5. CASE r # None
  <2>1. /\ coll' = r /\ rev' = (IF Reads(c) THEN rev ELSE rev + 1)
        /\ overtaken' = (c.kind # "getAll" /\ (overtaken \/ (TakesCounterOver(c) /\ rev # known)))
        /\ answer' = Answer(TRUE, r, IF c.kind = "add" THEN Min(Free) ELSE c.id)
    BY <1>5 DEF Execute
  <2>2. r \in Collection /\ rev' \in Nat /\ overtaken' \in BOOLEAN
    BY <1>2, <1>3, <1>5, <2>1
  <2> HIDE DEF r
  <2> QED
    BY <1>1, <2>1, <2>2, AnswerKeeps
<1> QED
  BY <1>4, <1>5

LEMMA FailKeeps ==
  ASSUME ServiceInv, Fail
  PROVE  ServiceInv' /\ GoesOn
<1> DEFINE c == Head(todo)
<1>1. wire = "sent" /\ wire' = "answered" /\ answer' = Answer(FALSE, coll', 0)
      /\ UNCHANGED <<mirror, known, generation, queue, running, todo, failing, panel, link>>
  BY DEF Fail
<1>2. c \in GoodCmds /\ coll \in Collection /\ rev \in Nat /\ overtaken \in BOOLEAN
  BY <1>1, OnTheWire DEF ServiceInv, LinkOK
<1>3. coll' \in Collection /\ rev' \in Nat /\ overtaken' \in BOOLEAN
  <2>1. CASE UNCHANGED emulator
    BY <1>2, <2>1 DEF emulator
  <2>2. CASE Executed(c) # None /\ coll' = Executed(c) /\ rev' = rev + 1 /\ overtaken' = overtaken
    BY <1>2, <2>2, ExecutedTyped
  <2> QED
    BY <2>1, <2>2 DEF Fail
<1> QED
  BY <1>1, <1>3, AnswerKeeps

\* What an answer does to the mirror: it is a collection still.
LEMMA PublishTyped ==
  ASSUME mirror \in Collection, known \in Int, NEW j, NEW c, NEW a, Publish(j, c, a),
         a.coll \in Collection, a.rev \in Nat
  PROVE  mirror' \in Collection /\ known' \in Int
<1>1. mirror' \in {a.coll, [mirror EXCEPT ![a.id] = a.coll[a.id]], mirror} /\ known' \in {a.rev, known}
  BY DEF Publish
<1>2. [mirror EXCEPT ![a.id] = a.coll[a.id]] \in Collection
  <2>1. CASE a.id \in Ids
    BY <2>1 DEF Collection
  <2>2. CASE a.id \notin Ids
    BY <2>2 DEF Collection
  <2> QED
    BY <2>1, <2>2
<1> QED
  BY <1>1, <1>2

\* An answer that arrives: the commands it leaves to do, and how the job goes on with them.
LEMMA ReceiveGoesOn ==
  ASSUME ServiceInv, Receive
  PROVE  \E rest \in Seq(GoodCmds), bad \in BOOLEAN :
            /\ Continue(rest, bad)
            /\ \/ rest = <<>> \/ rest = Reread
               \/ answer.ok /\ rest = Tail(todo)
<1> DEFINE c == Head(todo)
           j == Head(queue)
           left == IF c.kind = "check" /\ known # answer.rev THEN Reread ELSE Tail(todo)
<1>0. wire = "answered" /\ failing \in BOOLEAN /\ answer.ok \in BOOLEAN
  BY DEF Receive, ServiceInv, JobOK
<1>1. <<>> \in Seq(GoodCmds) /\ Reread \in Seq(GoodCmds) /\ Tail(todo) \in Seq(GoodCmds)
  BY <1>0, OnTheWire, RereadGood, EmptySeq
<1>2. Cleanup(j, c) \in {<<>>, Reread}
  BY DEF Cleanup
<1>3. CASE ~answer.ok
  <2> DEFINE rest == IF failing THEN <<>> ELSE Cleanup(j, c)
  <2>1. Continue(rest, TRUE)
    BY <1>3 DEF Receive
  <2>2. rest \in {<<>>, Reread}
    BY <1>2
  <2> HIDE DEF rest
  <2> QED
    BY <1>1, <2>1, <2>2
<1>4. CASE answer.ok /\ left = <<>> /\ ~failing /\ ~Achieved(j)
  <2>1. Continue(Cleanup(j, c), TRUE)
    BY <1>4 DEF Receive
  <2> QED
    BY <1>1, <1>2, <2>1
<1>5. CASE answer.ok /\ ~(left = <<>> /\ ~failing /\ ~Achieved(j))
  <2>1. Continue(left, failing)
    BY <1>5 DEF Receive
  <2>2. left \in {Reread, Tail(todo)}
    OBVIOUS
  <2> HIDE DEF left
  <2> QED
    BY <1>0, <1>1, <1>5, <2>1, <2>2
<1> QED
  BY <1>0, <1>3, <1>4, <1>5

LEMMA ReceiveKeeps ==
  ASSUME ServiceInv, Receive
  PROVE  ServiceInv' /\ GoesOn
<1>1. /\ wire = "answered"
      /\ UNCHANGED <<generation, visible, message, dialog, coll, rev, overtaken, view, session, up, supported>>
      /\ LinkOK /\ JobOK /\ PanelOK /\ UserOK
  BY DEF Receive, emulator, link, ServiceInv
<1>2. supported /\ up /\ queue # <<>>
  BY <1>1, OnTheWire
<1>3. mirror' \in Collection /\ known' \in Int
  <2>1. CASE answer.ok
    <3>1. Publish(Head(queue), Head(todo), answer)
      BY <2>1 DEF Receive
    <3> QED
      BY <1>1, <3>1, PublishTyped DEF LinkOK, JobOK
  <2>2. CASE ~answer.ok
    BY <1>1, <2>2 DEF Receive, LinkOK
  <2> QED
    BY <2>1, <2>2
<1>4. LinkOK'
  BY <1>1, <1>2, <1>3 DEF LinkOK
<1>5. JobOK' /\ PanelOK' /\ (Polls /\ up /\ visible => Polls')
  <2>1. PICK rest \in Seq(GoodCmds) : \E bad \in BOOLEAN : Continue(rest, bad)
    BY ReceiveGoesOn
  <2> QED
    BY <1>1, <1>2, <2>1, ContinueKeeps
<1>6. UserOK'
  BY <1>1, UserStays
<1> QED
  BY <1>1, <1>4, <1>5, <1>6 DEF ServiceInv, GoesOn
-----------------------------------------------------------------------------
\* A message is made of the session in which the user saw what he changes.
LEMMA ClickKeeps ==
  ASSUME ServiceInv, Click
  PROVE  ServiceInv' /\ GoesOn
<1>1. /\ up
      /\ UNCHANGED <<mirror, known, generation, queue, running, todo, failing, wire, answer, visible, polling, refreshing,
                     again, waiting, dialog, banner, coll, rev, overtaken, link, view, session, up, supported>>
      /\ LinkOK /\ JobOK /\ PanelOK /\ UserOK
  BY DEF Click, service, emulator, link, ServiceInv
<1>2. PICK op \in Operations : \E i \in Ids, e \in Entry :
         message' = [op |-> op, id |-> i, value |-> e, generation |-> generation, asked |-> session]
  BY DEF Click
<1>3. PICK i \in Ids, e \in Entry :
         message' = [op |-> op, id |-> i, value |-> e, generation |-> generation, asked |-> session]
  BY <1>2
<1>4. generation \in Nat /\ session \in Nat
  BY <1>1 DEF LinkOK
<1>5. message' \in Messages
  BY <1>2, <1>3, <1>4 DEF Messages
<1>6. message'.generation = generation /\ message'.asked = session
  BY <1>3
<1>7. UserOK'
  <2>1. message' \in Messages' /\ Meant(message)'
    BY <1>1, <1>4, <1>5, <1>6, ViewStays DEF Meant
  <2>2. (dialog \subseteq {m \in Messages : m.op \in Dialogs} /\ \A d \in dialog : Meant(d))'
    BY <1>1, ViewStays DEF UserOK, Meant
  <2> QED
    BY <2>1, <2>2 DEF UserOK
<1> QED
  BY <1>1, <1>7, LinkStays, JobStays, PanelStays DEF ServiceInv

\* The message is handled: a job is queued, if the message is of this session.
LEMMA AskedJob ==
  ASSUME NEW m \in Messages, view \in ViewNames, RunOperation(m), QueueOK(queue, session),
         Len(queue) <= MaxQueue, Guarded \/ m.op \notin Dialogs => m.asked = session, banner \in Banners
  PROVE  QueueOK(queue', session) /\ Len(queue') <= MaxQueue + 1 /\ queue' # <<>> /\ banner' \in Banners
<1> DEFINE j == Job(m.op, m.id, m.value, m.asked, FALSE)
<1>1. queue' = Append(queue, j) /\ banner' \in {banner, "loading"}
  BY DEF RunOperation, Shows
<1>2. j \in GoodJobs
  BY DEF Job, GoodJobs, Jobs, Messages
<1>3. j.op = m.op /\ j.asked = m.asked
  BY DEF Job
<1>4. Rechecked(j) => j.asked = session
  BY <1>3 DEF Rechecked
<1> HIDE DEF j
<1>5. QueueOK(queue', session) /\ Len(queue') = Len(queue) + 1 /\ queue' # <<>> /\ Len(queue) \in Nat
  BY <1>1, <1>2, <1>4, QueueGrows
<1>6. MaxQueue \in Nat
  BY CollectionsAssumption
<1> QED
  BY <1>1, <1>5, <1>6 DEF Banners

LEMMA PanelAsked ==
  ASSUME PanelOK, QueueOK(queue', session), Len(queue') <= MaxQueue + 1, banner' \in Banners, up \/ ~Guarded,
         UNCHANGED <<view, session, up, supported, visible, polling, refreshing, again, waiting>>
  PROVE  PanelOK' /\ GoesOn
<1>1. QueueOK(queue, session)'
  BY QueueStays
<1>2. (~up /\ Guarded => queue = <<>> /\ banner = "noSession")'
  BY ViewStays
<1>3. Polls' = Polls
  BY DEF Polls
<1> QED
  BY <1>1, <1>2, <1>3 DEF PanelOK, GoesOn, Refreshing, Banners

LEMMA HandleMessageKeeps ==
  ASSUME ServiceInv, HandleMessage
  PROVE  ServiceInv' /\ GoesOn
<1>1. /\ message # None /\ message' = None /\ Len(queue) < MaxQueue
      /\ UNCHANGED <<mirror, known, generation, running, todo, failing, wire, answer, visible, polling, refreshing,
                     again, waiting, coll, rev, overtaken, link, view, session, up, supported>>
      /\ LinkOK /\ JobOK /\ PanelOK /\ UserOK /\ view \in ViewNames
  BY ViewKnown DEF HandleMessage, Room, emulator, link, ServiceInv
<1>2. message \in Messages /\ Meant(message)
  BY <1>1 DEF UserOK
<1>p. QueueOK(queue, session) /\ banner \in Banners /\ Len(queue) \in Nat /\ MaxQueue \in Nat
  BY <1>1, CollectionsAssumption, LenProperties DEF PanelOK, QueueOK
<1>3. LinkOK'
  BY <1>1, LinkStays
<1>4. dialog' \in {dialog, dialog \cup {message}} /\ (dialog' # dialog => message.op \in Dialogs)
  BY DEF HandleMessage
<1>5. UserOK'
  <2>1. \A m : Meant(m)' = Meant(m)
    BY <1>1 DEF Meant
  <2>2. dialog' \subseteq {m \in Messages : m.op \in Dialogs} /\ \A d \in dialog' : Meant(d)
    BY <1>1, <1>2, <1>4 DEF UserOK
  <2> QED
    BY <1>1, <2>1, <2>2, ViewStays DEF UserOK
<1>6. JobOK' /\ PanelOK' /\ GoesOn
  <2>1. CASE UNCHANGED <<queue, banner>>
    BY <1>1, <2>1, JobStays, PanelStays
  <2>2. CASE message.generation = generation /\ Shows("error") /\ UNCHANGED queue
    <3>1. up /\ banner' = "error"
      BY <1>2, <2>2 DEF Meant, Shows
    <3>2. PanelOK' /\ GoesOn
      BY <1>1, <1>p, <2>2, <3>1, PanelAsked DEF Banners
    <3> QED
      BY <1>1, <2>2, <3>2, JobStays
  <2>3. CASE message.generation = generation /\ RunOperation(Input(message))
             /\ (view = "scripts" /\ message.op = "activity" => mirror[message.id] # None)
    <3>1. up /\ message.asked = session
      BY <1>2, <2>3 DEF Meant
    <3>2. Input(message) \in Messages /\ Input(message).asked = session
      <4>1. CASE view = "scripts" /\ message.op = "activity"
        <5>1. mirror[message.id] \in Entry /\ message.value.on \in BOOLEAN
          BY <1>1, <1>2, <2>3, <4>1, EntryLemma DEF LinkOK, Collection, Messages
        <5>2. [mirror[message.id] EXCEPT !.on = message.value.on] \in Entry
          BY <5>1, EntryLemma
        <5>3. Input(message) = [message EXCEPT !.value = [mirror[message.id] EXCEPT !.on = message.value.on]]
          BY <4>1 DEF Input
        <5> QED
          BY <1>2, <3>1, <5>2, <5>3 DEF Messages
      <4>2. CASE ~(view = "scripts" /\ message.op = "activity")
        BY <1>2, <3>1, <4>2 DEF Input
      <4> QED
        BY <4>1, <4>2
    <3>3. QueueOK(queue', session) /\ Len(queue') <= MaxQueue + 1 /\ queue' # <<>> /\ banner' \in Banners
      BY <1>1, <1>p, <2>3, <3>2, AskedJob
    <3>4. PanelOK' /\ GoesOn
      BY <1>1, <3>1, <3>3, PanelAsked
    <3> QED
      BY <1>1, <3>3, <3>4, JobStays
  <2> QED
    BY <1>1, <2>1, <2>2, <2>3 DEF HandleMessage
<1> QED
  BY <1>3, <1>5, <1>6 DEF ServiceInv

LEMMA ConfirmKeeps ==
  ASSUME ServiceInv, Confirm
  PROVE  ServiceInv' /\ GoesOn
<1>1. /\ Len(queue) < MaxQueue
      /\ UNCHANGED <<mirror, known, generation, running, todo, failing, wire, answer, visible, polling, refreshing,
                     again, waiting, message, coll, rev, overtaken, link, view, session, up, supported>>
      /\ LinkOK /\ JobOK /\ PanelOK /\ UserOK /\ view \in ViewNames
  BY ViewKnown DEF Confirm, Room, emulator, link, ServiceInv
<1>2. PICK d \in dialog : /\ dialog' = dialog \ {d}
                          /\ IF Guarded => d.generation = generation THEN RunOperation(d) ELSE UNCHANGED <<queue, banner>>
  BY DEF Confirm
<1>3. d \in Messages /\ Meant(d) /\ d.op \in Dialogs
  BY <1>1 DEF UserOK
<1>p. QueueOK(queue, session) /\ banner \in Banners /\ Len(queue) \in Nat /\ MaxQueue \in Nat
  BY <1>1, CollectionsAssumption, LenProperties DEF PanelOK, QueueOK
<1>4. LinkOK'
  BY <1>1, LinkStays
<1>5. UserOK'
  <2>1. \A m : Meant(m)' = Meant(m)
    BY <1>1 DEF Meant
  <2> QED
    BY <1>1, <1>2, <2>1, ViewStays DEF UserOK
<1>6. JobOK' /\ PanelOK' /\ GoesOn
  <2>1. CASE UNCHANGED <<queue, banner>>
    BY <1>1, <2>1, JobStays, PanelStays
  <2>2. CASE (Guarded => d.generation = generation) /\ RunOperation(d)
    <3>1. up \/ ~Guarded
      BY <1>3, <2>2 DEF Meant
    <3>2. Guarded \/ d.op \notin Dialogs => d.asked = session
      BY <1>3, <2>2 DEF Meant
    <3>3. QueueOK(queue', session) /\ Len(queue') <= MaxQueue + 1 /\ queue' # <<>> /\ banner' \in Banners
      BY <1>1, <1>p, <1>3, <2>2, <3>2, AskedJob
    <3>4. PanelOK' /\ GoesOn
      BY <1>1, <3>1, <3>3, PanelAsked
    <3> QED
      BY <1>1, <3>3, <3>4, JobStays
  <2> QED
    BY <1>2, <2>1, <2>2
<1> QED
  BY <1>4, <1>5, <1>6 DEF ServiceInv

\* The timer of a guarded panel is spent, and its poll waits for the drain instead.
LEMMA PollKeeps ==
  ASSUME ServiceInv, Poll
  PROVE  ServiceInv' /\ GoesOn
<1>1. /\ polling /\ Len(queue) < MaxQueue
      /\ UNCHANGED <<mirror, known, generation, running, todo, failing, wire, answer, visible, message, dialog,
                     banner, coll, rev, overtaken, link, view, session, up, supported>>
      /\ LinkOK /\ JobOK /\ PanelOK /\ UserOK /\ view \in ViewNames
  BY ViewKnown DEF Poll, Room, emulator, link, ServiceInv
<1>2. LinkOK' /\ UserOK'
  BY <1>1, LinkStays, UserStays
<1>p. /\ QueueOK(queue, session) /\ Len(queue) \in Nat /\ MaxQueue \in Nat
      /\ visible /\ up /\ supported
  BY <1>1, CollectionsAssumption, LenProperties DEF PanelOK, QueueOK, Polls
<1>3. CASE Guarded
  <2>1. polling' = FALSE /\ RequestDrain("poll")
    BY <1>3 DEF Poll
  <2>2. /\ QueueOK(queue', session) /\ Len(queue') <= Len(queue) + 1 /\ (queue # <<>> => queue' # <<>>)
        /\ waiting' = waiting \cup {"poll"} /\ refreshing' \in {refreshing, "current"} /\ again' \in BOOLEAN
    BY <1>1, <1>p, <2>1, RequestDrainKeeps
  <2>3. Len(queue') \in Nat
    BY <2>2, LenProperties DEF QueueOK
  <2>4. QueueOK(queue, session)' /\ Len(queue') <= MaxQueue + 1
    BY <1>1, <1>p, <2>2, <2>3, QueueStays
  <2>5. PanelOK' /\ GoesOn
    BY <1>1, <1>p, <2>1, <2>2, <2>4 DEF PanelOK, GoesOn, Polls, Refreshing, Banners
  <2> QED
    BY <1>1, <1>2, <2>2, <2>5, JobStays DEF ServiceInv
<1>4. CASE ~Guarded
  <2>1. queue' = Append(queue, Job("poll", 0, None, 0, FALSE)) /\ UNCHANGED <<polling, refreshing, again, waiting>>
    BY <1>4 DEF Poll
  <2>2. Job("poll", 0, None, 0, FALSE) \in GoodJobs /\ ~Rechecked(Job("poll", 0, None, 0, FALSE))
    BY <1>1, OwnJobs
  <2>3. QueueOK(queue', session) /\ Len(queue') = Len(queue) + 1 /\ queue' # <<>>
    BY <1>p, <2>1, <2>2, QueueGrows
  <2>4. Len(queue') <= MaxQueue + 1 /\ banner' \in Banners
    BY <1>1, <1>p, <2>3 DEF PanelOK
  <2>5. PanelOK' /\ GoesOn
    BY <1>1, <1>p, <2>1, <2>3, <2>4, PanelAsked
  <2> QED
    BY <1>1, <1>2, <2>3, <2>5, JobStays DEF ServiceInv
<1> QED
  BY <1>3, <1>4
-----------------------------------------------------------------------------
\* A step that synchronises the panel with a session that stays.
LEMMA SyncKeeps ==
  ASSUME ServiceInv, SyncSession, Len(queue) < MaxQueue, visible' \in BOOLEAN, ~visible' => ~visible,
         UNCHANGED <<mirror, known, generation, running, todo, failing, wire, answer, message, dialog,
                     coll, rev, overtaken, view, session, up, supported>>
  PROVE  JobOK' /\ PanelOK' /\ (visible' = visible => GoesOn)
<1>1. LinkOK /\ JobOK /\ PanelOK /\ view \in ViewNames
  BY ViewKnown DEF ServiceInv
<1>2. Len(queue) \in Nat /\ MaxQueue \in Nat
  BY <1>1, CollectionsAssumption, LenProperties DEF PanelOK, QueueOK
<1>3. up' \in BOOLEAN /\ supported' \in BOOLEAN /\ QueueOK(queue, session') /\ Len(queue) <= MaxQueue
  BY <1>1, <1>2 DEF LinkOK, PanelOK
<1>4. /\ polling \in BOOLEAN /\ refreshing \in Refreshing /\ again \in BOOLEAN /\ waiting \subseteq {"sync", "poll"}
      /\ banner \in Banners /\ (~visible' => ~Polls) /\ (~up' /\ Guarded => queue = <<>>)
      /\ (Polls => visible /\ up /\ supported)
  BY <1>1 DEF PanelOK
<1>5. PanelOK' /\ (queue # <<>> => queue' # <<>>) /\ (Polls /\ up' /\ visible' /\ supported' => Polls')
  BY <1>1, <1>3, <1>4, SyncSessionKeeps
<1>6. JobOK'
  BY <1>1, <1>5, JobStays
<1> QED
  BY <1>4, <1>5, <1>6 DEF GoesOn

LEMMA ShowOrHideKeeps ==
  ASSUME ServiceInv, ShowOrHide
  PROVE  ServiceInv' /\ GoesOn
<1>1. /\ visible' = ~visible /\ Len(queue) < MaxQueue
      /\ UNCHANGED <<mirror, known, generation, running, todo, failing, wire, answer, message, dialog,
                     coll, rev, overtaken, view, session, up, supported>>
      /\ LinkOK /\ JobOK /\ PanelOK /\ UserOK /\ visible \in BOOLEAN
  BY DEF ShowOrHide, Room, emulator, link, ServiceInv, LinkOK
<1>2. LinkOK' /\ UserOK' /\ visible' \in BOOLEAN
  <2>1. visible' \in BOOLEAN
    BY <1>1
  <2> QED
    BY <1>1, <2>1, UserStays DEF LinkOK
<1>3. CASE visible'
  <2>1. SyncSession
    BY <1>3 DEF ShowOrHide
  <2>2. JobOK' /\ PanelOK'
    BY <1>1, <1>2, <1>3, <2>1, SyncKeeps
  <2>3. ~Polls
    BY <1>1, <1>3 DEF PanelOK
  <2> QED
    BY <1>2, <2>2, <2>3 DEF ServiceInv, GoesOn
<1>4. CASE ~visible'
  <2>1. /\ polling' = FALSE /\ refreshing' = (IF refreshing = "current" THEN "stale" ELSE refreshing)
        /\ again' = FALSE /\ waiting' = waiting \ {"poll"} /\ UNCHANGED <<banner, queue>>
    BY <1>4 DEF ShowOrHide, StopPolling
  <2>2. QueueOK(queue, session)' /\ ~Polls'
    <3>1. QueueOK(queue', session')
      BY <1>1, <2>1 DEF PanelOK
    <3> QED
      BY <1>1, <2>1, <3>1, QueueStays DEF Polls
  <2>3. (~up /\ Guarded => queue = <<>> /\ banner = "noSession")'
    BY <1>1, <2>1, ViewStays DEF PanelOK
  <2>4. PanelOK'
    BY <1>1, <2>1, <2>2, <2>3 DEF PanelOK, Refreshing, Banners
  <2> QED
    BY <1>1, <1>2, <1>4, <2>1, <2>4, JobStays DEF ServiceInv, GoesOn
<1> QED
  BY <1>3, <1>4

LEMMA StateChangedKeeps ==
  ASSUME ServiceInv, StateChanged
  PROVE  ServiceInv' /\ GoesOn
<1>1. /\ visible' = visible /\ Len(queue) < MaxQueue /\ SyncSession
      /\ UNCHANGED <<mirror, known, generation, running, todo, failing, wire, answer, message, dialog,
                     coll, rev, overtaken, view, session, up, supported, link>>
      /\ LinkOK /\ UserOK /\ visible \in BOOLEAN
  BY DEF StateChanged, Room, emulator, link, ServiceInv, LinkOK
<1>2. LinkOK' /\ UserOK'
  BY <1>1, LinkStays, UserStays
<1>3. JobOK' /\ PanelOK' /\ GoesOn
  BY <1>1, SyncKeeps
<1> QED
  BY <1>2, <1>3 DEF ServiceInv

\* What a collection can be filled with exists, switched on or off.
LEMMA EntriesExist == (CHOOSE e \in Entry : e.on) \in Entry /\ (CHOOSE e \in Entry : ~e.on) \in Entry
<1>1. PICK t \in Texts : TRUE
  BY CollectionsAssumption
<1>2. [text |-> t, on |-> TRUE] \in Entry /\ [text |-> t, on |-> FALSE] \in Entry
  BY DEF Entry
<1>3. (\E e \in Entry : e.on) /\ (\E e \in Entry : ~e.on)
  BY <1>2
<1> QED
  BY <1>3

LEMMA SessionOpensKeeps ==
  ASSUME ServiceInv, SessionOpens, running \/ queue = <<>>
  PROVE  ServiceInv' /\ GoesOn
<1>1. /\ ~up /\ up' = TRUE /\ session' = session + 1 /\ supported' \in BOOLEAN /\ rev' = 0 /\ ~overtaken' /\ overtaken' \in BOOLEAN
      /\ SyncSession
      /\ generation' = (IF Guarded THEN generation + 1 ELSE generation)
      /\ UNCHANGED <<view, visible, mirror, known, running, todo, failing, wire, answer, message, dialog>>
      /\ LinkOK /\ JobOK /\ PanelOK /\ UserOK /\ view \in ViewNames
  BY ViewKnown DEF SessionOpens, ServiceInv
<1>2. ~supported /\ ~running /\ queue = <<>> /\ ~Polls
  BY <1>1 DEF LinkOK, JobOK, PanelOK
<1>3. coll' \in Collection
  <2>1. PICK S \in {{}, Ids} : coll' = [i \in Ids |-> IF i \in S THEN CHOOSE e \in Entry : e.on ELSE None]
    BY DEF SessionOpens
  <2> DEFINE full == CHOOSE e \in Entry : e.on
  <2>2. full \in Entry
    BY EntriesExist
  <2> HIDE DEF full
  <2> QED
    BY <2>1, <2>2 DEF Collection
<1>4. LinkOK'
  BY <1>1, <1>3 DEF LinkOK
<1>5. JobOK'
  BY <1>1, <1>2 DEF JobOK, GoodCmds, Cmds
<1>6. PanelOK'
  <2>1. QueueOK(queue, session') /\ Len(queue) = 0
    BY <1>2, EmptySeq DEF QueueOK
  <2>2. /\ polling \in BOOLEAN /\ refreshing \in Refreshing /\ again \in BOOLEAN /\ waiting \subseteq {"sync", "poll"}
        /\ banner \in Banners /\ visible' \in BOOLEAN /\ MaxQueue \in Nat
    BY <1>1, CollectionsAssumption DEF PanelOK, LinkOK
  <2> QED
    BY <1>1, <1>2, <2>1, <2>2, SyncSessionKeeps
<1>7. UserOK'
  <2>1. \A m \in Messages : Meant(m) => Meant(m)'
    BY <1>1 DEF Meant, Messages, LinkOK
  <2> QED
    BY <1>1, <2>1, ViewStays DEF UserOK
<1> QED
  BY <1>2, <1>4, <1>5, <1>6, <1>7 DEF ServiceInv, GoesOn

LEMMA NothingKnown == Empty \in Collection /\ -1 \in Int
BY DEF Empty, Collection

LEMMA SessionLostKeeps ==
  ASSUME ServiceInv, SessionLost
  PROVE  ServiceInv' /\ GoesOn
<1>1. /\ up' = FALSE /\ supported' = FALSE /\ generation' = generation + 1 /\ mirror' = Empty /\ known' = -1
      /\ queue' = <<>> /\ running' = FALSE /\ todo' = <<>> /\ failing' = FALSE /\ wire' = "idle"
      /\ polling' = FALSE /\ refreshing' = "idle" /\ again' = FALSE /\ waiting' = {}
      /\ banner' = (IF Counted /\ queue # <<>> THEN "error" ELSE "noSession")
      /\ UNCHANGED <<view, session, visible, message, dialog, coll, rev, overtaken>>
      /\ LinkOK /\ UserOK
  BY DEF SessionLost, Shows, emulator, ServiceInv
<1>2. LinkOK'
  <2>1. (view \in Views /\ session \in Nat /\ visible \in BOOLEAN /\ coll \in Collection /\ rev \in Nat
         /\ overtaken \in BOOLEAN)'
    BY <1>1 DEF LinkOK
  <2>2. (mirror \in Collection /\ known \in Int /\ known = -1 /\ mirror = Empty)'
    BY <1>1, NothingKnown
  <2>3. (up \in BOOLEAN /\ supported \in BOOLEAN /\ ~supported)'
    BY <1>1
  <2>4. generation' \in Nat
    BY <1>1 DEF LinkOK
  <2> QED
    BY <2>1, <2>2, <2>3, <2>4 DEF LinkOK
<1>3. JobOK'
  BY <1>1, EmptySeq DEF JobOK, GoodCmds, Cmds
<1>4. PanelOK'
  <2>1. QueueOK(<<>>, session) /\ MaxQueue \in Nat /\ Len(<<>>) = 0
    BY EmptySeq, CollectionsAssumption DEF QueueOK
  <2>2. QueueOK(queue, session)'
    BY <1>1, <2>1, QueueStays
  <2>3. (Guarded => banner = "noSession")' /\ banner' \in Banners
    BY <1>1, ViewStays DEF Counted, Banners
  <2>4. /\ (polling \in BOOLEAN /\ refreshing \in Refreshing /\ again \in BOOLEAN)'
        /\ (waiting \subseteq {"sync", "poll"} /\ ~Polls)'
    BY <1>1 DEF Refreshing, Polls
  <2>5. (Len(queue) <= MaxQueue + 1)'
    BY <1>1, <2>1
  <2> QED
    BY <1>1, <2>2, <2>3, <2>4, <2>5 DEF PanelOK
<1>5. UserOK'
  <2>1. \A m \in Messages : Meant(m) => Meant(m)'
    BY <1>1 DEF Meant, Messages, LinkOK
  <2> QED
    BY <1>1, <2>1, ViewStays DEF UserOK
<1> QED
  BY <1>1, <1>2, <1>3, <1>4, <1>5 DEF ServiceInv, GoesOn

LEMMA OthersChangeKeeps ==
  ASSUME ServiceInv, OthersChange
  PROVE  ServiceInv' /\ GoesOn
<1>1. /\ up /\ rev' = rev + 1 /\ overtaken' \in BOOLEAN /\ LinkOK /\ JobOK /\ PanelOK /\ UserOK
      /\ UNCHANGED <<mirror, known, generation, queue, running, todo, failing, wire, answer, visible, polling, refreshing,
                     again, waiting, message, dialog, banner, view, session, up, supported>>
  BY DEF OthersChange, service, panel, link, ServiceInv
<1>2. coll' \in Collection
  <2> DEFINE off == CHOOSE x \in Entry : ~x.on
  <2>1. off \in Entry
    BY EntriesExist
  <2> HIDE DEF off
  <2>2. PICK i \in Ids : \E e \in {None, off} : coll' = [coll EXCEPT ![i] = e]
    BY DEF OthersChange, off
  <2> QED
    BY <1>1, <2>1, <2>2 DEF LinkOK, Collection
<1>3. LinkOK'
  BY <1>1, <1>2 DEF LinkOK
<1> QED
  BY <1>1, <1>3, JobStays, PanelStays, UserStays DEF ServiceInv
-----------------------------------------------------------------------------
LEMMA InitGood == Init => ServiceInv
<1> SUFFICES ASSUME Init PROVE ServiceInv
  OBVIOUS
<1>1. LinkOK
  BY NothingKnown DEF Init, LinkOK
<1>2. JobOK
  BY EmptySeq DEF Init, JobOK
<1>3. PanelOK
  <2>1. QueueOK(<<>>, session) /\ MaxQueue \in Nat /\ Len(<<>>) = 0
    BY EmptySeq, CollectionsAssumption DEF QueueOK
  <2>2. QueueOK(queue, session) /\ Len(queue) <= MaxQueue + 1
    BY <2>1 DEF Init
  <2>3. /\ polling \in BOOLEAN /\ refreshing \in Refreshing /\ again \in BOOLEAN
        /\ waiting \subseteq {"sync", "poll"} /\ ~Polls
    BY DEF Init, Refreshing, Polls
  <2>4. queue = <<>> /\ banner = "noSession" /\ banner \in Banners
    BY DEF Init, Banners
  <2> QED
    BY <2>2, <2>3, <2>4 DEF PanelOK
<1>4. UserOK
  BY DEF Init, UserOK
<1> QED
  BY <1>1, <1>2, <1>3, <1>4 DEF ServiceInv

LEMMA StutterKeeps ==
  ASSUME ServiceInv, UNCHANGED vars
  PROVE  ServiceInv' /\ GoesOn
<1>1. /\ UNCHANGED <<mirror, known, generation, queue, running, todo, failing, wire, answer, visible, polling, refreshing,
                     again, waiting, message, dialog, banner, coll, rev, overtaken, link, view, session, up, supported>>
      /\ LinkOK /\ JobOK /\ PanelOK /\ UserOK
  BY DEF vars, service, panel, emulator, link, ServiceInv
<1> QED
  BY <1>1, LinkStays, JobStays, PanelStays, UserStays DEF ServiceInv

LEMMA StepKeeps ==
  ASSUME ServiceInv, [Next]_vars
  PROVE  ServiceInv' /\ GoesOn
<1>1. CASE Begin
  BY <1>1, BeginKeeps
<1>2. CASE NotWhileRunning
  BY <1>2, NotWhileRunningKeeps
<1>3. CASE Execute
  BY <1>3, ExecuteKeeps
<1>4. CASE Fail
  BY <1>4, FailKeeps
<1>5. CASE Receive
  BY <1>5, ReceiveKeeps
<1>6. CASE Click
  BY <1>6, ClickKeeps
<1>7. CASE HandleMessage
  BY <1>7, HandleMessageKeeps
<1>8. CASE Confirm
  BY <1>8, ConfirmKeeps
<1>9. CASE Poll
  BY <1>9, PollKeeps
<1>10. CASE ShowOrHide
  BY <1>10, ShowOrHideKeeps
<1>11. CASE StateChanged
  BY <1>11, StateChangedKeeps
<1>12. CASE SessionOpens /\ (running \/ queue = <<>>)
  BY <1>12, SessionOpensKeeps
<1>13. CASE SessionLost
  BY <1>13, SessionLostKeeps
<1>14. CASE OthersChange
  BY <1>14, OthersChangeKeeps
<1>15. CASE UNCHANGED vars
  BY <1>15, StutterKeeps
<1> QED
  BY <1>1, <1>2, <1>3, <1>4, <1>5, <1>6, <1>7, <1>8, <1>9, <1>10, <1>11, <1>12, <1>13, <1>14, <1>15 DEF Next

LEMMA ServiceIsSound == Spec => []ServiceInv
<1>1. ServiceInv /\ [Next]_vars => ServiceInv'
  BY StepKeeps
<1> QED
  BY InitGood, <1>1, PTL DEF Spec

(* Whatever fails, a panel that polls goes on polling while it is visible    *)
(* and its session lasts: no path through an answer, a failed refresh or a   *)
(* message loses the timer and the poll that would set it again (the panels' *)
(* refreshIfChanged timers and RefreshController.request).                   *)
THEOREM APollIsNeverLost == Spec => PollingGoesOn
<1>1. ServiceInv /\ [Next]_vars => [Polls /\ up' /\ visible' => Polls']_vars
  BY StepKeeps DEF GoesOn
<1> QED
  BY <1>1, ServiceIsSound, PTL DEF Spec, PollingGoesOn

(* A change goes to the session in which the user asked for it, or to none:  *)
(* a message of an earlier snapshot is dropped (its generation), a queue is   *)
(* emptied with its session, and the guarded panels ask again after their    *)
(* dialogs.                                                                 *)
THEOREM ChangesReachTheirSession == Spec => AskedHere
<1>1. ServiceInv => \A op \in Operations :
         wire = "sent" /\ wire' # "sent" /\ Head(queue).op = op /\ (Guarded \/ op \notin Dialogs) => Head(queue).asked = session
  <2> SUFFICES ASSUME ServiceInv, NEW op \in Operations, wire = "sent", Head(queue).op = op, Guarded \/ op \notin Dialogs
               PROVE  Head(queue).asked = session
    OBVIOUS
  <2>1. queue # <<>> /\ QueueOK(queue, session)
    BY OnTheWire DEF ServiceInv, PanelOK
  <2>2. Rechecked(Head(queue)) => Head(queue).asked = session
    BY <2>1, QueueShrinks
  <2> QED
    BY <2>2 DEF Rechecked
<1>2. ServiceInv /\ [Next]_vars =>
        [\A op \in Operations : wire = "sent" /\ wire' # "sent" /\ Head(queue).op = op
            /\ (Guarded \/ op \notin Dialogs) => Head(queue).asked = session]_vars
  BY <1>1
<1> QED
  BY <1>2, ServiceIsSound, PTL DEF Spec, AskedHere
-----------------------------------------------------------------------------
(***************************************************************************)
(* A counter vouches for its mirror, but for what has been overtaken.       *)
(***************************************************************************)
\* A job of the watchpoints asks for the counter right after the list, one of the scripts
\* not at all.
Orderly(s) ==
    \A n \in 1..Len(s) :
        s[n].kind = "getUpdates" => view = "watchpoints" /\ n # 1 /\ s[n-1].kind = "getAll"

LEMMA RereadIsOrderly ==
  ASSUME Counted, NEW s \in Seq(GoodCmds), \A n \in 1..Len(s) : s[n].kind # "getUpdates"
  PROVE  Orderly(s \o Reread)
<1>1. Len(s) \in Nat /\ Plain("getAll").kind = "getAll"
  BY DEF Plain, Cmd
<1>2. CASE view = "watchpoints"
  <2> DEFINE r == s \o <<Plain("getAll"), Plain("getUpdates")>>
  <2>1. Reread = <<Plain("getAll"), Plain("getUpdates")>>
    BY <1>2 DEF Reread
  <2>2. /\ Len(r) = Len(s) + 2
        /\ \A n \in 1..Len(s) : r[n] = s[n]
        /\ r[Len(s) + 1] = Plain("getAll") /\ r[Len(s) + 2] = Plain("getUpdates")
    BY <1>1
  <2> HIDE DEF r
  <2>3. ASSUME NEW n \in 1..Len(r), r[n].kind = "getUpdates" PROVE n # 1 /\ r[n-1].kind = "getAll"
    <3>1. n \in 1..Len(s) \/ n = Len(s) + 1 \/ n = Len(s) + 2
      BY <1>1, <2>2
    <3>2. n \notin 1..Len(s)
      BY <2>2, <2>3
    <3>3. n # Len(s) + 1
      BY <1>1, <2>2, <2>3
    <3>4. n = Len(s) + 2 /\ n - 1 = Len(s) + 1
      BY <1>1, <3>1, <3>2, <3>3
    <3> QED
      BY <1>1, <2>2, <3>4
  <2>4. Orderly(r)
    BY <1>2, <2>3 DEF Orderly
  <2> QED
    BY <2>1, <2>4 DEF r
<1>3. CASE view # "watchpoints"
  <2> DEFINE r == s \o <<Plain("getAll")>>
  <2>1. Reread = <<Plain("getAll")>>
    BY <1>3 DEF Reread
  <2>2. Len(r) = Len(s) + 1 /\ r[Len(s) + 1] = Plain("getAll") /\ \A n \in 1..Len(s) : r[n] = s[n]
    BY <1>1
  <2> HIDE DEF r
  <2>3. ASSUME NEW n \in 1..Len(r) PROVE r[n].kind # "getUpdates"
    <3>1. n \in 1..Len(s) \/ n = Len(s) + 1
      BY <1>1, <2>2
    <3> QED
      BY <1>1, <2>2, <3>1
  <2>4. Orderly(r)
    BY <2>3 DEF Orderly
  <2> QED
    BY <2>1, <2>4 DEF r
<1> QED
  BY <1>2, <1>3

LEMMA RereadOrderly == Counted => Orderly(Reread)
<1> SUFFICES ASSUME Counted PROVE Orderly(Reread)
  OBVIOUS
<1>1. <<>> \in Seq(GoodCmds) /\ Len(<<>>) = 0 /\ <<>> \o Reread = Reread
  BY EmptySeq, RereadGood
<1>2. \A n \in 1..Len(<<>>) : <<>>[n].kind # "getUpdates"
  BY <1>1
<1>3. Orderly(<<>> \o Reread)
  BY <1>1, <1>2, RereadIsOrderly
<1> QED
  BY <1>1, <1>3

\* One command that does not ask for the counter, alone or before the list.
LEMMA OneIsOrderly ==
  ASSUME Counted, NEW c \in GoodCmds, c.kind # "getUpdates"
  PROVE  Orderly(<<c>>) /\ Orderly(<<c>> \o Reread)
<1>1. <<c>> \in Seq(GoodCmds) /\ \A n \in 1..Len(<<c>>) : <<c>>[n].kind # "getUpdates"
  OBVIOUS
<1>2. Orderly(<<c>>)
  BY <1>1 DEF Orderly
<1> QED
  BY <1>1, <1>2, RereadIsOrderly

LEMMA CommandsAreOrderly ==
  ASSUME Counted, LinkOK, NEW j \in GoodJobs
  PROVE  Orderly(Commands(j))
<1>1. Orderly(Reread)
  BY RereadOrderly
<1>2. view \in {"scripts", "watchpoints"}
  BY ViewKnown DEF Counted, Guarded, ViewNames
<1>3. CASE j.op = "refresh"
  BY <1>1, <1>3 DEF Commands
<1>4. CASE j.op = "poll"
  <2>1. Commands(j) = <<Plain("check")>> /\ Plain("check").kind = "check" /\ Plain("check") \in GoodCmds
    BY <1>4, CmdGood DEF Commands, Plain, Cmd
  <2> QED
    BY <2>1, OneIsOrderly
<1>5. CASE j.op \notin {"refresh", "poll"}
  <2>1. j.op \in Operations /\ j.id \in Ids /\ j.value \in Entry
    BY <1>5 DEF GoodJobs, Jobs
  <2>2. /\ Cmd("add", 0, j.value) \in GoodCmds /\ Cmd("put", j.id, j.value) \in GoodCmds
        /\ Cmd("delete", j.id, None) \in GoodCmds /\ Plain("deleteAll") \in GoodCmds
        /\ Cmd("touch", j.id, None) \in GoodCmds /\ Cmd("disable", j.id, None) \in GoodCmds
        /\ Plain("disableAll") \in GoodCmds
    BY <2>1, CmdGood DEF Plain
  <2>3. /\ Cmd("add", 0, j.value).kind = "add" /\ Cmd("put", j.id, j.value).kind = "put"
        /\ Cmd("delete", j.id, None).kind = "delete" /\ Plain("deleteAll").kind = "deleteAll"
        /\ Cmd("touch", j.id, None).kind = "touch" /\ Cmd("disable", j.id, None).kind = "disable"
        /\ Plain("disableAll").kind = "disableAll"
    BY DEF Cmd, Plain
  <2>4. Orderly(DisableEach \o Reread)
    <3> DEFINE ids == ById(Active(mirror))
    <3>1. Active(mirror) \in SUBSET Ids
      BY DEF Active
    <3>2. Len(ids) \in Nat
      BY <3>1, ByIdLists
    <3> HIDE DEF ids
    <3>3. DisableEach = [n \in 1..Len(ids) |-> Cmd("put", ids[n], Off(mirror[ids[n]]))]
      BY DEF DisableEach, ids
    <3>4. DisableEach \in Seq(GoodCmds)
      BY DisableEachGood DEF LinkOK
    <3>5. Len(DisableEach) = Len(ids)
      BY <3>2, <3>3, <3>4
    <3>6. \A n \in 1..Len(DisableEach) : DisableEach[n].kind # "getUpdates"
      BY <3>3, <3>5 DEF Cmd
    <3> QED
      BY <3>4, <3>6, RereadIsOrderly
  <2>5. /\ Orderly(<<Cmd("add", 0, j.value)>>) /\ Orderly(<<Cmd("put", j.id, j.value)>>)
        /\ Orderly(<<Cmd("touch", j.id, None)>>) /\ Orderly(<<Cmd("disable", j.id, None)>>)
    BY <2>2, <2>3, OneIsOrderly
  <2>6. /\ Orderly(<<Cmd("add", 0, j.value)>> \o Reread) /\ Orderly(<<Cmd("put", j.id, j.value)>> \o Reread)
        /\ Orderly(<<Cmd("delete", j.id, None)>> \o Reread) /\ Orderly(<<Plain("deleteAll")>> \o Reread)
        /\ Orderly(<<Plain("disableAll")>> \o Reread)
    BY <2>2, <2>3, OneIsOrderly
  <2>7. CASE view = "watchpoints"
    <3>1. Commands(j) = WatchpointCommands(j) /\ j.op \in WatchpointOperations
      BY <1>5, <2>1, <2>7 DEF Commands, Operations
    <3> QED
      BY <2>4, <2>6, <3>1 DEF WatchpointCommands, WatchpointOperations
  <2>8. CASE view = "scripts"
    <3>1. Commands(j) = ScriptCommands(j) /\ j.op \in ScriptOperations
      BY <1>5, <2>1, <2>8 DEF Commands, Operations
    <3>2. CASE j.op \in {"disableAll", "deleteAll"}
      <4>1. ScriptCommands(j) = <<Plain(j.op)>> \o Reread
        BY <3>2 DEF ScriptCommands
      <4> QED
        BY <2>6, <3>1, <3>2, <4>1
    <3>3. CASE j.op \notin {"disableAll", "deleteAll"}
      BY <2>5, <2>6, <3>1, <3>3 DEF ScriptCommands, ScriptOperations
    <3> QED
      BY <3>2, <3>3
  <2> QED
    BY <1>2, <2>7, <2>8
<1> QED
  BY <1>3, <1>4, <1>5

LEMMA OrderlyCounts ==
  ASSUME NEW rest, todo' = rest, view' = view, Orderly(rest)
  PROVE  CounterAfterList'
<1>1. \A n \in 1..Len(todo') : todo'[n].kind = "getUpdates" =>
         view' = "watchpoints" /\ n # 1 /\ todo'[n-1].kind = "getAll"
  BY DEF Orderly
<1> QED
  BY <1>1 DEF CounterAfterList

LEMMA NothingToCount ==
  ASSUME todo' = <<>>
  PROVE  CounterAfterList'
<1>1. Len(todo') = 0
  BY EmptySeq
<1> QED
  BY <1>1 DEF CounterAfterList

LEMMA ContinueTells ==
  ASSUME NEW rest, NEW bad, Continue(rest, bad)
  PROVE  todo' = rest /\ wire' \in {"sent", "idle"}
BY DEF Continue, JobEnds

\* Between two commands, or before the answer to one, no list has been heard.
LEMMA NothingHeard ==
  ASSUME wire # "answered"
  PROVE  ~ListArrived
BY DEF ListArrived

LEMMA BeginVouches ==
  ASSUME ServiceInv, Vouched, Begin
  PROVE  Vouched'
<1> DEFINE j == Head(queue)
<1>1. UNCHANGED <<mirror, known, coll, rev, overtaken, view, up>> /\ queue # <<>> /\ LinkOK /\ ~running
  BY DEF Begin, emulator, link, ServiceInv
<1> SUFFICES ASSUME Counted, up PROVE CounterVouches' /\ HeardNow' /\ CounterAfterList'
  BY <1>1 DEF Vouched, Counted, Guarded
<1>2. j \in GoodJobs /\ wire = "idle"
  BY <1>1, QueueShrinks DEF ServiceInv, PanelOK, JobOK
<1>3. PICK rest : todo' = rest /\ wire' \in {"sent", "idle"} /\ (rest = <<>> \/ rest = Reread \/ rest = Commands(j))
  <2>1. CASE ~supported
    <3>1. JobEnds(FALSE)
      BY <2>1 DEF Begin
    <3> QED
      BY <3>1 DEF JobEnds
  <2>2. CASE supported /\ NeedsEntry(j) /\ mirror[j.id] = None
    <3> DEFINE rest == Cleanup(j, Plain("entry"))
    <3>1. Continue(rest, TRUE)
      BY <2>2 DEF Begin
    <3>2. rest = <<>> \/ rest = Reread
      BY DEF Cleanup
    <3>3. todo' = rest /\ wire' \in {"sent", "idle"}
      <4> HIDE DEF rest
      <4> QED
        BY <3>1, ContinueTells
    <3> QED
      BY <3>2, <3>3
  <2>3. CASE supported /\ ~(NeedsEntry(j) /\ mirror[j.id] = None)
    <3> DEFINE rest == Commands(j)
    <3>1. Continue(rest, FALSE)
      BY <2>3 DEF Begin
    <3>2. todo' = rest /\ wire' \in {"sent", "idle"}
      <4> HIDE DEF rest
      <4> QED
        BY <3>1, ContinueTells
    <3> QED
      BY <3>2
  <2> QED
    BY <2>1, <2>2, <2>3
<1>4. CounterAfterList'
  BY <1>1, <1>2, <1>3, CommandsAreOrderly, RereadOrderly, OrderlyCounts, NothingToCount
<1>5. CounterVouches' /\ HeardNow'
  BY <1>1, <1>2, <1>3, NothingHeard DEF Vouched, CounterVouches, HeardNow
<1> QED
  BY <1>4, <1>5

\* Writing what the emulator has at one place there leaves the rest of an equal mirror equal.
LEMMA OnePlace ==
  ASSUME NEW i, NEW v, NEW m \in Collection, NEW c \in Collection, m = c, NEW r, r = [c EXCEPT ![i] = v]
  PROVE  [m EXCEPT ![i] = r[i]] = r
<1>1. DOMAIN c = Ids
  BY DEF Collection
<1>2. CASE i \in Ids
  <2>1. r[i] = v
    BY <1>1, <1>2
  <2> QED
    BY <2>1
<1>3. CASE i \notin Ids
  BY <1>1, <1>3 DEF Collection
<1> QED
  BY <1>2, <1>3

\* The emulator executed a change of one entry that names it in its answer.
LEMMA ChangeIsTaken ==
  ASSUME NEW c, TakesCounterOver(c), Executed(c) # None, mirror = coll, coll \in Collection,
         coll' = Executed(c), answer' = Answer(TRUE, coll', IF c.kind = "add" THEN Min(Free) ELSE c.id),
         mirror' = mirror
  PROVE  /\ [mirror' EXCEPT ![answer'.id] = answer'.coll[answer'.id]] = coll'
         /\ c.kind = "touch" => mirror' = coll'
<1>1. /\ answer'.coll = coll' /\ answer'.id = IF c.kind = "add" THEN Min(Free) ELSE c.id
      /\ c.kind \in {"add", "put", "disable", "touch"}
  BY DEF Answer, TakesCounterOver
<1>2. CASE c.kind = "add"
  <2>1. coll' = [coll EXCEPT ![Min(Free)] = c.value]
    BY <1>2 DEF Executed
  <2>2. answer'.id = Min(Free)
    BY <1>1, <1>2
  <2>3. [mirror EXCEPT ![Min(Free)] = coll'[Min(Free)]] = coll'
    <3> DEFINE i == Min(Free)
               v == c.value
               r == coll'
    <3>1. r = [coll EXCEPT ![i] = v]
      BY <2>1
    <3> HIDE DEF i, v, r
    <3>2. [mirror EXCEPT ![i] = r[i]] = r
      BY <3>1, OnePlace
    <3> QED
      BY <3>2 DEF i, r
  <2> QED
    BY <1>1, <1>2, <2>2, <2>3
<1>3. CASE c.kind # "add"
  <2> DEFINE i == c.id
             r == coll'
  <2>1. answer'.id = i
    BY <1>1, <1>3
  <2>2. (\E v : r = [coll EXCEPT ![i] = v]) /\ (c.kind = "touch" => coll' = coll)
    <3>1. CASE c.kind = "put"
      <4>1. r = [coll EXCEPT ![i] = c.value]
        BY <3>1 DEF Executed
      <4> QED
        BY <3>1, <4>1
    <3>2. CASE c.kind = "disable"
      <4>1. r = [coll EXCEPT ![i] = Off(coll[i])]
        BY <3>2 DEF Executed
      <4> QED
        BY <3>2, <4>1
    <3>3. CASE c.kind = "touch"
      <4>1. coll' = coll
        BY <3>3 DEF Executed
      <4>2. coll = [coll EXCEPT ![i] = coll[i]]
        BY DEF Collection
      <4> QED
        BY <4>1, <4>2
    <3> QED
      BY <1>1, <1>3, <3>1, <3>2, <3>3
  <2> HIDE DEF i, r
  <2>3. PICK v : r = [coll EXCEPT ![i] = v]
    BY <2>2
  <2>4. [mirror EXCEPT ![i] = r[i]] = r
    BY <2>3, OnePlace
  <2> QED
    BY <1>1, <2>1, <2>2, <2>4 DEF r
<1> QED
  BY <1>2, <1>3

\* A command that changes the collection moves the counter; a reading one does not.  A
\* change whose answer brings the counter is vouched for when the counter was known.
LEMMA ExecuteVouches ==
  ASSUME ServiceInv, Vouched, Execute
  PROVE  Vouched'
<1> DEFINE c == Head(todo)
           r == Executed(c)
<1>1. /\ wire = "sent" /\ wire' = "answered" /\ UNCHANGED <<mirror, known, todo, view, up>>
      /\ rev \in Nat /\ known \in Int /\ overtaken \in BOOLEAN /\ coll \in Collection
  BY DEF Execute, link, ServiceInv, LinkOK
<1> SUFFICES ASSUME Counted, up PROVE CounterVouches' /\ HeardNow' /\ CounterAfterList'
  BY <1>1 DEF Vouched, Counted, Guarded
<1>2. known <= rev /\ (known = rev /\ ~overtaken => mirror = coll) /\ CounterAfterList
  BY <1>1, NothingHeard DEF Vouched, CounterVouches
<1>3. c = todo[1] /\ Len(todo) \in Nat \ {0}
  BY <1>1, OnTheWire
<1>4. CounterAfterList'
  BY <1>1, <1>2 DEF CounterAfterList
<1>5. c' = c
  BY <1>1
<1>6. CASE r = None
  <2>1. coll' = coll /\ rev' = rev /\ overtaken' = overtaken /\ answer'.ok = FALSE
    BY <1>6 DEF Execute, emulator, Answer
  <2> QED
    BY <1>1, <1>2, <1>4, <2>1 DEF CounterVouches, HeardNow
<1>7. CASE r # None
  <2>1. /\ coll' = r /\ rev' = (IF Reads(c) THEN rev ELSE rev + 1)
        /\ overtaken' = (c.kind # "getAll" /\ (overtaken \/ (TakesCounterOver(c) /\ rev # known)))
        /\ answer' = Answer(TRUE, r, IF c.kind = "add" THEN Min(Free) ELSE c.id)
    BY <1>7 DEF Execute
  <2>2. answer'.coll = coll' /\ answer'.rev = rev' /\ answer'.ok = TRUE
    BY <2>1 DEF Answer
  <2>3. CASE Reads(c)
    <3>1. coll' = coll /\ rev' = rev /\ ~TakesCounterOver(c)
      BY <2>1, <2>3 DEF Reads, Executed, TakesCounterOver
    <3>2. CounterVouches'
      <4>1. CASE c.kind = "getAll"
        BY <1>1, <1>2, <1>5, <2>2, <3>1, <4>1 DEF CounterVouches, ListArrived
      <4>2. CASE c.kind # "getAll"
        <5>1. overtaken' <=> overtaken
          BY <2>1, <3>1, <4>2
        <5> QED
          BY <1>1, <1>2, <3>1, <5>1 DEF CounterVouches
      <4> QED
        BY <4>1, <4>2
    <3>3. c.kind = "getUpdates" => mirror' = coll' \/ overtaken'
      <4> SUFFICES ASSUME c.kind = "getUpdates" PROVE mirror' = coll' \/ overtaken'
        OBVIOUS
      <4>1. mirror = coll \/ overtaken
        BY <1>1, <1>2, <1>3 DEF CounterAfterList
      <4>2. overtaken => overtaken'
        BY <2>1
      <4> QED
        BY <1>1, <3>1, <4>1, <4>2
    <3>4. ~TakesCounterOver(c)'
      BY <1>1, <3>1 DEF TakesCounterOver
    <3>5. Heard(c)'
      BY <1>1, <1>5, <2>2, <3>1, <3>3, <3>4 DEF Heard
    <3> QED
      BY <1>4, <1>5, <3>2, <3>5 DEF HeardNow
  <2>4. CASE ~Reads(c)
    <3>1. rev' = rev + 1 /\ c.kind \notin {"check", "getUpdates", "getAll"}
      BY <2>1, <2>4 DEF Reads
    <3>2. CounterVouches'
      BY <1>1, <1>2, <3>1 DEF CounterVouches
    <3>3. TakesCounterOver(c) /\ ~overtaken' => ChangeTaken(c)'
      <4> SUFFICES ASSUME TakesCounterOver(c), ~overtaken' PROVE ChangeTaken(c)'
        OBVIOUS
      <4>1. ~overtaken /\ rev = known
        BY <2>1, <3>1
      <4>2. mirror = coll
        BY <1>2, <4>1
      <4>3. /\ [mirror' EXCEPT ![answer'.id] = answer'.coll[answer'.id]] = coll'
            /\ c.kind = "touch" => mirror' = coll'
        <5>1. answer' = Answer(TRUE, coll', IF c.kind = "add" THEN Min(Free) ELSE c.id)
          BY <2>1
        <5> HIDE DEF c
        <5> QED
          BY <1>1, <1>7, <2>1, <4>2, <5>1, ChangeIsTaken
      <4> QED
        BY <1>5, <4>3 DEF ChangeTaken
    <3>4. TakesCounterOver(c)' => TakesCounterOver(c)
      BY <1>1 DEF TakesCounterOver
    <3>5. Heard(c)'
      BY <1>1, <1>5, <2>2, <3>1, <3>3, <3>4 DEF Heard
    <3> QED
      BY <1>4, <1>5, <3>2, <3>5 DEF HeardNow
  <2> QED
    BY <2>3, <2>4
<1> QED
  BY <1>6, <1>7

LEMMA FailVouches ==
  ASSUME ServiceInv, Vouched, Fail
  PROVE  Vouched'
<1>1. /\ wire = "sent" /\ wire' = "answered" /\ UNCHANGED <<mirror, known, todo, view, up>>
      /\ answer' = Answer(FALSE, coll', 0) /\ rev \in Nat /\ known \in Int
  BY DEF Fail, link, ServiceInv, LinkOK
<1> SUFFICES ASSUME Counted, up PROVE CounterVouches' /\ HeardNow' /\ CounterAfterList'
  BY <1>1 DEF Vouched, Counted, Guarded
<1>2. known <= rev /\ (known = rev /\ ~overtaken => mirror = coll) /\ CounterAfterList
  BY <1>1, NothingHeard DEF Vouched, CounterVouches
<1>3. HeardNow'
  <2>1. answer'.ok = FALSE
    BY <1>1 DEF Answer
  <2> QED
    BY <2>1 DEF HeardNow
<1>4. CounterAfterList'
  BY <1>1, <1>2 DEF CounterAfterList
<1>5. CASE UNCHANGED emulator
  <2>1. coll' = coll /\ rev' = rev /\ overtaken' = overtaken
    BY <1>5 DEF emulator
  <2> QED
    BY <1>1, <1>2, <1>3, <1>4, <2>1 DEF CounterVouches
<1>6. CASE rev' = rev + 1
  BY <1>1, <1>2, <1>3, <1>4, <1>6 DEF CounterVouches
<1> QED
  BY <1>5, <1>6 DEF Fail

\* What is taken over is as the answer told it: a list that is current, a counter that
\* is the list's, a change of a mirror that was current; or something was overtaken.
LEMMA PublishVouches ==
  ASSUME ServiceInv, Vouched, Counted, up, wire = "answered", answer.ok,
         Publish(Head(queue), Head(todo), answer)
  PROVE  /\ known' <= rev
         /\ known' = rev /\ ~overtaken => mirror' = coll
         /\ Head(todo).kind = "getAll" /\ view = "watchpoints" => mirror' = coll \/ overtaken
<1> DEFINE c == Head(todo)
<1>1. /\ CounterVouches /\ Heard(c) /\ CounterAfterList
      /\ rev \in Nat /\ known \in Int /\ answer.rev \in Nat /\ c = todo[1] /\ Len(todo) \in Nat \ {0}
  BY OnTheWire DEF Vouched, HeardNow, ServiceInv, LinkOK, JobOK
<1>2. view \in {"scripts", "watchpoints"}
  BY ViewKnown DEF ServiceInv, Counted, Guarded, ViewNames
<1>3. CASE c.kind = "getAll"
  <2>1. mirror' = answer.coll /\ (known' = known \/ known' = answer.rev)
        /\ (view = "scripts" => known' = answer.rev)
    BY <1>3 DEF Publish
  <2>2. answer.rev <= rev /\ (answer.rev = rev => answer.coll = coll)
        /\ (view = "watchpoints" => answer.coll = coll \/ overtaken)
    BY <1>1, <1>3 DEF Heard
  <2> QED
    BY <1>1, <1>2, <1>3, <2>1, <2>2 DEF CounterVouches
<1>4. CASE c.kind = "getUpdates"
  <2>1. mirror' = mirror /\ known' = answer.rev
    BY <1>4 DEF Publish
  <2>2. answer.rev <= rev /\ (answer.rev = rev => mirror = coll \/ overtaken)
    BY <1>1, <1>4 DEF Heard
  <2> QED
    BY <1>1, <1>4, <2>1, <2>2
<1>5. CASE TakesCounterOver(c)
  <2>1. c.kind \in {"add", "put", "disable", "touch"} /\ view = "scripts"
    BY <1>5 DEF TakesCounterOver
  <2>2. known' = answer.rev
    BY <1>5, <2>1 DEF Publish
  <2>3. \/ mirror' = [mirror EXCEPT ![answer.id] = answer.coll[answer.id]]
        \/ mirror' = mirror /\ c.kind = "touch"
    BY <2>1 DEF Publish
  <2>4. answer.rev <= rev /\ (answer.rev = rev /\ ~overtaken => ChangeTaken(c))
    BY <1>1, <1>5 DEF Heard
  <2>5. answer.rev = rev /\ ~overtaken => mirror' = coll
    BY <2>3, <2>4 DEF ChangeTaken
  <2> QED
    BY <1>1, <2>1, <2>2, <2>4, <2>5
<1>6. CASE c.kind \notin {"getAll", "getUpdates"} /\ ~TakesCounterOver(c)
  <2>1. mirror' = mirror /\ known' = known
    BY <1>2, <1>6 DEF Publish, TakesCounterOver
  <2>2. ~ListArrived
    BY <1>6 DEF ListArrived
  <2> QED
    BY <1>1, <1>6, <2>1, <2>2 DEF CounterVouches
<1> QED
  BY <1>3, <1>4, <1>5, <1>6

LEMMA ReceiveVouches ==
  ASSUME ServiceInv, Vouched, Receive
  PROVE  Vouched'
<1> DEFINE c == Head(todo)
<1>1. /\ wire = "answered" /\ UNCHANGED <<coll, rev, overtaken, view, up>>
      /\ rev \in Nat /\ known \in Int
  BY DEF Receive, emulator, link, ServiceInv, LinkOK
<1> SUFFICES ASSUME Counted, up PROVE CounterVouches' /\ HeardNow' /\ CounterAfterList'
  BY <1>1 DEF Vouched, Counted, Guarded
<1>2. /\ c = todo[1] /\ Len(todo) \in Nat \ {0} /\ Len(Tail(todo)) = Len(todo) - 1
      /\ \A n \in 1..Len(Tail(todo)) : n + 1 \in 1..Len(todo) /\ Tail(todo)[n] = todo[n + 1]
  BY <1>1, OnTheWire
<1>3. CounterVouches /\ CounterAfterList
  BY DEF Vouched
<1>4. PICK rest \in Seq(GoodCmds) : \E bad \in BOOLEAN :
         Continue(rest, bad) /\ (rest = <<>> \/ rest = Reread \/ (answer.ok /\ rest = Tail(todo)))
  BY ReceiveGoesOn
<1>5. todo' = rest /\ wire' \in {"sent", "idle"} /\ (rest = <<>> \/ rest = Reread \/ (answer.ok /\ rest = Tail(todo)))
  BY <1>4, ContinueTells
<1>6. HeardNow' /\ ~ListArrived'
  BY <1>5 DEF HeardNow, ListArrived
<1>7. /\ known' <= rev
      /\ known' = rev /\ ~overtaken => mirror' = coll
      /\ answer.ok /\ c.kind = "getAll" /\ view = "watchpoints" => mirror' = coll \/ overtaken
  <2>1. CASE answer.ok
    <3>1. Publish(Head(queue), Head(todo), answer)
      BY <2>1 DEF Receive
    <3> QED
      BY <1>1, <2>1, <3>1, PublishVouches
  <2>2. CASE ~answer.ok
    <3>1. mirror' = mirror /\ known' = known /\ ~ListArrived
      BY <2>2 DEF Receive, ListArrived
    <3> QED
      BY <1>3, <2>2, <3>1 DEF CounterVouches
  <2> QED
    BY <2>1, <2>2
<1>8. CounterVouches'
  BY <1>1, <1>7 DEF CounterVouches
<1>9. CASE rest = <<>>
  BY <1>5, <1>6, <1>8, <1>9, NothingToCount
<1>10. CASE rest = Reread
  <2>1. Orderly(Reread)
    BY RereadOrderly
  <2> QED
    BY <1>1, <1>5, <1>6, <1>8, <1>10, <2>1, OrderlyCounts
<1>11. CASE answer.ok /\ rest = Tail(todo)
  <2>1. ASSUME NEW n \in 1..Len(todo'), todo'[n].kind = "getUpdates"
        PROVE  /\ view' = "watchpoints"
               /\ IF n = 1 THEN wire' = "sent" => mirror' = coll' \/ overtaken' ELSE todo'[n-1].kind = "getAll"
    <3>1. n + 1 \in 1..Len(todo) /\ todo'[n] = todo[n+1] /\ n \in Nat \ {0}
      BY <1>2, <1>5, <1>11
    <3>2. todo[(n+1)-1].kind = "getAll" /\ (n+1)-1 = n /\ view = "watchpoints"
      BY <1>3, <2>1, <3>1 DEF CounterAfterList
    <3>3. CASE n = 1
      BY <1>1, <1>2, <1>7, <1>11, <3>2, <3>3
    <3>4. CASE n # 1
      <4>1. n - 1 \in 1..Len(Tail(todo)) /\ (n-1)+1 = n
        BY <1>2, <1>5, <1>11, <3>1, <3>4
      <4>2. todo'[n-1] = todo[n]
        BY <1>2, <1>5, <1>11, <4>1
      <4> QED
        BY <1>1, <3>2, <3>4, <4>2
    <3> QED
      BY <3>3, <3>4
  <2>2. CounterAfterList'
    BY <2>1 DEF CounterAfterList
  <2> QED
    BY <1>6, <1>8, <2>2
<1> QED
  BY <1>5, <1>9, <1>10, <1>11

LEMMA JobEndVouches ==
  ASSUME ServiceInv, Vouched, NotWhileRunning
  PROVE  Vouched'
<1>1. UNCHANGED <<mirror, known, coll, rev, overtaken, view, up>> /\ todo' = <<>> /\ wire' = "idle" /\ ~running
  BY DEF NotWhileRunning, JobEnds, emulator, link
<1> SUFFICES ASSUME Counted, up PROVE CounterVouches' /\ HeardNow' /\ CounterAfterList'
  BY <1>1 DEF Vouched, Counted, Guarded
<1>2. CounterVouches /\ wire = "idle"
  BY <1>1 DEF Vouched, ServiceInv, JobOK
<1> QED
  BY <1>1, <1>2, NothingToCount, NothingHeard DEF CounterVouches, HeardNow

\* The panel and the user leave the service's books alone.
LEMMA BooksVouch ==
  ASSUME Vouched, UNCHANGED <<view, up, coll, rev, overtaken, mirror, known, todo, wire, answer>>
  PROVE  Vouched'
<1>1. CounterVouches => CounterVouches'
  BY DEF CounterVouches, ListArrived
<1>2. HeardNow => HeardNow'
  BY DEF HeardNow, Heard, TakesCounterOver, ChangeTaken
<1>3. CounterAfterList => CounterAfterList'
  BY DEF CounterAfterList
<1> QED
  BY <1>1, <1>2, <1>3 DEF Vouched, Counted, Guarded

\* Another client's change moves the counter past everything that has been read; what is
\* read but not yet counted it overtakes.
LEMMA OthersVouch ==
  ASSUME ServiceInv, Vouched, OthersChange
  PROVE  Vouched'
<1> DEFINE c == Head(todo)
<1>1. /\ UNCHANGED <<mirror, known, todo, wire, answer, view, up>> /\ rev' = rev + 1
      /\ overtaken' = (overtaken \/ BetweenListAndCounter)
      /\ rev \in Nat /\ known \in Int /\ overtaken \in BOOLEAN
  BY DEF OthersChange, service, link, ServiceInv, LinkOK
<1> SUFFICES ASSUME Counted, up PROVE CounterVouches' /\ HeardNow' /\ CounterAfterList'
  BY <1>1 DEF Vouched, Counted, Guarded
<1>2. CounterVouches /\ HeardNow /\ CounterAfterList
  BY DEF Vouched
<1>3. CounterVouches'
  BY <1>1, <1>2 DEF CounterVouches
<1>4. HeardNow'
  <2> SUFFICES ASSUME wire = "answered", answer.ok PROVE Heard(c)'
    BY <1>1 DEF HeardNow
  <2>1. answer.rev <= rev /\ answer.rev \in Nat
    BY <1>2 DEF HeardNow, Heard, ServiceInv, JobOK
  <2>2. c.kind = "getAll" /\ view = "watchpoints" => overtaken'
    BY <1>1 DEF BetweenListAndCounter
  <2>3. answer'.rev <= rev' /\ answer'.rev # rev'
    BY <1>1, <2>1
  <2> QED
    BY <1>1, <2>2, <2>3 DEF Heard
<1>5. CounterAfterList'
  <2> SUFFICES ASSUME NEW n \in 1..Len(todo), todo[n].kind = "getUpdates"
               PROVE  /\ view = "watchpoints"
                      /\ IF n = 1 THEN wire = "sent" => overtaken' ELSE todo[n-1].kind = "getAll"
    BY <1>1 DEF CounterAfterList
  <2>1. view = "watchpoints" /\ (n # 1 => todo[n-1].kind = "getAll")
    BY <1>2 DEF CounterAfterList
  <2>2. n = 1 /\ wire = "sent" => overtaken'
    <3> SUFFICES ASSUME n = 1, wire = "sent" PROVE overtaken'
      OBVIOUS
    <3>1. c = todo[1]
      BY OnTheWire
    <3>2. BetweenListAndCounter
      BY <2>1, <3>1 DEF BetweenListAndCounter
    <3> QED
      BY <1>1, <3>2
  <2> QED
    BY <2>1, <2>2
<1> QED
  BY <1>3, <1>4, <1>5

\* A new session starts the counter again, and the service knows none.
LEMMA OpeningVouches ==
  ASSUME ServiceInv, SessionOpens
  PROVE  Vouched'
<1>1. /\ rev' = 0 /\ known' = -1 /\ todo' = <<>> /\ wire' = "idle"
  BY DEF SessionOpens, ServiceInv, LinkOK, JobOK
<1> QED
  BY <1>1, NothingToCount DEF Vouched, CounterVouches, HeardNow

LEMMA StepVouches ==
  ASSUME ServiceInv, Vouched, [Next]_vars
  PROVE  Vouched'
<1>1. CASE Begin
  BY <1>1, BeginVouches
<1>2. CASE NotWhileRunning
  BY <1>2, JobEndVouches
<1>3. CASE Execute
  BY <1>3, ExecuteVouches
<1>4. CASE Fail
  BY <1>4, FailVouches
<1>5. CASE Receive
  BY <1>5, ReceiveVouches
<1>6. CASE Click \/ HandleMessage \/ Confirm \/ Poll \/ ShowOrHide \/ StateChanged \/ UNCHANGED vars
  <2>1. UNCHANGED <<view, up, coll, rev, overtaken, mirror, known, todo, wire, answer>>
    BY <1>6 DEF Click, HandleMessage, Confirm, Poll, ShowOrHide, StateChanged, vars, service, emulator, link
  <2> QED
    BY <2>1, BooksVouch
<1>7. CASE SessionOpens
  BY <1>7, OpeningVouches
<1>8. CASE SessionLost
  BY <1>8 DEF SessionLost, Vouched
<1>9. CASE OthersChange
  BY <1>9, OthersVouch
<1> QED
  BY <1>1, <1>2, <1>3, <1>4, <1>5, <1>6, <1>7, <1>8, <1>9 DEF Next

(* The mirrors are honest: after a session nothing of it is left, a hidden   *)
(* panel has no timer, and a counter of the watchpoints or the scripts that   *)
(* has not moved means that the entries shown are the emulator's, whatever    *)
(* was refused, lost, answered late or changed by another client on the way,  *)
(* unless another client changed the watchpoints between their list and its   *)
(* counter (watchpoint-service.ts:67-78) or a script was changed here while a *)
(* change was still unread (script-service.ts:234-239): no other order of     *)
(* events hides a change, for any number of entries and of clients.          *)
THEOREM MirrorsAreHonest == Spec => []MirrorIsHonest
<1>1. Init => Vouched
  BY DEF Init, Vouched
<1>2. ServiceInv /\ Vouched /\ [Next]_vars => Vouched'
  BY StepVouches
<1>3. ServiceInv /\ Vouched => MirrorIsHonest
  <2> SUFFICES ASSUME ServiceInv, Vouched PROVE MirrorIsHonest
    OBVIOUS
  <2>1. LinkOK /\ JobOK /\ PanelOK
    BY DEF ServiceInv
  <2>2. TypeOK
    BY <2>1 DEF TypeOK, LinkOK, JobOK, PanelOK, Refreshing, Banners
  <2>3. QuietWithoutSession
    BY <2>1 DEF QuietWithoutSession, LinkOK, PanelOK, Polls
  <2>4. UnchangedMeansCurrent
    <3> SUFFICES ASSUME Counted, up, queue = <<>>, known = rev, ~overtaken PROVE mirror = coll
      BY DEF UnchangedMeansCurrent
    <3>1. ~ListArrived
      BY <2>1, NothingHeard DEF JobOK
    <3> QED
      BY <3>1 DEF Vouched, CounterVouches
  <2> QED
    BY <2>2, <2>3, <2>4 DEF MirrorIsHonest
<1> QED
  BY <1>1, <1>2, <1>3, ServiceIsSound, PTL DEF Spec
-----------------------------------------------------------------------------
(***************************************************************************)
(* A switch keeps the text.  What it writes is built from the mirror, which  *)
(* agrees with the emulator on the texts of the entries both have, except    *)
(* between a command that writes a text and the list that follows it.        *)
(***************************************************************************)
Switching(op) == op \in {"activity", "disableAll"}

\* A command that leaves the texts as the mirror has them.
Keeping(c) ==
    /\ c.kind # "add"
    /\ c.kind = "put" => c.id \in Ids /\ mirror[c.id] # None /\ c.value.text = mirror[c.id].text

\* Another one comes first, of no switch, and the list right behind it; after the list
\* nothing is written.
Shaped(s, op) ==
    /\ \A n \in 1..Len(s) : ~Keeping(s[n]) => ~Switching(op) /\ n = 1 /\ Len(s) > 1 /\ s[2].kind = "getAll"
    /\ \A m, n \in 1..Len(s) : m < n /\ s[m].kind = "getAll" => Reads(s[n])

TextsAgree == \A i \in Ids : mirror[i] # None /\ coll[i] # None => mirror[i].text = coll[i].text
AboutToRead ==
    \/ todo # <<>> /\ todo[1].kind = "getAll"
    \/ wire = "answered" /\ answer.ok /\ Len(todo) > 1 /\ todo[2].kind = "getAll"
ListHeard == wire = "answered" /\ todo[1].kind = "getAll" => answer.ok /\ answer.coll = coll

TextsInv ==
    undisturbed /\ view # "scripts" =>
        /\ ~up => queue = <<>> /\ message = None /\ dialog = {}
        /\ TextsAgree \/ AboutToRead
        /\ running => Shaped(todo, Head(queue).op)
        /\ ListHeard

LEMMA ReadsKeep == \A c : Reads(c) => Keeping(c)
BY DEF Reads, Keeping

LEMMA RereadReads ==
  /\ Len(Reread) \in Nat \ {0} /\ Reread[1].kind = "getAll" /\ \A n \in 1..Len(Reread) : Reads(Reread[n])
<1>1. Reads(Plain("getAll")) /\ Reads(Plain("getUpdates")) /\ Plain("getAll").kind = "getAll"
  BY DEF Reads, Plain, Cmd
<1> DEFINE a == Plain("getAll")
           b == Plain("getUpdates")
<1> HIDE DEF a, b
<1>2. /\ Len(<<a>>) = 1 /\ <<a>>[1] = a
      /\ Len(<<a, b>>) = 2 /\ <<a, b>>[1] = a /\ <<a, b>>[2] = b
  OBVIOUS
<1>3. Reread = <<a>> \/ Reread = <<a, b>>
  BY DEF Reread, a, b
<1>4. Reads(a) /\ Reads(b) /\ a.kind = "getAll"
  BY <1>1 DEF a, b
<1>5. CASE Reread = <<a>>
  BY <1>2, <1>4, <1>5
<1>6. CASE Reread = <<a, b>>
  <2>1. \A n \in 1..2 : n = 1 \/ n = 2
    OBVIOUS
  <2> QED
    BY <1>2, <1>4, <1>6, <2>1
<1> QED
  BY <1>3, <1>5, <1>6

LEMMA RereadShaped == \A op : Shaped(Reread, op)
BY RereadReads, ReadsKeep DEF Shaped

LEMMA NothingShaped == \A op : Shaped(<<>>, op)
BY EmptySeq DEF Shaped

\* Commands that keep the texts, and one that does not, each with the list behind.
LEMMA KeepingShaped ==
  ASSUME NEW s \in Seq(GoodCmds), NEW op,
         \A n \in 1..Len(s) : Keeping(s[n]) /\ s[n].kind # "getAll"
  PROVE  Shaped(s \o Reread, op)
<1> DEFINE r == s \o Reread
<1>1. /\ Len(s) \in Nat /\ Len(Reread) \in Nat /\ Len(r) = Len(s) + Len(Reread)
      /\ \A n \in 1..Len(r) : r[n] = IF n <= Len(s) THEN s[n] ELSE Reread[n - Len(s)]
  BY RereadGood, ConcatProperties, LenProperties
<1> HIDE DEF r
<1>2. ASSUME NEW n \in 1..Len(r)
      PROVE  Keeping(r[n]) /\ (n > Len(s) => Reads(r[n])) /\ (n <= Len(s) => r[n].kind # "getAll")
  <2>1. CASE n <= Len(s)
    <3>1. n \in 1..Len(s) /\ r[n] = s[n] /\ ~(n > Len(s))
      BY <1>1, <2>1
    <3> QED
      BY <3>1
  <2>2. CASE n > Len(s)
    <3>1. n - Len(s) \in 1..Len(Reread) /\ r[n] = Reread[n - Len(s)] /\ ~(n <= Len(s))
      BY <1>1, <2>2
    <3> QED
      BY <3>1, RereadReads, ReadsKeep
  <2> QED
    BY <1>1, <2>1, <2>2
<1>3. ASSUME NEW m \in 1..Len(r), NEW n \in 1..Len(r), m < n, r[m].kind = "getAll"
      PROVE  Reads(r[n])
  <2>1. m > Len(s)
    BY <1>1, <1>2, <1>3
  <2>2. n > Len(s)
    BY <1>1, <1>3, <2>1
  <2> QED
    BY <1>2, <2>2
<1>4. Shaped(r, op)
  BY <1>2, <1>3 DEF Shaped
<1> QED
  BY <1>4 DEF r

LEMMA ChangeShaped ==
  ASSUME NEW c \in GoodCmds, c.kind # "getAll", NEW op, ~Switching(op)
  PROVE  Shaped(<<c>> \o Reread, op)
<1> DEFINE r == <<c>> \o Reread
<1>1. /\ Len(Reread) \in Nat \ {0} /\ Len(r) = Len(Reread) + 1 /\ r[1] = c
      /\ \A n \in 1..Len(r) : n # 1 => n - 1 \in 1..Len(Reread) /\ r[n] = Reread[n - 1]
  BY RereadGood, RereadReads
<1> HIDE DEF r
<1>2. \A n \in 1..Len(r) : n # 1 => Reads(r[n]) /\ Keeping(r[n])
  BY <1>1, RereadReads, ReadsKeep
<1>3. Len(r) > 1 /\ 2 \in 1..Len(r)
  BY <1>1
<1>4. r[2].kind = "getAll"
  <2>1. r[2] = Reread[2 - 1] /\ 2 - 1 = 1
    BY <1>1, <1>3
  <2> QED
    BY <2>1, RereadReads
<1>5. ASSUME NEW m \in 1..Len(r), NEW n \in 1..Len(r), m < n, r[m].kind = "getAll"
      PROVE  Reads(r[n])
  <2>1. n # 1
    BY <1>5
  <2> QED
    BY <1>2, <2>1
<1>6. Shaped(r, op)
  BY <1>2, <1>3, <1>4, <1>5 DEF Shaped
<1> QED
  BY <1>6 DEF r

LEMMA DisableEachKeeps ==
  ASSUME mirror \in Collection
  PROVE  \A n \in 1..Len(DisableEach) : Keeping(DisableEach[n]) /\ DisableEach[n].kind # "getAll"
<1> DEFINE ids == ById(Active(mirror))
<1>1. Active(mirror) \in SUBSET Ids
  BY DEF Active
<1>2. Len(ids) \in Nat /\ \A n \in 1..Len(ids) : ids[n] \in Active(mirror)
  BY <1>1, ByIdLists, ElementOfSeq
<1> HIDE DEF ids
<1>3. DisableEach = [n \in 1..Len(ids) |-> Cmd("put", ids[n], Off(mirror[ids[n]]))]
  BY DEF DisableEach, ids
<1>4. Len(DisableEach) = Len(ids)
  BY <1>2, <1>3, DisableEachGood
<1>5. ASSUME NEW n \in 1..Len(ids)
      PROVE  Keeping(DisableEach[n]) /\ DisableEach[n].kind # "getAll"
  <2>1. ids[n] \in Ids /\ mirror[ids[n]] # None /\ mirror[ids[n]] \in Entry
    BY <1>2 DEF Active, Collection
  <2>2. Off(mirror[ids[n]]).text = mirror[ids[n]].text
    BY <2>1 DEF Off, Entry
  <2>3. DisableEach[n] = Cmd("put", ids[n], Off(mirror[ids[n]]))
    BY <1>3
  <2> QED
    BY <2>1, <2>2, <2>3 DEF Keeping, Cmd
<1> QED
  BY <1>4, <1>5

LEMMA ForAllKeeps ==
  \A n \in 1..Len(ForAll("restore")) :
      Keeping(ForAll("restore")[n]) /\ ForAll("restore")[n].kind # "getAll"
<1> DEFINE S == {i \in Ids : mirror[i] # None}
           ids == ById(S)
<1>1. S \in SUBSET Ids
  OBVIOUS
<1>2. Len(ids) \in Nat
  BY <1>1, ByIdLists
<1> HIDE DEF ids
<1>3. ForAll("restore") = [n \in 1..Len(ids) |-> Cmd("restore", ids[n], None)]
  BY DEF ForAll, ids
<1>4. Len(ForAll("restore")) = Len(ids)
  BY <1>2, <1>3, ForAllGood
<1> QED
  BY <1>3, <1>4 DEF Keeping, Cmd

\* The jobs of the three services, as they are built from the mirror of the moment.
LEMMA CommandsAreShaped ==
  ASSUME LinkOK, view # "scripts", NEW j \in GoodJobs, NeedsEntry(j) => mirror[j.id] # None
  PROVE  Shaped(Commands(j), j.op)
<1>a. view \in {"watchpoints", "edits", "performance"} /\ mirror \in Collection
  BY ViewKnown DEF LinkOK, ViewNames
<1>b. j.op \in Operations => j.id \in Ids /\ j.value \in Entry /\ mirror[j.id] \in Entry \cup {None}
  BY <1>a DEF GoodJobs, Collection
<1>c. \A c \in GoodCmds : c.kind # "getAll" /\ (Keeping(c) \/ ~Switching(j.op)) => Shaped(<<c>> \o Reread, j.op)
  <2> SUFFICES ASSUME NEW c \in GoodCmds, c.kind # "getAll", Keeping(c) \/ ~Switching(j.op)
               PROVE  Shaped(<<c>> \o Reread, j.op)
    OBVIOUS
  <2>1. CASE Keeping(c)
    <3>1. <<c>> \in Seq(GoodCmds) /\ \A n \in 1..Len(<<c>>) : Keeping(<<c>>[n]) /\ <<c>>[n].kind # "getAll"
      BY <2>1
    <3> QED
      BY <3>1, KeepingShaped
  <2>2. CASE ~Switching(j.op)
    BY <2>2, ChangeShaped
  <2> QED
    BY <2>1, <2>2
<1>d. Shaped(DisableEach \o Reread, j.op) /\ Shaped(ForAll("restore") \o Reread, j.op)
  BY <1>a, DisableEachGood, DisableEachKeeps, ForAllGood, ForAllKeeps, KeepingShaped
<1>e. Plain("deleteAll") \in GoodCmds /\ Plain("deleteAll").kind # "getAll" /\ Keeping(Plain("deleteAll"))
  BY CmdGood DEF Plain, Cmd, Keeping
<1>1. CASE j.op \in {"refresh", "poll"}
  <2>1. CASE j.op = "refresh"
    BY <2>1, RereadShaped DEF Commands
  <2>2. CASE j.op = "poll"
    <3>1. Commands(j) = <<Plain("check")>> /\ Reads(Plain("check"))
      BY <2>2 DEF Commands, Reads, Plain, Cmd
    <3>2. \A n \in 1..Len(<<Plain("check")>>) : <<Plain("check")>>[n] = Plain("check")
      OBVIOUS
    <3> QED
      BY <3>1, <3>2, ReadsKeep DEF Shaped
  <2> QED
    BY <1>1, <2>1, <2>2
<1> SUFFICES ASSUME j.op \notin {"refresh", "poll"} PROVE Shaped(Commands(j), j.op)
  BY <1>1
<1>f. j.op \in Operations /\ j.id \in Ids /\ j.value \in Entry
  BY <1>b DEF GoodJobs, Jobs
<1>g. \A kind \in {"delete", "restore"} :
        Cmd(kind, j.id, None) \in GoodCmds /\ Cmd(kind, j.id, None).kind # "getAll" /\ Keeping(Cmd(kind, j.id, None))
  BY <1>f, CmdGood DEF Cmd, Keeping
<1>h. \A e \in Entry : /\ Cmd("add", 0, e) \in GoodCmds /\ Cmd("add", 0, e).kind # "getAll"
                       /\ Cmd("put", j.id, e) \in GoodCmds /\ Cmd("put", j.id, e).kind # "getAll"
  BY <1>f, CmdGood DEF Cmd
<1>i. \A e \in Entry : mirror[j.id] # None /\ e.text = mirror[j.id].text => Keeping(Cmd("put", j.id, e))
  BY <1>f DEF Cmd, Keeping
<1>j. mirror[j.id] # None =>
        /\ mirror[j.id] \in Entry /\ j.value.on \in BOOLEAN
        /\ [mirror[j.id] EXCEPT !.on = j.value.on] \in Entry
        /\ [mirror[j.id] EXCEPT !.on = j.value.on].text = mirror[j.id].text
        /\ Off(mirror[j.id]) \in Entry /\ Off(mirror[j.id]).text = mirror[j.id].text
  BY <1>b, <1>f DEF Entry, Off
<1>k. [j.value EXCEPT !.on = TRUE] \in Entry
  BY <1>f, EntryLemma
<1>3. CASE view = "watchpoints"
  <2>1. j.op \in WatchpointOperations /\ Commands(j) = WatchpointCommands(j)
    BY <1>f, <1>3 DEF Commands, Operations
  <2>2. CASE j.op \in {"add", "edit"}
    <3>1. ~Switching(j.op)
      BY <2>2 DEF Switching
    <3> QED
      BY <1>c, <1>f, <1>h, <2>1, <2>2, <3>1 DEF WatchpointCommands
  <2>3. CASE j.op \in {"delete", "disableAll", "deleteAll"}
    BY <1>c, <1>d, <1>e, <1>g, <2>1, <2>3 DEF WatchpointCommands
  <2> QED
    BY <2>1, <2>2, <2>3 DEF WatchpointOperations
<1>4. CASE view = "edits"
  <2>1. j.op \in EditOperations /\ Commands(j) = EditCommands(j)
    BY <1>f, <1>4 DEF Commands, Operations
  <2>2. CASE j.op \in {"apply", "edit"}
    <3>1. ~Switching(j.op)
      BY <2>2 DEF Switching
    <3> QED
      BY <1>c, <1>h, <1>k, <2>1, <2>2, <3>1 DEF EditCommands
  <2>3. CASE j.op = "activity"
    <3>1. mirror[j.id] # None
      BY <1>4, <2>3 DEF NeedsEntry
    <3>2. Commands(j) = <<Cmd("put", j.id, [mirror[j.id] EXCEPT !.on = j.value.on])>> \o Reread
      BY <2>1, <2>3 DEF EditCommands
    <3> QED
      BY <1>c, <1>h, <1>i, <1>j, <3>1, <3>2
  <2>4. CASE j.op \in {"delete", "restore", "disableAll", "deleteAll", "restoreAll"}
    BY <1>c, <1>d, <1>e, <1>g, <2>1, <2>4 DEF EditCommands
  <2>5. CASE j.op = "retain"
    <3> DEFINE a == Cmd("restore", j.id, None)
               b == Cmd("put", j.id, Off(mirror[j.id]))
    <3>1. mirror[j.id] # None
      BY <1>4, <2>5 DEF NeedsEntry
    <3>2. Commands(j) = <<a, b>> \o Reread
      BY <2>1, <2>5 DEF EditCommands
    <3>3. a \in GoodCmds /\ a.kind # "getAll" /\ Keeping(a)
      BY <1>g
    <3>4. b \in GoodCmds /\ b.kind # "getAll" /\ Keeping(b)
      BY <1>h, <1>i, <1>j, <3>1
    <3> HIDE DEF a, b
    <3>5. <<a, b>> \in Seq(GoodCmds) /\ \A n \in 1..Len(<<a, b>>) : <<a, b>>[n] = a \/ <<a, b>>[n] = b
      BY <3>3, <3>4
    <3> QED
      BY <3>2, <3>3, <3>4, <3>5, KeepingShaped
  <2> QED
    BY <2>1, <2>2, <2>3, <2>4, <2>5 DEF EditOperations
<1>5. CASE view = "performance"
  <2>1. j.op \in PerformanceOperations /\ Commands(j) = PerformanceCommands(j)
    BY <1>f, <1>5 DEF Commands, Operations
  <2>2. CASE j.op \in {"add", "edit"}
    <3>1. ~Switching(j.op)
      BY <2>2 DEF Switching
    <3> QED
      BY <1>c, <1>f, <1>h, <2>1, <2>2, <3>1 DEF PerformanceCommands
  <2>3. CASE j.op = "activity"
    <3>1. mirror[j.id] # None
      BY <1>5, <2>3 DEF NeedsEntry
    <3>2. Commands(j) = <<Cmd("put", j.id, [mirror[j.id] EXCEPT !.on = j.value.on])>> \o Reread
      BY <2>1, <2>3 DEF PerformanceCommands
    <3> QED
      BY <1>c, <1>h, <1>i, <1>j, <3>1, <3>2
  <2>4. CASE j.op \in {"delete", "disableAll", "deleteAll"}
    BY <1>c, <1>d, <1>e, <1>g, <2>1, <2>4 DEF PerformanceCommands
  <2> QED
    BY <2>1, <2>2, <2>3, <2>4 DEF PerformanceOperations
<1> QED
  BY <1>a, <1>3, <1>4, <1>5

\* A command that keeps the texts, executed or refused.
LEMMA KeptByExecution ==
  ASSUME coll \in Collection, mirror \in Collection, NEW c \in GoodCmds, Keeping(c),
         TextsAgree, coll' \in {coll, Executed(c)}, coll' # None, UNCHANGED mirror
  PROVE  TextsAgree' /\ \A i \in Ids : coll[i] # None /\ coll'[i] # None => coll'[i].text = coll[i].text
<1> SUFFICES ASSUME coll' # coll, coll' = Executed(c) PROVE TextsAgree' /\ \A i \in Ids : coll[i] # None /\ coll'[i] # None => coll'[i].text = coll[i].text
  BY DEF TextsAgree
<1>1. c.kind # "add" /\ c \in Cmds
  BY DEF Keeping, GoodCmds
<1>2. CASE c.kind = "put"
  <2>1. coll' = [coll EXCEPT ![c.id] = c.value]
    BY <1>2 DEF Executed
  <2>2. c.id \in Ids /\ mirror[c.id] # None /\ c.value.text = mirror[c.id].text
    BY <1>2 DEF Keeping
  <2> QED
    BY <2>1, <2>2 DEF TextsAgree, Collection
<1>3. CASE c.kind \in {"check", "getUpdates", "getAll", "touch"}
  BY <1>3 DEF Executed
<1>4. CASE c.kind = "disable"
  <2>1. coll[c.id] # None /\ coll' = [coll EXCEPT ![c.id] = Off(@)]
    BY <1>4 DEF Executed
  <2>2. \A i \in Ids : coll[i] # None => Off(coll[i]).text = coll[i].text
    BY DEF Off, Collection, Entry
  <2> QED
    BY <2>1, <2>2 DEF TextsAgree, Collection
<1>5. CASE c.kind \in {"delete", "restore"}
  <2>1. coll' = [coll EXCEPT ![c.id] = None]
    BY <1>5 DEF Executed
  <2> QED
    BY <2>1 DEF TextsAgree, Collection
<1>6. CASE c.kind = "deleteAll"
  <2>1. coll' = Empty
    BY <1>6 DEF Executed
  <2> QED
    BY <2>1 DEF TextsAgree, Empty
<1>7. CASE c.kind = "disableAll"
  <2>1. coll' = [i \in Ids |-> IF coll[i] = None THEN None ELSE Off(coll[i])]
    BY <1>7 DEF Executed
  <2>2. \A i \in Ids : coll[i] # None => Off(coll[i]).text = coll[i].text
    BY DEF Off, Collection, Entry
  <2> QED
    BY <2>1, <2>2 DEF TextsAgree
<1> QED
  BY <1>1, <1>2, <1>3, <1>4, <1>5, <1>6, <1>7 DEF Cmds

\* Between the jobs the texts agree.
LEMMA AgreedBetween ==
  ASSUME ServiceInv, TextsInv, undisturbed, view # "scripts", ~running
  PROVE  TextsAgree /\ todo = <<>> /\ wire = "idle"
<1>1. todo = <<>> /\ wire = "idle"
  BY DEF ServiceInv, JobOK
<1> QED
  BY <1>1 DEF TextsInv, AboutToRead

LEMMA StillShaped ==
  ASSUME NEW s, NEW op, Shaped(s, op), UNCHANGED mirror
  PROVE  Shaped(s, op)'
BY DEF Shaped, Keeping, Reads

\* A job that goes on with shaped commands, or ends.
LEMMA ContinuesShaped ==
  ASSUME NEW rest, NEW bad, Continue(rest, bad), NEW op, op = Head(queue).op, Shaped(rest, op)', up, UNCHANGED link,
         TextsAgree' \/ (rest # <<>> /\ rest[1].kind = "getAll")
  PROVE  TextsInv'
<1>1. up' /\ view' = view
  BY DEF link
<1>2. todo' = rest /\ wire' \in {"sent", "idle"}
  BY ContinueTells
<1>3. running' => Shaped(todo, Head(queue).op)'
  <2> SUFFICES ASSUME running' PROVE Shaped(todo, Head(queue).op)'
    OBVIOUS
  <2>1. queue' = queue
    BY DEF Continue, JobEnds
  <2> QED
    BY <1>2, <2>1 DEF Shaped, Keeping, Reads
<1> QED
  BY <1>1, <1>2, <1>3 DEF TextsInv, AboutToRead, ListHeard

LEMMA BeginTexts ==
  ASSUME ServiceInv, TextsInv, Begin
  PROVE  TextsInv'
<1> DEFINE j == Head(queue)
<1> SUFFICES ASSUME undisturbed, view # "scripts" PROVE TextsInv'
  BY DEF Begin, link, bounds, TextsInv
<1>1. UNCHANGED <<mirror, coll, link>> /\ queue # <<>> /\ ~running /\ LinkOK /\ up
  BY DEF Begin, emulator, ServiceInv, TextsInv
<1>2. j \in GoodJobs
  BY <1>1, QueueShrinks DEF ServiceInv, PanelOK
<1>3. TextsAgree'
  <2>1. TextsAgree
    BY <1>1, AgreedBetween
  <2> QED
    BY <1>1, <2>1 DEF TextsAgree
<1>4. PICK rest, bad : Continue(rest, bad) /\ Shaped(rest, j.op)
  <2>1. CASE ~supported
    <3>1. JobEnds(FALSE)
      BY <2>1 DEF Begin
    <3>2. Continue(<<>>, TRUE)
      BY <3>1 DEF Continue
    <3> QED
      BY <3>2, NothingShaped
  <2>2. CASE supported /\ NeedsEntry(j) /\ mirror[j.id] = None
    <3>1. Continue(Cleanup(j, Plain("entry")), TRUE)
      BY <2>2 DEF Begin
    <3>2. Shaped(Cleanup(j, Plain("entry")), j.op)
      BY RereadShaped, NothingShaped DEF Cleanup
    <3> QED
      BY <3>1, <3>2
  <2>3. CASE supported /\ ~(NeedsEntry(j) /\ mirror[j.id] = None)
    <3>1. Continue(Commands(j), FALSE)
      BY <2>3 DEF Begin
    <3>2. Shaped(Commands(j), j.op)
      BY <1>1, <1>2, <2>3, CommandsAreShaped
    <3> QED
      BY <3>1, <3>2
  <2> QED
    BY <2>1, <2>2, <2>3
<1>5. PICK op : op = j.op
  OBVIOUS
<1>6. Shaped(rest, op)'
  BY <1>1, <1>4, <1>5, StillShaped
<1> QED
  BY <1>1, <1>3, <1>4, <1>5, <1>6, ContinuesShaped

LEMMA JobEndTexts ==
  ASSUME ServiceInv, TextsInv, NotWhileRunning
  PROVE  TextsInv'
<1> SUFFICES ASSUME undisturbed, view # "scripts" PROVE TextsInv'
  BY DEF NotWhileRunning, link, bounds, TextsInv
<1>1. UNCHANGED <<mirror, coll, link>> /\ queue # <<>> /\ ~running /\ up /\ todo' = <<>> /\ wire' = "idle" /\ ~running'
  BY DEF NotWhileRunning, JobEnds, emulator, TextsInv
<1>2. TextsAgree
  BY <1>1, AgreedBetween
<1> QED
  BY <1>1, <1>2 DEF TextsInv, TextsAgree, ListHeard, link

\* What a command does to the texts: one that changes them has the list behind it.
LEMMA ExecuteTexts ==
  ASSUME ServiceInv, TextsInv, undisturbed, view # "scripts", Execute
  PROVE  /\ TextsInv'
         /\ Switching(Head(queue).op) =>
              \A i \in Ids : coll[i] # None /\ coll'[i] # None => coll'[i].text = coll[i].text
<1> DEFINE c == Head(todo)
           r == Executed(c)
           j == Head(queue)
<1>1. /\ wire = "sent" /\ wire' = "answered" /\ UNCHANGED <<mirror, queue, running, todo, message, dialog, view, up>>
  BY DEF Execute, panel, link
<1>2. /\ c = todo[1] /\ c \in GoodCmds /\ Len(todo) \in Nat \ {0} /\ running /\ up /\ todo # <<>>
      /\ coll \in Collection /\ mirror \in Collection
  BY <1>1, OnTheWire DEF ServiceInv, LinkOK
<1>3. Shaped(todo, j.op)
  BY <1>2 DEF TextsInv
<1>4. Shaped(todo, Head(queue).op)'
  BY <1>1, <1>3 DEF Shaped, Keeping, Reads
<1>5. coll # None /\ coll' # None /\ coll' \in {coll, r}
  <2>1. r = None \/ r \in Collection
    BY <1>2, ExecutedTyped
  <2>2. coll' \in {coll, r} /\ coll' \in Collection
    BY <1>2, <2>1 DEF Execute, emulator
  <2> QED
    BY <1>2, <2>2, NoneIsNoCollection
<1>6. CASE c.kind = "getAll"
  <2>1. r = coll
    BY <1>6 DEF Executed
  <2>2. /\ coll' = r /\ answer' = Answer(TRUE, r, IF c.kind = "add" THEN Min(Free) ELSE c.id)
    BY <1>5, <2>1 DEF Execute
  <2>3. answer'.ok /\ answer'.coll = coll'
    BY <2>2 DEF Answer
  <2>4. AboutToRead' /\ ListHeard'
    BY <1>1, <1>2, <1>6, <2>3 DEF AboutToRead, ListHeard
  <2> QED
    BY <1>1, <1>2, <1>4, <2>1, <2>2, <2>4 DEF TextsInv
<1>7. CASE c.kind # "getAll"
  <2>1. TextsAgree
    BY <1>1, <1>2, <1>7 DEF TextsInv, AboutToRead
  <2>2. ListHeard'
    BY <1>1, <1>2, <1>7 DEF ListHeard
  <2>3. CASE Keeping(c)
    <3>1. TextsAgree' /\ \A i \in Ids : coll[i] # None /\ coll'[i] # None => coll'[i].text = coll[i].text
      <4> HIDE DEF r, c
      <4> QED
        BY <1>1, <1>2, <1>5, <2>1, <2>3, KeptByExecution DEF r
    <3> QED
      BY <1>1, <1>2, <1>4, <2>2, <3>1 DEF TextsInv
  <2>4. CASE ~Keeping(c)
    <3>1. ~Switching(j.op) /\ Len(todo) > 1 /\ todo[2].kind = "getAll"
      BY <1>2, <1>3, <2>4 DEF Shaped
    <3>2. CASE r = None
      <4>1. coll' = coll
        BY <3>2 DEF Execute, emulator
      <4>2. TextsAgree'
        BY <1>1, <2>1, <4>1 DEF TextsAgree
      <4> QED
        BY <1>1, <1>2, <1>4, <2>2, <3>1, <4>2 DEF TextsInv
    <3>3. CASE r # None
      <4>1. answer' = Answer(TRUE, r, IF c.kind = "add" THEN Min(Free) ELSE c.id)
        BY <3>3 DEF Execute
      <4>2. answer'.ok
        BY <4>1 DEF Answer
      <4>3. AboutToRead'
        BY <1>1, <3>1, <4>2 DEF AboutToRead
      <4> QED
        BY <1>1, <1>2, <1>4, <2>2, <3>1, <4>3 DEF TextsInv
    <3> QED
      BY <3>2, <3>3
  <2> QED
    BY <2>3, <2>4
<1> QED
  BY <1>6, <1>7

\* The list is taken over as the emulator holds it; every other answer leaves the mirror.
LEMMA ReceiveTexts ==
  ASSUME ServiceInv, TextsInv, Receive
  PROVE  TextsInv'
<1> DEFINE c == Head(todo)
           j == Head(queue)
           left == IF c.kind = "check" /\ known # answer.rev THEN Reread ELSE Tail(todo)
<1> SUFFICES ASSUME undisturbed, view # "scripts" PROVE TextsInv'
  BY DEF Receive, link, bounds, TextsInv
<1>1. /\ wire = "answered" /\ coll' = coll /\ UNCHANGED link /\ answer.ok \in BOOLEAN
  BY DEF Receive, emulator, ServiceInv, JobOK
<1>2. /\ c = todo[1] /\ Len(todo) \in Nat \ {0} /\ Len(Tail(todo)) = Len(todo) - 1 /\ running /\ up /\ todo # <<>>
      /\ \A n \in 1..Len(Tail(todo)) : n + 1 \in 1..Len(todo) /\ Tail(todo)[n] = todo[n + 1]
      /\ Tail(todo) \in Seq(GoodCmds)
  BY <1>1, OnTheWire
<1>3. Shaped(todo, j.op) /\ ListHeard
  BY <1>2 DEF TextsInv
<1>4. /\ c.kind = "getAll" => answer.ok /\ mirror' = coll'
      /\ c.kind # "getAll" => mirror' = mirror
  <2>1. CASE c.kind = "getAll"
    <3>1. answer.ok /\ answer.coll = coll
      BY <1>1, <1>2, <1>3, <2>1 DEF ListHeard
    <3>2. Publish(j, c, answer)
      BY <3>1 DEF Receive
    <3> QED
      BY <1>1, <2>1, <3>1, <3>2 DEF Publish
  <2>2. CASE c.kind # "getAll"
    <3>1. CASE answer.ok
      <4>1. Publish(j, c, answer)
        BY <3>1 DEF Receive
      <4> QED
        BY <2>2, <4>1 DEF Publish
    <3>2. CASE ~answer.ok
      BY <2>2, <3>2 DEF Receive
    <3> QED
      BY <3>1, <3>2
  <2> QED
    BY <2>1, <2>2
<1>5. TextsAgree' \/ (answer.ok /\ c.kind # "getAll" /\ Len(todo) > 1 /\ todo[2].kind = "getAll")
  <2>1. CASE c.kind = "getAll"
    BY <1>4, <2>1 DEF TextsAgree
  <2>2. CASE c.kind # "getAll" /\ TextsAgree
    BY <1>1, <1>4, <2>2 DEF TextsAgree
  <2>3. CASE c.kind # "getAll" /\ ~TextsAgree
    BY <1>2, <2>3 DEF TextsInv, AboutToRead
  <2> QED
    BY <2>1, <2>2, <2>3
<1>6. PICK s, op : s = Tail(todo) /\ op = j.op
  OBVIOUS
<1>7. /\ Len(s) = Len(todo) - 1
      /\ \A n \in 1..Len(s) : n + 1 \in 1..Len(todo) /\ s[n] = todo[n + 1]
  BY <1>2, <1>6
\* What is left keeps the texts, or is all reading.
<1>8. Shaped(s, op)'
  <2>1. ASSUME NEW n \in 1..Len(s) PROVE Keeping(s[n])'
    <3>1. s[n] = todo[n+1] /\ n + 1 \in 1..Len(todo) /\ n + 1 # 1 /\ 1 < n + 1 /\ 1 \in 1..Len(todo)
      BY <1>2, <1>7
    <3>2. CASE c.kind = "getAll"
      <4>1. Reads(todo[n+1])
        BY <1>2, <1>3, <3>1, <3>2 DEF Shaped
      <4> QED
        BY <3>1, <4>1 DEF Reads, Keeping
    <3>3. CASE c.kind # "getAll"
      <4>1. Keeping(todo[n+1])
        BY <1>3, <3>1 DEF Shaped
      <4> QED
        BY <1>4, <3>1, <3>3, <4>1 DEF Keeping
    <3> QED
      BY <3>2, <3>3
  <2>2. ASSUME NEW m \in 1..Len(s), NEW n \in 1..Len(s), m < n, s[m].kind = "getAll"
        PROVE  Reads(s[n])
    <3>1. /\ s[n] = todo[n+1] /\ n + 1 \in 1..Len(todo)
          /\ s[m] = todo[m+1] /\ m + 1 \in 1..Len(todo) /\ m + 1 < n + 1
      BY <1>7, <2>2
    <3>2. Reads(todo[n+1])
      BY <1>3, <2>2, <3>1 DEF Shaped
    <3> QED
      BY <3>1, <3>2
  <2> QED
    BY <2>1, <2>2 DEF Shaped, Keeping, Reads
<1>9. \A x : x \in {<<>>, Reread} => Shaped(x, op)' /\ (x = <<>> \/ x[1].kind = "getAll")
  <2> SUFFICES ASSUME NEW x, x \in {<<>>, Reread} PROVE Shaped(x, op)' /\ (x = <<>> \/ x[1].kind = "getAll")
    OBVIOUS
  <2>1. CASE x = <<>>
    BY <2>1, EmptySeq DEF Shaped
  <2>2. CASE x = Reread
    <3>1. x[1].kind = "getAll" /\ \A n \in 1..Len(x) : Reads(x[n])
      BY <2>2, RereadReads
    <3> QED
      BY <3>1 DEF Shaped, Reads, Keeping
  <2> QED
    BY <2>1, <2>2
\* Only what has been heard ends the job or goes on with the rest.
<1>10. PICK rest, bad : Continue(rest, bad) /\ Shaped(rest, op)'
                        /\ (TextsAgree' \/ (rest # <<>> /\ rest[1].kind = "getAll"))
  <2>1. Cleanup(j, c) \in {<<>>, Reread}
    BY DEF Cleanup
  <2>2. CASE ~answer.ok
    <3> DEFINE rest == IF failing THEN <<>> ELSE Cleanup(j, c)
    <3>1. Continue(rest, TRUE) /\ rest \in {<<>>, Reread}
      BY <2>1, <2>2 DEF Receive
    <3> HIDE DEF rest
    <3> QED
      BY <1>5, <1>9, <2>2, <3>1
  <2>3. CASE answer.ok /\ left = <<>> /\ ~failing /\ ~Achieved(j)
    <3>1. Continue(Cleanup(j, c), TRUE)
      BY <2>3 DEF Receive
    <3>2. ~(Len(todo) > 1 /\ todo[2].kind = "getAll")
      <4>1. CASE c.kind = "check" /\ known # answer.rev
        BY <2>3, <4>1, RereadGood
      <4>2. CASE ~(c.kind = "check" /\ known # answer.rev)
        <5>1. Tail(todo) = <<>>
          BY <2>3, <4>2
        <5>2. Len(s) = 0
          BY <1>6, <5>1, EmptySeq
        <5> DEFINE l == Len(todo)
        <5>3. l \in Nat /\ l - 1 = 0
          BY <1>2, <1>7, <5>2
        <5> HIDE DEF l
        <5>4. ~(l > 1)
          BY <5>3
        <5> QED
          BY <5>4 DEF l
      <4> QED
        BY <4>1, <4>2
    <3> QED
      BY <1>5, <1>9, <2>1, <3>1, <3>2
  <2>4. CASE answer.ok /\ ~(left = <<>> /\ ~failing /\ ~Achieved(j))
    <3>1. Continue(left, failing)
      BY <2>4 DEF Receive
    <3>2. CASE c.kind = "check" /\ known # answer.rev
      <4>1. left = Reread /\ Reread # <<>>
        BY <3>2, RereadGood
      <4> HIDE DEF left
      <4> QED
        BY <1>9, <3>1, <4>1
    <3>3. CASE ~(c.kind = "check" /\ known # answer.rev)
      <4>1. left = s
        BY <1>6, <3>3
      <4>2. TextsAgree' \/ (s # <<>> /\ s[1].kind = "getAll")
        <5>1. Len(todo) > 1 /\ todo[2].kind = "getAll" => Len(s) # 0 /\ s[1].kind = "getAll"
          <6> SUFFICES ASSUME Len(todo) > 1, todo[2].kind = "getAll"
                       PROVE  Len(s) # 0 /\ s[1].kind = "getAll"
            OBVIOUS
          <6>1. 1 \in 1..Len(s) /\ 1 + 1 = 2 /\ Len(s) # 0
            BY <1>2, <1>7
          <6> QED
            BY <1>7, <6>1
        <5> QED
          BY <1>5, <5>1, EmptySeq
      <4> HIDE DEF left
      <4> QED
        BY <1>8, <3>1, <4>1, <4>2
    <3> QED
      BY <3>2, <3>3
  <2> QED
    BY <1>1, <2>2, <2>3, <2>4
<1> QED
  BY <1>1, <1>2, <1>6, <1>10, ContinuesShaped

\* What the user asks for waits behind the job that runs.
LEMMA WaitsBehind ==
  ASSUME ServiceInv, running, NEW x, queue' \in {queue, Append(queue, x)}
  PROVE  Head(queue') = Head(queue)
<1>1. queue \in Seq(GoodJobs) /\ queue # <<>>
  BY DEF ServiceInv, JobOK, PanelOK, QueueOK
<1> SUFFICES ASSUME queue' = Append(queue, x) PROVE Head(queue') = Head(queue)
  OBVIOUS
<1>2. queue \in Seq(GoodJobs \cup {x}) /\ Len(queue) \in Nat \ {0}
  BY <1>1, EmptySeq
<1> QED
  BY <1>1, <1>2

LEMMA UserTexts ==
  ASSUME ServiceInv, TextsInv, up,
         UNCHANGED <<link, undisturbed, coll, mirror, todo, wire, answer, running>>,
         NEW x, queue' \in {queue, Append(queue, x)}
  PROVE  TextsInv'
<1> SUFFICES ASSUME undisturbed, view # "scripts" PROVE TextsInv'
  BY DEF link, TextsInv
<1>1. up' /\ view' = view
  BY DEF link
<1>2. (TextsAgree \/ AboutToRead)' /\ ListHeard'
  BY DEF TextsInv, TextsAgree, AboutToRead, ListHeard
<1>3. running' => Shaped(todo, Head(queue).op)'
  <2> SUFFICES ASSUME running PROVE Shaped(todo, Head(queue).op)'
    OBVIOUS
  <2>1. Head(queue') = Head(queue) /\ Shaped(todo, Head(queue).op)
    BY WaitsBehind DEF TextsInv
  <2> QED
    BY <2>1 DEF Shaped, Keeping, Reads
<1> QED
  BY <1>1, <1>2, <1>3 DEF TextsInv

LEMMA HandleMessageTexts ==
  ASSUME ServiceInv, TextsInv, HandleMessage
  PROVE  TextsInv'
<1> SUFFICES ASSUME undisturbed, view # "scripts" PROVE TextsInv'
  BY DEF HandleMessage, link, bounds, TextsInv
<1>1. /\ up /\ UNCHANGED <<link, undisturbed, coll, mirror, todo, wire, answer, running>>
  BY DEF HandleMessage, TextsInv, emulator, bounds
<1>2. \E x : queue' \in {queue, Append(queue, x)}
  BY DEF HandleMessage, RunOperation
<1> QED
  BY <1>1, <1>2, UserTexts

LEMMA ConfirmTexts ==
  ASSUME ServiceInv, TextsInv, Confirm
  PROVE  TextsInv'
<1> SUFFICES ASSUME undisturbed, view # "scripts" PROVE TextsInv'
  BY DEF Confirm, link, bounds, TextsInv
<1>1. dialog # {} /\ UNCHANGED <<link, undisturbed, coll, mirror, todo, wire, answer, running>>
  BY DEF Confirm, emulator, bounds
<1>2. up
  BY <1>1 DEF TextsInv
<1>3. \E x : queue' \in {queue, Append(queue, x)}
  BY DEF Confirm, RunOperation
<1> QED
  BY <1>1, <1>2, <1>3, UserTexts

LEMMA PollTexts ==
  ASSUME ServiceInv, TextsInv, Poll
  PROVE  TextsInv'
<1>1. up /\ UNCHANGED <<link, undisturbed, coll, mirror, todo, wire, answer, running>>
  BY DEF Poll, emulator, bounds, ServiceInv, PanelOK, Polls
<1>2. \E x : queue' \in {queue, Append(queue, x)}
  BY DEF Poll, RequestDrain
<1> QED
  BY <1>1, <1>2, UserTexts

LEMMA ClickTexts ==
  ASSUME ServiceInv, TextsInv, Click
  PROVE  TextsInv'
<1>1. up /\ UNCHANGED <<link, undisturbed, coll, mirror, todo, wire, answer, running, queue>>
  BY DEF Click, emulator, service
<1> QED
  BY <1>1, UserTexts

\* The first session: nothing is queued, and the mirror is empty.
LEMMA OpeningTexts ==
  ASSUME ServiceInv, SessionOpens
  PROVE  TextsInv'
<1>1. up' /\ mirror' = Empty /\ todo' = <<>> /\ wire' = "idle" /\ ~running'
  BY DEF SessionOpens, ServiceInv, LinkOK, JobOK
<1>2. TextsAgree'
  BY <1>1 DEF TextsAgree, Empty
<1> QED
  BY <1>1, <1>2 DEF TextsInv, ListHeard

LEMMA StepTexts ==
  ASSUME ServiceInv, TextsInv, [Next]_vars
  PROVE  TextsInv'
<1>1. CASE Begin
  BY <1>1, BeginTexts
<1>2. CASE NotWhileRunning
  BY <1>2, JobEndTexts
<1>3. CASE Execute
  <2>1. UNCHANGED <<view, undisturbed>>
    BY <1>3 DEF Execute, link, bounds
  <2>2. CASE undisturbed /\ view # "scripts"
    BY <1>3, <2>2, ExecuteTexts
  <2>3. CASE ~(undisturbed /\ view # "scripts")
    BY <2>1, <2>3 DEF TextsInv
  <2> QED
    BY <2>2, <2>3
<1>4. CASE Receive
  BY <1>4, ReceiveTexts
<1>5. CASE HandleMessage
  BY <1>5, HandleMessageTexts
<1>6. CASE Confirm
  BY <1>6, ConfirmTexts
<1>7. CASE Poll
  BY <1>7, PollTexts
<1>8. CASE Click
  BY <1>8, ClickTexts
<1>9. CASE SessionOpens
  BY <1>9, OpeningTexts
<1>10. CASE Fail \/ ShowOrHide \/ StateChanged \/ SessionLost \/ OthersChange
  <2>1. undisturbed' = FALSE
    BY <1>10 DEF Fail, ShowOrHide, StateChanged, SessionLost, OthersChange, Disturb
  <2> QED
    BY <2>1 DEF TextsInv
<1>11. CASE UNCHANGED vars
  <2>1. UNCHANGED <<undisturbed, view, up, queue, message, dialog, mirror, coll, todo, wire, answer, running>>
    BY <1>11 DEF vars, service, panel, emulator, link, bounds
  <2> QED
    BY <2>1 DEF TextsInv, TextsAgree, AboutToRead, ListHeard, Shaped, Keeping, Reads
<1> QED
  BY <1>1, <1>2, <1>3, <1>4, <1>5, <1>6, <1>7, <1>8, <1>9, <1>10, <1>11 DEF Next

(* Switching one entry or all of them off or on never touches what else they *)
(* hold: whatever edits were asked for just before, refused or still queued, *)
(* the record a switch writes has the text the emulator holds, in the three  *)
(* services that build it when the job runs.                                *)
THEOREM ASwitchKeepsTheText == Spec => SwitchKeepsText
<1>1. Init => TextsInv
  <2> SUFFICES ASSUME Init PROVE TextsInv
    OBVIOUS
  <2>1. TextsAgree
    BY DEF Init, TextsAgree
  <2> QED
    BY <2>1 DEF Init, TextsInv, ListHeard
<1>2. ServiceInv /\ TextsInv /\ [Next]_vars => TextsInv'
  BY StepTexts
<1>3. ServiceInv /\ TextsInv /\ [Next]_vars =>
        [view # "scripts" /\ wire = "sent" /\ coll' # coll /\ undisturbed'
         /\ Head(queue).op \in {"activity", "disableAll"}
         => \A i \in Ids : coll[i] # None /\ coll'[i] # None => coll'[i].text = coll[i].text]_vars
  <2> SUFFICES ASSUME ServiceInv, TextsInv, [Next]_vars, view # "scripts", wire = "sent", coll' # coll, undisturbed',
                      Switching(Head(queue).op)
               PROVE  \A i \in Ids : coll[i] # None /\ coll'[i] # None => coll'[i].text = coll[i].text
    BY DEF Switching
  <2>1. CASE Execute
    <3>1. undisturbed
      BY <2>1 DEF Execute, bounds
    <3> QED
      BY <2>1, <3>1, ExecuteTexts
  <2>2. CASE Fail \/ ShowOrHide \/ StateChanged \/ SessionLost \/ OthersChange
    BY <2>2 DEF Fail, ShowOrHide, StateChanged, SessionLost, OthersChange, Disturb
  <2>3. CASE SessionOpens
    <3>1. up
      BY OnTheWire
    <3> QED
      BY <2>3, <3>1 DEF SessionOpens
  <2>4. CASE Begin \/ NotWhileRunning \/ Receive \/ Click \/ HandleMessage \/ Confirm \/ Poll \/ UNCHANGED vars
    BY <2>4 DEF Begin, NotWhileRunning, Receive, Click, HandleMessage, Confirm, Poll, vars, emulator
  <2> QED
    BY <2>1, <2>2, <2>3, <2>4 DEF Next
<1> QED
  BY <1>1, <1>2, <1>3, ServiceIsSound, PTL DEF Spec, SwitchKeepsText
=============================================================================
