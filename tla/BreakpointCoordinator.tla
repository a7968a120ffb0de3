----------------------- MODULE BreakpointCoordinator -----------------------
(***************************************************************************)
(* Breakpoints of a debug session:                                         *)
(* src/src/debug/session/breakpoint-coordinator.ts reconciles the source   *)
(* and instruction breakpoints VS Code asks for and the temporaries of     *)
(* stepping (step-breakpoint-store.ts) with the one set the emulator holds.*)
(*                                                                         *)
(* enqueue() runs the operations one at a time, and waiting operations     *)
(* hold nothing, so only the running one, op, is state.  op.pc names the   *)
(* command it awaits, or the loop it is in: in "items" and "deletions"     *)
(* JavaScript is running and nothing else of the extension can.            *)
(*                                                                         *)
(* A configuration is a condition with a hit count, and a log message.     *)
(* The emulator knows the first part only, BackendOf.  Breakpoint ids      *)
(* follow the addresses and are left out.                                  *)
(***************************************************************************)
EXTENDS Integers, Sequences, FiniteSets

CONSTANTS Addresses, Sources,
          Configs,        \* configurations a request may ask for
          Logpoints,      \* those with a log message
          BackendOf,      \* the part of a configuration the emulator sees
          None,           \* no address, no configuration, no breakpoint
          Temp, Foreign,  \* emulator breakpoints of stepping, and of others
          Modes,          \* may the emulator refuse a command ("rejecting"), and one
                          \* request name an address twice ("duplicates")?  Bounds:
                          \* how many breakpoints may it name ("longest"), with which
                          \* of the configurations ("configs")?
          MaxRefs,        \* bound: temporary references to one address
          MaxOperations   \* bound: operations

Backends == {BackendOf[c] : c \in Configs}

ASSUME BreakpointAssumption ==
    /\ Logpoints \subseteq Configs
    /\ BackendOf \in [Configs -> Backends]
    /\ None \notin Addresses \cup Configs \cup Backends \cup {Temp, Foreign}
    /\ {Temp, Foreign} \cap Backends = {} /\ Temp # Foreign
    /\ Modes \subseteq [rejecting : BOOLEAN, duplicates : BOOLEAN, longest : Nat, configs : SUBSET Configs]
    /\ MaxRefs \in Nat /\ MaxOperations \in Nat

VARIABLES
    known,         \* breakpointsByAddress, and the addresses the store holds
                   \* to be user owned: acknowledged configurations
    sources,       \* sourceBpAddresses
    instructions,  \* instructionBpAddresses
    refs,          \* temporaryReferences of the store
    announced,     \* serverBreakpointIds
    op,            \* the running operation
    phase,         \* adapter: "attached", "leaving" in cleanup(), "cleared"
    leaving,       \* adapter: addresses cleanup() has yet to delete
    link,          \* is the session connected?
    backend,       \* environment: the emulator's breakpoints
    mode,          \* what this behaviour is exposed to
    lapsed,        \* history: temporaries hit, or never put back (a warning)
    count          \* operations so far

books == <<sources, refs, announced>>
coordinator == <<known, instructions, books>>
host == <<phase, leaving, link, count, mode>>
world == <<backend, lapsed, host>>
vars == <<coordinator, op, world>>

Requests == [addr : Addresses \cup {None}, config : Configs \cup {None}]
Kinds == {"none", "source", "instructions", "temporary", "synchronize"}
Awaits == {"adding", "deleting", "restoring", "acquiring", "releasing", "listing"}

Idle == [kind |-> "none", pc |-> "idle", live |-> TRUE, source |-> None,
         todo |-> <<>>, previous |-> {}, desired |-> {},
         requested |-> [a \in Addresses |-> None], deletions |-> {}, at |-> None]

TypeOK ==
    /\ known \in [Addresses -> Configs \cup {None}]
    /\ sources \in [Sources -> SUBSET Addresses]
    /\ instructions \subseteq Addresses
    /\ refs \in [Addresses -> Nat]
    /\ announced \subseteq Addresses
    /\ op \in [kind : Kinds, pc : {"idle", "items", "deletions"} \cup Awaits,
               live : BOOLEAN, source : Sources \cup {None}, todo : Seq(Requests),
               previous : SUBSET Addresses, desired : SUBSET Addresses,
               requested : [Addresses -> Configs \cup {None}],
               deletions : SUBSET Addresses, at : Addresses \cup {None}]
    /\ phase \in {"attached", "leaving", "cleared"}
    /\ leaving \subseteq Addresses
    /\ link \in BOOLEAN
    /\ backend \in [Addresses -> Backends \cup {None, Temp, Foreign}]
    /\ lapsed \subseteq Addresses /\ mode \in Modes
    /\ count \in Nat

Init ==
    /\ known = [a \in Addresses |-> None]
    /\ sources = [s \in Sources |-> {}]
    /\ instructions = {}
    /\ refs = [a \in Addresses |-> 0]
    /\ announced = {}
    /\ op = Idle
    /\ phase = "attached" /\ leaving = {} /\ link = TRUE
    /\ backend \in [Addresses -> {None, Foreign}] /\ mode \in Modes
    /\ lapsed = {} /\ count = 0

-----------------------------------------------------------------------------
(* References, conflicts and commands.                                     *)

UserOwned(a) == known[a] # None
OtherSource(a, s) == \E t \in Sources \ {s} : a \in sources[t]
Referenced(a) == a \in instructions \/ \E s \in Sources : a \in sources[s]

Running == op.pc \in {"items", "deletions"}

\* A new operation reaches the head of the tail.
Start ==
    /\ op.pc = "idle" /\ phase # "cleared" /\ count < MaxOperations
    /\ count' = count + 1 /\ UNCHANGED mode

\* parseBreakpointConfiguration: instruction breakpoints take no log message.
Parsed(r) == IF op.kind = "instructions" /\ r.config \in Logpoints THEN None
             ELSE r.config

\* Mutant: instruction breakpoints are not asked.
ReplaceableBySource(a) == a \in op.previous /\ ~OtherSource(a, op.source)
\* May the acknowledged configuration of a give way to another one?
Replaceable(a) ==
    /\ a \in op.previous
    /\ IF op.kind = "source" THEN ~OtherSource(a, op.source) /\ a \notin instructions
       ELSE \A s \in Sources : a \notin sources[s]

\* An entry that gets no breakpoint: no code, a bad configuration, another one
\* in the same request, or one somebody else relies on.
Refuses(r) ==
    IF r.addr = None \/ Parsed(r) = None THEN TRUE
    ELSE \/ op.kind = "source" /\ op.requested[r.addr] \notin {None, r.config}
         \/ UserOwned(r.addr) /\ known[r.addr] # r.config /\ ~Replaceable(r.addr)

\* sameBackendConfiguration: does the emulator have to be told?
NeedsAdd(r) == IF UserOwned(r.addr)
               THEN BackendOf[known[r.addr]] # BackendOf[r.config] ELSE TRUE

\* The emulator's breakpoints once it has carried out the awaited command.
Landed ==
    CASE op.pc = "adding" -> [backend EXCEPT ![op.at] = BackendOf[Head(op.todo).config]]
      [] op.pc \in {"restoring", "acquiring"} -> [backend EXCEPT ![op.at] = Temp]
      [] op.pc \in {"deleting", "releasing"} -> [backend EXCEPT ![op.at] = None]
      [] OTHER -> backend

\* The awaited command succeeds, or is refused or loses its connection.
\* A stale operation does neither: assertCurrent throws.
Accepted == op.live /\ link /\ backend' = Landed
Failed == (~link \/ mode.rejecting) /\ UNCHANGED backend
-----------------------------------------------------------------------------
(* setSource and setInstructions.                                          *)

Lists == {l \in UNION {[1..n -> Requests] : n \in 0..mode.longest} :
            /\ \A i \in DOMAIN l : l[i].config \in mode.configs \cup {None}
            /\ \/ mode.duplicates
               \/ \A i, j \in DOMAIN l : l[i].addr # None /\ l[i].addr = l[j].addr => i = j}
Listed(l) == {l[i].addr : i \in DOMAIN l} \ {None}

SetSource(s, l) ==
    /\ Start
    /\ op' = [Idle EXCEPT !.kind = "source", !.pc = "items", !.source = s,
                          !.todo = l, !.previous = sources[s]]
    /\ UNCHANGED <<coordinator, phase, leaving, link, backend, lapsed>>

\* The instruction set is replaced first, what is no longer wanted is deleted,
\* and then the entries are added.
ReplaceInstructions(l, unwanted) ==
    /\ Start
    /\ \A i \in DOMAIN l : l[i].addr # None
    /\ instructions' = Listed(l)
    /\ op' = [Idle EXCEPT !.kind = "instructions", !.pc = "deletions", !.todo = l,
                          !.previous = instructions, !.deletions = unwanted]
    /\ UNCHANGED <<known, books, phase, leaving, link, backend, lapsed>>

\* Mutant: instruction breakpoints no longer wanted are only forgotten.
SetInstructionsOnly(l) == ReplaceInstructions(l, {})
SetInstructions(l) == ReplaceInstructions(l, instructions \ Listed(l))

\* The entry at the head is done, and its address wanted or not.
NextItem(o, desired) ==
    [o EXCEPT !.pc = "items", !.todo = Tail(@), !.at = None, !.desired = desired]
Wanted(o) == /\ op' = NextItem(o, o.desired \cup {Head(o.todo).addr})
             /\ UNCHANGED instructions
\* Mutant: a refused instruction breakpoint stays counted.
UnwantedKept(o) == /\ op' = NextItem(o, o.desired \cup ({Head(o.todo).addr} \cap o.previous))
                   /\ UNCHANGED instructions
Unwanted(o) ==
    LET a == Head(o.todo).addr IN
    /\ op' = NextItem(o, o.desired \cup ({a} \cap o.previous))
    /\ instructions' = IF o.kind = "source" THEN instructions
                       ELSE instructions \ ({a} \ o.previous)

\* The first entry with an address is the request for that address.
Noted == LET r == Head(op.todo) IN
         IF r.addr # None /\ r.config # None
         THEN [op EXCEPT !.requested[r.addr] = IF @ = None THEN r.config ELSE @]
         ELSE op

Item ==
    /\ op.pc = "items" /\ op.todo # <<>>
    /\ LET r == Head(op.todo) IN
       \/ Refuses(r) /\ Unwanted(Noted) /\ UNCHANGED known
       \/ /\ ~Refuses(r) /\ NeedsAdd(r)
          /\ op' = [Noted EXCEPT !.pc = "adding", !.at = r.addr]
          /\ UNCHANGED <<known, instructions>>
       \/ /\ ~Refuses(r) /\ ~NeedsAdd(r)
          /\ known' = [known EXCEPT ![r.addr] = r.config]
          /\ Wanted(Noted)
    /\ UNCHANGED <<books, world>>

\* DEBUG_BREAKPOINT_ADD answered: only then is the breakpoint recorded.
Added ==
    /\ op.pc = "adding" /\ Accepted
    /\ known' = [known EXCEPT ![op.at] = Head(op.todo).config]
    /\ lapsed' = lapsed \ {op.at}
    /\ Wanted(op)
    /\ UNCHANGED <<books, host>>

AddFails(current) == /\ op.pc = "adding" /\ current /\ Failed
                     /\ Unwanted(op)
                     /\ UNCHANGED <<known, books, lapsed, host>>
\* Mutant: the catch of a failed ADD does not look at the session.
NotAddedUnchecked == AddFails(TRUE)
NotAdded == AddFails(op.live)

\* The entries of a source are done: its set is replaced, and what it alone
\* referred to is to be deleted.  Instructions end here.
ItemsDone ==
    /\ op.pc = "items" /\ op.todo = <<>>
    /\ IF op.kind = "source"
       THEN /\ sources' = [sources EXCEPT ![op.source] = op.desired]
            /\ op' = [op EXCEPT !.pc = "deletions",
                                !.deletions = op.previous \ op.desired]
       ELSE UNCHANGED sources /\ op' = Idle
    /\ UNCHANGED <<known, instructions, refs, announced, world>>

Deletion(a) ==
    /\ op.pc = "deletions" /\ a \in op.deletions
    /\ op' = IF Referenced(a) THEN [op EXCEPT !.deletions = @ \ {a}]
             ELSE [op EXCEPT !.pc = "deleting", !.at = a]
    /\ UNCHANGED <<coordinator, world>>

DeletionsDone ==
    /\ op.pc = "deletions" /\ op.deletions = {}
    /\ op' = IF op.kind = "source" THEN Idle ELSE [op EXCEPT !.pc = "items"]
    /\ UNCHANGED <<coordinator, world>>

NextDeletion == [op EXCEPT !.pc = "deletions", !.deletions = @ \ {op.at}, !.at = None]

DeletedThen(restore) ==
    /\ op.pc = "deleting" /\ Accepted
    /\ known' = [known EXCEPT ![op.at] = None]
    /\ op' = IF restore THEN [op EXCEPT !.pc = "restoring"] ELSE NextDeletion
    /\ UNCHANGED <<instructions, books, lapsed, host>>
\* Mutant: the temporary is forgotten.
DeletedOnly == DeletedThen(FALSE)
\* DEBUG_BREAKPOINT_DEL answered: a temporary at that address is put back.
Deleted == DeletedThen(op.at \in Addresses /\ refs[op.at] > 0)

\* The address stays referenced and the request is rejected.
GiveUp ==
    /\ op' = Idle
    /\ IF op.kind = "source"
       THEN sources' = [sources EXCEPT ![op.source] = @ \cup {op.at}] /\ UNCHANGED instructions
       ELSE instructions' = instructions \cup {op.at} /\ UNCHANGED sources
    /\ UNCHANGED <<known, refs, announced, lapsed, host>>
NotDeleted == op.pc = "deleting" /\ op.live /\ Failed /\ GiveUp

\* A refused restoration is only a warning, a lost connection ends the request.
Restored ==
    /\ op.pc = "restoring"
    /\ \/ /\ op' = NextDeletion
          /\ \/ Accepted /\ lapsed' = lapsed \ {op.at}
             \/ op.live /\ link /\ Failed /\ lapsed' = lapsed \cup {op.at}
          /\ UNCHANGED <<coordinator, host>>
       \/ op.live /\ ~link /\ Failed /\ GiveUp
-----------------------------------------------------------------------------
(* Temporaries and synchronization.                                        *)

Temporary(pc, a) == [Idle EXCEPT !.kind = "temporary", !.pc = pc, !.at = a]

AcquireWith(a, install) ==
    /\ Start /\ refs[a] < MaxRefs
    /\ op' = IF install THEN Temporary("acquiring", a) ELSE op
    /\ refs' = IF install THEN refs ELSE [refs EXCEPT ![a] = @ + 1]
    /\ UNCHANGED <<known, sources, instructions, announced, phase, leaving, link,
                   backend, lapsed>>
\* Mutant: a user breakpoint at the address is replaced.
AcquireAlways(a) == AcquireWith(a, refs[a] = 0)
Acquire(a) == AcquireWith(a, refs[a] = 0 /\ ~UserOwned(a))

Acquired ==
    /\ op.pc = "acquiring"
    /\ \/ /\ Accepted
          /\ refs' = [refs EXCEPT ![op.at] = 1]
          /\ lapsed' = lapsed \ {op.at}
       \/ op.live /\ Failed /\ UNCHANGED <<refs, lapsed>>
    /\ op' = Idle
    /\ UNCHANGED <<known, sources, instructions, announced, host>>

ReleaseWith(a, held, remove) ==
    /\ Start /\ held
    /\ refs' = [refs EXCEPT ![a] = @ - 1]
    /\ lapsed' = IF refs[a] = 1 THEN lapsed \ {a} ELSE lapsed
    /\ op' = IF remove THEN Temporary("releasing", a) ELSE op
    /\ UNCHANGED <<known, sources, instructions, announced, phase, leaving, link,
                   backend>>
\* Mutants: release does not look for a reference, or leaves the breakpoint.
ReleaseUnheld(a) == ReleaseWith(a, TRUE, refs[a] = 1 /\ ~UserOwned(a))
ReleaseKeeps(a) == ReleaseWith(a, refs[a] > 0, FALSE)
\* The last reference is forgotten before the emulator is told.
Release(a) == ReleaseWith(a, refs[a] > 0, refs[a] = 1 /\ ~UserOwned(a))

Released ==
    /\ op.pc = "releasing" /\ (Accepted \/ (op.live /\ Failed))
    /\ op' = Idle
    /\ UNCHANGED <<coordinator, lapsed, host>>

Synchronize ==
    /\ Start
    /\ op' = [Idle EXCEPT !.kind = "synchronize", !.pc = "listing"]
    /\ UNCHANGED <<coordinator, phase, leaving, link, backend, lapsed>>

\* What the emulator holds and the user did not set is announced to VS Code.
Listing ==
    /\ op.pc = "listing"
    /\ \/ /\ Accepted
          /\ announced' = {a \in Addresses : /\ backend[a] # None
                                             /\ (a \in announced \/ ~UserOwned(a))}
       \/ op.live /\ Failed /\ UNCHANGED announced
    /\ op' = Idle
    /\ UNCHANGED <<known, sources, instructions, refs, lapsed, host>>
-----------------------------------------------------------------------------
(* The session and the emulator.                                           *)

\* The answer of an operation whose session was cleared: it throws.
StaleAnswer == /\ op.pc \in Awaits /\ ~op.live
               /\ op' = Idle
               /\ UNCHANGED <<coordinator, world>>

\* The program reaches a temporary, which deletes itself.
TemporaryHit(a) ==
    /\ ~Running /\ backend[a] = Temp
    /\ backend' = [backend EXCEPT ![a] = None]
    /\ lapsed' = IF refs[a] > 0 THEN lapsed \cup {a} ELSE lapsed
    /\ UNCHANGED <<coordinator, op, host>>

LinkLost ==
    /\ ~Running /\ link
    /\ link' = FALSE
    /\ UNCHANGED <<coordinator, op, phase, leaving, backend, lapsed, count, mode>>

\* cleanup() of the adapter takes the user's addresses and deletes them one by
\* one; the commands of one socket are answered in the order they were sent.
Leave ==
    /\ ~Running /\ phase = "attached" /\ link
    /\ phase' = "leaving"
    /\ leaving' = {a \in Addresses : UserOwned(a)}
    /\ UNCHANGED <<coordinator, op, link, backend, lapsed, count, mode>>

LeaveDeletes(a) ==
    /\ phase = "leaving" /\ a \in leaving /\ op.pc = "idle"
    /\ leaving' = leaving \ {a}
    /\ \/ link /\ backend' = [backend EXCEPT ![a] = None]
       \/ Failed /\ UNCHANGED backend
    /\ UNCHANGED <<coordinator, op, phase, link, lapsed, count, mode>>

\* The adapter disconnects, calls clear() and forgets its client, in one go.
\* The command in flight may still be carried out.
Clear ==
    /\ ~Running /\ phase # "cleared"
    /\ (phase = "leaving" /\ leaving = {}) \/ ~link
    /\ phase' = "cleared" /\ leaving' = {} /\ link' = FALSE
    /\ known' = [a \in Addresses |-> None]
    /\ sources' = [s \in Sources |-> {}]
    /\ refs' = [a \in Addresses |-> 0]
    /\ instructions' = {} /\ announced' = {}
    /\ op' = [op EXCEPT !.live = FALSE]
    /\ backend' \in IF link THEN {backend, Landed} ELSE {backend}
    /\ UNCHANGED <<lapsed, count, mode>>

Next ==
    \/ \E l \in Lists : SetInstructions(l) \/ \E s \in Sources : SetSource(s, l)
    \/ Item \/ Added \/ NotAdded \/ ItemsDone
    \/ \E a \in Addresses : Deletion(a)
    \/ DeletionsDone \/ Deleted \/ NotDeleted \/ Restored
    \/ \E a \in Addresses : Acquire(a) \/ Release(a)
    \/ Acquired \/ Released \/ Synchronize \/ Listing
    \/ StaleAnswer \/ LinkLost \/ Leave \/ Clear
    \/ \E a \in Addresses : TemporaryHit(a) \/ LeaveDeletes(a)

Spec == Init /\ [][Next]_vars

-----------------------------------------------------------------------------
(* Properties.                                                             *)

Attached == phase = "attached" /\ link

\* What the coordinator has acknowledged to VS Code is what the emulator holds:
\* a refused or stale command, a conflict with another owner, a temporary at
\* the same address or its release never separates the two.
AcknowledgedIsInstalled ==
    Attached => \A a \in Addresses : UserOwned(a) => backend[a] = BackendOf[known[a]]

\* While stepping refers to an address the emulator has a breakpoint there,
\* whoever else sets or removes one: until the temporary was hit, or its
\* restoration was refused with a warning.
TemporaryIsInstalled ==
    Attached => \A a \in Addresses \ lapsed :
        refs[a] > 0 => backend[a] # None \/ (op.pc = "restoring" /\ op.at = a)

\* After clear() no operation of the old session changes the books any more,
\* also when its answer comes late.
ClearedStaysEmpty ==
    phase = "cleared" =>
        /\ \A a \in Addresses : ~UserOwned(a) /\ refs[a] = 0
        /\ \A s \in Sources : sources[s] = {}
        /\ instructions = {} /\ announced = {}

\* What a user set, what a step set and what nobody set any more: the books and
\* the emulator agree at every await, whoever else asks, refuses or leaves.
BooksAreKept == TypeOK /\ AcknowledgedIsInstalled /\ TemporaryIsInstalled /\ ClearedStaysEmpty

\* One source's request never replaces or removes a breakpoint that another
\* source or an instruction breakpoint relies on, and conversely.
OthersAreUndisturbed ==
    [][\A a \in Addresses :
          phase' = phase /\ UserOwned(a) /\ known'[a] # known[a] =>
             IF op.kind = "source" THEN a \notin instructions /\ ~OtherSource(a, op.source)
             ELSE \A s \in Sources : a \notin sources[s]]_vars

\* Between operations every acknowledged breakpoint is referred to by a source
\* or as an instruction: none is left that no request can remove any more.
NothingUnreferenced ==
    Attached /\ op.pc = "idle" => \A a \in Addresses : UserOwned(a) => Referenced(a)

\* Between operations every referenced address has its breakpoint: a refused one
\* is not counted, and so cannot keep another owner from changing the address.
NothingUnacknowledged ==
    Attached /\ op.pc = "idle" => \A a \in Addresses : Referenced(a) => UserOwned(a)

\* Between operations the emulator holds no temporary that no step refers to.
NoOrphanTemporary ==
    Attached /\ op.pc = "idle" =>
        \A a \in Addresses : backend[a] = Temp => refs[a] > 0

\* With an emulator that refuses nothing, owners, books and emulator agree
\* whenever no operation is under way.
ConsistentBetweenOperations ==
    ~mode.rejecting /\ ~mode.duplicates => NothingUnreferenced /\ NothingUnacknowledged /\ NoOrphanTemporary
=============================================================================
