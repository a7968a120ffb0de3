-------------------- MODULE BreakpointCoordinatorProofs --------------------
(***************************************************************************)
(* Safety of BreakpointCoordinator for every set of addresses, sources and *)
(* configurations, and whatever the emulator refuses.                      *)
(***************************************************************************)
EXTENDS BreakpointCoordinator, TLAPS

PCs == {"idle", "items", "deletions"} \cup Awaits
Ops == [kind : Kinds, pc : PCs, live : BOOLEAN, source : Sources \cup {None},
        todo : Seq(Requests), previous : SUBSET Addresses, desired : SUBSET Addresses,
        requested : [Addresses -> Configs \cup {None}],
        deletions : SUBSET Addresses, at : Addresses \cup {None}]

Requesting == op.kind \in {"source", "instructions"}

\* What the running operation holds at each await and in each loop.
Shape ==
    /\ op.kind = "source" => op.source \in Sources
    /\ op.pc \in {"items", "adding", "deletions", "deleting", "restoring"} => Requesting
    /\ op.pc = "adding" =>
          /\ op.todo # <<>>
          /\ op.at \in Addresses /\ Head(op.todo).addr = op.at
          /\ Head(op.todo).config \in Configs
    /\ op.pc \in {"deleting", "restoring", "acquiring", "releasing"} => op.at \in Addresses
    /\ phase = "cleared" => op.pc = "idle" \/ (op.pc \in Awaits /\ ~op.live)
    /\ phase # "cleared" => op.live

TypeInv == TypeOK /\ Shape

\* A temporary is installed or removed only at an address of no user, while its
\* reference is not yet, or no longer, counted; it is put back for a reference.
Placed ==
    /\ op.pc \in {"restoring", "acquiring", "releasing"} => ~UserOwned(op.at)
    /\ op.pc \in {"acquiring", "releasing"} => refs[op.at] = 0
    /\ op.pc = "restoring" /\ op.live => refs[op.at] > 0

BooksInv == Placed /\ AcknowledgedIsInstalled /\ TemporaryIsInstalled /\ ClearedStaysEmpty

\* What a command in flight is about to change belongs to the operation alone.
InFlight ==
    /\ op.pc = "adding" /\ UserOwned(op.at) /\ known[op.at] # Head(op.todo).config
          => Replaceable(op.at)
    /\ op.pc = "deleting" => ~Referenced(op.at)

\* Owners, books and emulator agree up to what the running operation has yet to do.
OfSource(a) == \E s \in Sources : a \in sources[s]
Named(q) == {q[i].addr : i \in DOMAIN q}
Adds == op.pc \in {"items", "adding"}
Deletes == op.pc \in {"deletions", "deleting", "restoring"}
\* What is referred to is acknowledged, or about to be added.
ReferredIsOwned ==
    \A a \in Addresses :
        /\ OfSource(a) => UserOwned(a)
        /\ a \in instructions => UserOwned(a) \/ (op.kind = "instructions" /\ a \in Named(op.todo))
\* What is acknowledged is referred to, or will be, or is about to be deleted.
OwnedIsReferred ==
    \A a \in Addresses : UserOwned(a) =>
        \/ Referenced(a)
        \/ Adds /\ op.kind = "source" /\ a \in op.desired
        \/ Deletes /\ a \in op.deletions
NoOrphan == \A a \in Addresses : backend[a] = Temp => refs[a] > 0 \/ (op.pc = "releasing" /\ op.at = a)
OneSource == op.kind = "source" /\ Adds =>
    /\ op.previous = sources[op.source]
    /\ \A a \in op.desired : UserOwned(a)
OneList == op.kind = "instructions" =>
    /\ Named(op.todo) \subseteq instructions
    /\ \A a \in op.previous \cap instructions : UserOwned(a)
    /\ \A a \in Named(op.todo) \ op.previous : UserOwned(a) => OfSource(a)
    /\ \A i, j \in DOMAIN op.todo : op.todo[i].addr = op.todo[j].addr => i = j
Settled ==
    /\ op.pc = "idle" => op.kind = "none"
    /\ op.pc \in {"acquiring", "releasing", "listing"} => ~Requesting
    /\ ReferredIsOwned /\ OwnedIsReferred /\ NoOrphan /\ OneSource /\ OneList
OwnersInv == Attached /\ ~mode.rejecting /\ ~mode.duplicates => Settled


LEMMA BreakpointInit == Init => TypeInv
<1> SUFFICES ASSUME Init PROVE TypeInv
  OBVIOUS
<1>1. Idle \in Ops
  BY DEF Idle, Ops, Kinds, PCs, Requests
<1>2. TypeOK
  BY <1>1, BreakpointAssumption DEF Init, TypeOK, Ops, PCs
<1>3. Shape
  BY DEF Init, Shape, Idle, Awaits
<1> QED
  BY <1>2, <1>3 DEF TypeInv

LEMMA RequestMoves ==
  ASSUME NEW q \in Seq(Requests), q # <<>>
  PROVE  /\ Head(q) \in Requests /\ Tail(q) \in Seq(Requests)
         /\ Head(q).addr \in Addresses \cup {None}
         /\ Head(q).config \in Configs \cup {None}
<1>1. Head(q) \in Requests /\ Tail(q) \in Seq(Requests)
  OBVIOUS
<1> QED
  BY <1>1 DEF Requests

LEMMA OpMoves ==
  ASSUME NEW o \in Ops
  PROVE  /\ o.todo # <<>> =>
              \A d \in SUBSET Addresses : NextItem(o, d) \in Ops
         /\ \A pc \in PCs : [o EXCEPT !.pc = pc] \in Ops
         /\ \A pc \in PCs, a \in Addresses : [o EXCEPT !.pc = pc, !.at = a] \in Ops
         /\ \A pc \in PCs, d \in SUBSET Addresses : [o EXCEPT !.pc = pc, !.deletions = d] \in Ops
         /\ \A d \in SUBSET Addresses : [o EXCEPT !.deletions = d] \in Ops
         /\ \A d \in SUBSET Addresses :
              [o EXCEPT !.pc = "deletions", !.deletions = d, !.at = None] \in Ops
         /\ [o EXCEPT !.live = FALSE] \in Ops
         /\ \A a \in Addresses, c \in Configs \cup {None} : [o EXCEPT !.requested[a] = c] \in Ops
<1> USE DEF Ops
<1>1. ASSUME o.todo # <<>>, NEW d \in SUBSET Addresses PROVE NextItem(o, d) \in Ops
  <2>1. Tail(o.todo) \in Seq(Requests)
    BY <1>1, RequestMoves
  <2> QED
    BY <2>1 DEF NextItem, PCs
<1>2. \A pc \in PCs : [o EXCEPT !.pc = pc] \in Ops
  OBVIOUS
<1>3. \A pc \in PCs, a \in Addresses : [o EXCEPT !.pc = pc, !.at = a] \in Ops
  OBVIOUS
<1>4. \A pc \in PCs, d \in SUBSET Addresses : [o EXCEPT !.pc = pc, !.deletions = d] \in Ops
  OBVIOUS
<1>5. \A d \in SUBSET Addresses : [o EXCEPT !.deletions = d] \in Ops
  OBVIOUS
<1>6. \A d \in SUBSET Addresses :
        [o EXCEPT !.pc = "deletions", !.deletions = d, !.at = None] \in Ops
  BY DEF PCs
<1>7. [o EXCEPT !.live = FALSE] \in Ops
  OBVIOUS
<1>8. \A a \in Addresses, c \in Configs \cup {None} : [o EXCEPT !.requested[a] = c] \in Ops
  OBVIOUS
<1> QED
  BY <1>1, <1>2, <1>3, <1>4, <1>5, <1>6, <1>7, <1>8

LEMMA IdleIsOp ==
  /\ Idle \in Ops
  /\ \A pc \in PCs, a \in Addresses : Temporary(pc, a) \in Ops
  /\ \A s \in Sources, l \in Seq(Requests), p \in SUBSET Addresses :
       [Idle EXCEPT !.kind = "source", !.pc = "items", !.source = s,
                    !.todo = l, !.previous = p] \in Ops
  /\ \A l \in Seq(Requests), p, d \in SUBSET Addresses :
       [Idle EXCEPT !.kind = "instructions", !.pc = "deletions", !.todo = l,
                    !.previous = p, !.deletions = d] \in Ops
  /\ [Idle EXCEPT !.kind = "synchronize", !.pc = "listing"] \in Ops
<1>1. Idle \in Ops
  BY DEF Idle, Ops, Kinds, PCs, Requests
<1> QED
  BY <1>1, ZenonT(30) DEF Ops, Temporary, Kinds, PCs, Awaits

LEMMA ListsAreRequests ==
  ASSUME TypeOK, NEW l \in Lists
  PROVE  l \in Seq(Requests) /\ Listed(l) \subseteq Addresses
<1>1. PICK n \in 0..mode.longest : l \in [1..n -> Requests]
  BY Zenon DEF Lists
<1>2. n \in Nat
  BY BreakpointAssumption DEF TypeOK
<1>3. l \in Seq(Requests)
  BY <1>1, <1>2
<1> QED
  BY <1>1, <1>3 DEF Listed, Requests

LEMMA NotedIsOp ==
  ASSUME op \in Ops, op.todo # <<>>
  PROVE  /\ Noted \in Ops /\ Noted.todo = op.todo /\ Noted.kind = op.kind
         /\ Noted.source = op.source /\ Noted.live = op.live /\ Noted.previous = op.previous
         /\ Noted.desired = op.desired /\ Noted.deletions = op.deletions
<1> DEFINE r == Head(op.todo)
           c == IF op.requested[r.addr] = None THEN r.config ELSE op.requested[r.addr]
<1>1. r.addr \in Addresses \cup {None} /\ r.config \in Configs \cup {None}
  BY RequestMoves DEF Ops
<1>2. CASE r.addr # None /\ r.config # None
  <2>1. Noted = [op EXCEPT !.requested[r.addr] = c]
    BY <1>2 DEF Noted
  <2>2. c \in Configs \cup {None} /\ r.addr \in Addresses
    BY <1>1, <1>2 DEF Ops
  <2>3. Noted \in Ops
    BY <2>1, <2>2, OpMoves
  <2> QED
    BY <2>1, <2>3 DEF Ops
<1>3. CASE ~(r.addr # None /\ r.config # None)
  BY <1>3 DEF Noted
<1> QED
  BY <1>2, <1>3

\* The emulator's breakpoints after the awaited command are breakpoints.
LEMMA LandedIsBackend ==
  ASSUME TypeInv
  PROVE  Landed \in [Addresses -> Backends \cup {None, Temp, Foreign}]
<1> USE DEF TypeInv, TypeOK, Landed
<1>1. CASE op.pc = "adding"
  BY <1>1 DEF Shape, Backends
<1>2. CASE op.pc # "adding"
  BY <1>2 DEF Shape
<1> QED
  BY <1>1, <1>2

-----------------------------------------------------------------------------
LEMMA TypeStep == TypeInv /\ [Next]_vars => TypeInv'
<1> SUFFICES ASSUME TypeInv, [Next]_vars PROVE TypeInv'
  OBVIOUS
<1> USE DEF books, coordinator, host, world
<1>a. op \in Ops
  BY DEF TypeInv, TypeOK, Ops, PCs
<1>b. op' \in Ops => op' \in [kind : Kinds, pc : {"idle", "items", "deletions"} \cup Awaits,
               live : BOOLEAN, source : Sources \cup {None}, todo : Seq(Requests),
               previous : SUBSET Addresses, desired : SUBSET Addresses,
               requested : [Addresses -> Configs \cup {None}],
               deletions : SUBSET Addresses, at : Addresses \cup {None}]
  BY DEF Ops, PCs
<1>c. /\ op.desired \subseteq Addresses /\ op.previous \subseteq Addresses
      /\ op.deletions \subseteq Addresses
  BY <1>a DEF Ops
<1>d. "deletions" \in PCs /\ "deleting" \in PCs /\ "restoring" \in PCs /\ "items" \in PCs
      /\ "adding" \in PCs /\ "acquiring" \in PCs /\ "releasing" \in PCs
  BY DEF PCs, Awaits
<1>1. ASSUME NEW l \in Lists, NEW s \in Sources, SetSource(s, l) PROVE TypeInv'
  <2>1. l \in Seq(Requests) /\ sources[s] \in SUBSET Addresses
    BY ListsAreRequests DEF TypeInv, TypeOK
  <2>2. op' \in Ops
    BY <1>1, <2>1, IdleIsOp DEF SetSource
  <2>3. TypeOK'
    BY <1>1, <2>2, <1>b DEF SetSource, Start, TypeInv, TypeOK
  <2>4. Shape'
    BY <1>1 DEF SetSource, Start, TypeInv, Shape, Idle, Requesting, Awaits
  <2> QED
    BY <2>3, <2>4 DEF TypeInv
<1>2. ASSUME NEW l \in Lists, SetInstructions(l) PROVE TypeInv'
  <2>1. l \in Seq(Requests) /\ Listed(l) \subseteq Addresses /\ instructions \subseteq Addresses
    BY ListsAreRequests DEF TypeInv, TypeOK
  <2>2. op' \in Ops
    BY <1>2, <2>1, IdleIsOp DEF SetInstructions, ReplaceInstructions
  <2>3. TypeOK'
    BY <1>2, <2>1, <2>2, <1>b DEF SetInstructions, ReplaceInstructions, Start, TypeInv, TypeOK
  <2>4. Shape'
    BY <1>2 DEF SetInstructions, ReplaceInstructions, Start, TypeInv, Shape, Idle, Requesting, Awaits
  <2> QED
    BY <2>3, <2>4 DEF TypeInv
<1>3. CASE Item
  <2> DEFINE r == Head(op.todo)
  <2>1. /\ op.pc = "items" /\ op.todo # <<>> /\ r \in Requests
        /\ r.addr \in Addresses \cup {None} /\ r.config \in Configs \cup {None}
    BY <1>3, <1>a, RequestMoves DEF Item, Ops
  <2>2. Noted \in Ops /\ Noted.todo = op.todo /\ Noted.kind = op.kind /\ Noted.live = op.live
        /\ Noted.source = op.source /\ Noted.previous = op.previous /\ Noted.desired = op.desired
    BY <1>a, <2>1, NotedIsOp
  <2>3. op.kind \in {"source", "instructions"} /\ op.live /\ phase # "cleared"
        /\ (op.kind = "source" => op.source \in Sources)
    BY <2>1 DEF TypeInv, Shape, Requesting, Awaits
  <2>4. UNCHANGED <<books, world>>
    BY <1>3 DEF Item
  <2>5. CASE Refuses(r) /\ Unwanted(Noted) /\ UNCHANGED known
    <3>1. op' = NextItem(Noted, Noted.desired \cup ({r.addr} \cap Noted.previous))
          /\ instructions' \subseteq instructions
      BY <2>2, <2>5 DEF Unwanted
    <3>2. op' \in Ops
      BY <1>a, <1>c, <2>1, <2>2, <3>1, OpMoves
    <3>3. TypeOK'
      BY <2>4, <2>5, <3>1, <3>2, <1>b DEF TypeInv, TypeOK
    <3>4. Shape'
      BY <2>2, <2>3, <2>4, <3>1, <3>2 DEF Ops, NextItem, Shape, Requesting, Awaits
    <3> QED
      BY <3>3, <3>4 DEF TypeInv
  <2>6. CASE /\ ~Refuses(r) /\ NeedsAdd(r)
             /\ op' = [Noted EXCEPT !.pc = "adding", !.at = r.addr]
             /\ UNCHANGED <<known, instructions>>
    <3>1. r.addr \in Addresses /\ r.config \in Configs
      BY <2>1, <2>6 DEF Refuses, Parsed
    <3>2. op' \in Ops
      BY <2>2, <2>6, <3>1, OpMoves DEF PCs, Awaits
    <3>3. TypeOK'
      BY <2>4, <2>6, <3>2, <1>b DEF TypeInv, TypeOK
    <3>4. Shape'
      BY <2>1, <2>2, <2>3, <2>4, <2>6, <3>1, <3>2 DEF Ops, Shape, Requesting, Awaits
    <3> QED
      BY <3>3, <3>4 DEF TypeInv
  <2>7. CASE /\ ~Refuses(r) /\ ~NeedsAdd(r)
             /\ known' = [known EXCEPT ![r.addr] = r.config]
             /\ Wanted(Noted)
    <3>1. r.addr \in Addresses /\ r.config \in Configs
      BY <2>1, <2>7 DEF Refuses, Parsed
    <3>2. op' = NextItem(Noted, Noted.desired \cup {r.addr}) /\ UNCHANGED instructions
      BY <2>2, <2>7 DEF Wanted
    <3>3. op' \in Ops
      BY <1>a, <1>c, <2>1, <2>2, <3>1, <3>2, OpMoves
    <3>4. TypeOK'
      BY <2>4, <2>7, <3>1, <3>2, <3>3, <1>b DEF TypeInv, TypeOK
    <3>5. Shape'
      BY <2>2, <2>3, <2>4, <3>2, <3>3 DEF Ops, NextItem, Shape, Requesting, Awaits
    <3> QED
      BY <3>4, <3>5 DEF TypeInv
  <2> QED
    BY <1>3, <2>5, <2>6, <2>7 DEF Item
<1>4. CASE Added
  <2>1. /\ op.pc = "adding" /\ op.live /\ op.todo # <<>> /\ op.at \in Addresses
        /\ Head(op.todo).addr = op.at /\ Head(op.todo).config \in Configs
        /\ Requesting /\ phase # "cleared" /\ backend' = Landed
    BY <1>4 DEF Added, Accepted, TypeInv, Shape
  <2>2. op' = NextItem(op, op.desired \cup {op.at}) /\ UNCHANGED instructions
    BY <1>4, <2>1 DEF Added, Wanted
  <2>3. op' \in Ops
    BY <1>a, <1>c, <2>1, <2>2, OpMoves
  <2>4. TypeOK'
    BY <1>4, <2>1, <2>2, <2>3, <1>b, LandedIsBackend DEF Added, TypeInv, TypeOK
  <2>5. Shape'
    BY <1>4, <1>a, <2>1, <2>2 DEF Added, Ops, NextItem, TypeInv, Shape, Requesting, Awaits
  <2> QED
    BY <2>4, <2>5 DEF TypeInv
<1>5. CASE NotAdded
  <2>1. /\ op.pc = "adding" /\ op.live /\ op.todo # <<>> /\ op.at \in Addresses
        /\ Head(op.todo).addr = op.at /\ Requesting /\ phase # "cleared" /\ UNCHANGED backend
    BY <1>5 DEF NotAdded, AddFails, Failed, TypeInv, Shape
  <2>2. op' = NextItem(op, op.desired \cup ({op.at} \cap op.previous))
        /\ instructions' \subseteq instructions
    BY <1>5, <2>1 DEF NotAdded, AddFails, Unwanted
  <2>3. op' \in Ops
    BY <1>a, <1>c, <2>1, <2>2, OpMoves
  <2>4. TypeOK'
    BY <1>5, <2>1, <2>2, <2>3, <1>b DEF NotAdded, AddFails, TypeInv, TypeOK
  <2>5. Shape'
    BY <1>5, <1>a, <2>1, <2>2 DEF NotAdded, AddFails, Ops, NextItem, TypeInv, Shape, Requesting, Awaits
  <2> QED
    BY <2>4, <2>5 DEF TypeInv
<1>6. CASE ItemsDone
  <2>1. op.pc = "items" /\ Requesting /\ op.live /\ phase # "cleared" /\ (op.kind = "source" => op.source \in Sources)
    BY <1>6 DEF ItemsDone, TypeInv, Shape, Awaits
  <2>2. CASE op.kind = "source"
    <3>1. /\ sources' = [sources EXCEPT ![op.source] = op.desired]
          /\ op' = [op EXCEPT !.pc = "deletions", !.deletions = op.previous \ op.desired]
          /\ UNCHANGED <<known, instructions, refs, announced, world>>
      BY <1>6, <2>2 DEF ItemsDone
    <3>2. op' \in Ops
      BY <1>a, <1>c, <1>d, <3>1, OpMoves
    <3>3. TypeOK'
      BY <1>c, <3>1, <3>2, <1>b DEF TypeInv, TypeOK
    <3>4. Shape'
      BY <1>a, <2>1, <2>2, <3>1 DEF Ops, TypeInv, Shape, Requesting, Awaits
    <3> QED
      BY <3>3, <3>4 DEF TypeInv
  <2>3. CASE op.kind # "source"
    <3>1. op' = Idle /\ UNCHANGED <<sources, known, instructions, refs, announced, world>>
      BY <1>6, <2>3 DEF ItemsDone
    <3>2. TypeOK'
      BY <3>1, <1>b, IdleIsOp DEF TypeInv, TypeOK
    <3>3. Shape'
      BY <3>1 DEF Idle, Shape, Requesting, Awaits
    <3> QED
      BY <3>2, <3>3 DEF TypeInv
  <2> QED
    BY <2>2, <2>3
<1>7. ASSUME NEW a \in Addresses, Deletion(a) PROVE TypeInv'
  <2>1. op.pc = "deletions" /\ Requesting /\ op.live /\ phase # "cleared" /\ UNCHANGED <<coordinator, world>>
    BY <1>7 DEF Deletion, TypeInv, Shape, Awaits
  <2>2. op' \in Ops
    BY <1>7, <1>a, <1>c, <1>d, OpMoves DEF Deletion
  <2>3. TypeOK'
    BY <2>1, <2>2, <1>b DEF TypeInv, TypeOK
  <2>4. Shape'
    BY <1>7, <1>a, <2>1 DEF Deletion, Ops, TypeInv, Shape, Requesting, Awaits
  <2> QED
    BY <2>3, <2>4 DEF TypeInv
<1>8. CASE DeletionsDone
  <2>1. op.pc = "deletions" /\ Requesting /\ op.live /\ phase # "cleared" /\ UNCHANGED <<coordinator, world>>
    BY <1>8 DEF DeletionsDone, TypeInv, Shape, Awaits
  <2>2. op' \in Ops
    BY <1>8, <1>a, OpMoves, IdleIsOp DEF DeletionsDone, PCs
  <2>3. TypeOK'
    BY <2>1, <2>2, <1>b DEF TypeInv, TypeOK
  <2>4. Shape'
    BY <1>8, <1>a, <2>1 DEF DeletionsDone, Idle, Ops, TypeInv, Shape, Requesting, Awaits
  <2> QED
    BY <2>3, <2>4 DEF TypeInv
<1>9. CASE Deleted
  <2>1. /\ op.pc = "deleting" /\ Requesting /\ op.live /\ phase # "cleared"
        /\ op.at \in Addresses /\ backend' = Landed
    BY <1>9 DEF Deleted, DeletedThen, Accepted, TypeInv, Shape
  <2>2. op' = NextDeletion \/ op' = [op EXCEPT !.pc = "restoring"]
    BY <1>9 DEF Deleted, DeletedThen
  <2>3. op' \in Ops
    <3>1. [op EXCEPT !.pc = "restoring"] \in Ops
      BY <1>a, <1>d, OpMoves, Zenon
    <3>2. NextDeletion \in Ops
      BY <1>a, <1>c, <1>d, OpMoves DEF NextDeletion
    <3> QED
      BY <2>2, <3>1, <3>2
  <2>4. TypeOK'
    BY <1>9, <2>1, <2>3, <1>b, LandedIsBackend DEF Deleted, DeletedThen, TypeInv, TypeOK
  <2>5. Shape'
    BY <1>9, <1>a, <2>1, <2>2 DEF Deleted, DeletedThen, NextDeletion, Ops, TypeInv, Shape, Requesting, Awaits
  <2> QED
    BY <2>4, <2>5 DEF TypeInv
<1>10. ASSUME op.pc \in {"deleting", "restoring"}, op.live, UNCHANGED backend, GiveUp PROVE TypeInv'
  <2>1. Requesting /\ op.at \in Addresses /\ phase # "cleared" /\ (op.kind = "source" => op.source \in Sources)
    BY <1>10 DEF TypeInv, Shape, Awaits
  <2>4. op' \in Ops
    BY <1>10, IdleIsOp DEF GiveUp
  <2>5. sources' \in [Sources -> SUBSET Addresses] /\ instructions' \subseteq Addresses
    BY <1>10, <2>1 DEF GiveUp, TypeInv, TypeOK
  <2>2. TypeOK'
    BY <1>10, <2>4, <2>5, <1>b DEF GiveUp, TypeInv, TypeOK
  <2>3. Shape'
    BY <1>10, <2>1 DEF GiveUp, Idle, TypeInv, Shape, Requesting, Awaits
  <2> QED
    BY <2>2, <2>3 DEF TypeInv
<1>11. CASE NotDeleted
  BY <1>10, <1>11 DEF NotDeleted, Failed
<1>12. CASE Restored
  <2>1. CASE op' # NextDeletion
    BY <1>10, <1>12, <2>1 DEF Restored, Failed
  <2>2. CASE op' = NextDeletion /\ UNCHANGED <<coordinator, host>> /\ op.live
             /\ (backend' = Landed \/ UNCHANGED backend)
             /\ (lapsed' = lapsed \ {op.at} \/ lapsed' = lapsed \cup {op.at})
    <3>1. Requesting /\ op.at \in Addresses /\ phase # "cleared" /\ op.pc = "restoring"
      BY <1>12, <2>2 DEF Restored, TypeInv, Shape, Awaits
    <3>2. op' \in Ops
      BY <1>a, <1>c, <1>d, <2>2, OpMoves DEF NextDeletion
    <3>3. TypeOK'
      BY <2>2, <3>1, <3>2, <1>b, LandedIsBackend DEF TypeInv, TypeOK
    <3>4. Shape'
      BY <1>a, <2>2, <3>1 DEF NextDeletion, Ops, TypeInv, Shape, Requesting, Awaits
    <3> QED
      BY <3>3, <3>4 DEF TypeInv
  <2>3. CASE op' = NextDeletion /\ op.live /\ ~link /\ Failed /\ GiveUp
    BY <1>10, <1>12, <2>3 DEF Restored, Failed
  <2> QED
    BY <1>12, <2>1, <2>2, <2>3 DEF Restored, Accepted, Failed
<1>13. ASSUME NEW a \in Addresses, Acquire(a) PROVE TypeInv'
  <2>1. op.pc = "idle" /\ phase # "cleared" /\ (op' = op \/ op' = Temporary("acquiring", a))
    BY <1>13 DEF Acquire, AcquireWith, Start
  <2>2. op' \in Ops
    BY <1>a, <1>d, <2>1, IdleIsOp
  <2>3. TypeOK'
    BY <1>13, <2>2, <1>b DEF Acquire, AcquireWith, Start, TypeInv, TypeOK
  <2>4. Shape'
    BY <1>13, <2>1 DEF Acquire, AcquireWith, Start, Temporary, Idle, TypeInv, Shape, Requesting, Awaits
  <2> QED
    BY <2>3, <2>4 DEF TypeInv
<1>14. ASSUME NEW a \in Addresses, Release(a) PROVE TypeInv'
  <2>1. op.pc = "idle" /\ phase # "cleared" /\ (op' = op \/ op' = Temporary("releasing", a))
    BY <1>14 DEF Release, ReleaseWith, Start
  <2>2. op' \in Ops
    BY <1>a, <1>d, <2>1, IdleIsOp
  <2>3. TypeOK'
    BY <1>14, <2>2, <1>b DEF Release, ReleaseWith, Start, TypeInv, TypeOK
  <2>4. Shape'
    BY <1>14, <2>1 DEF Release, ReleaseWith, Start, Temporary, Idle, TypeInv, Shape, Requesting, Awaits
  <2> QED
    BY <2>3, <2>4 DEF TypeInv
<1>15. ASSUME op' = Idle, phase' = phase, TypeOK' PROVE Shape'
  BY <1>15 DEF Idle, Shape, Requesting, Awaits
<1>16. CASE Acquired
  <2>1. op.at \in Addresses
    BY <1>16 DEF Acquired, TypeInv, Shape
  <2>3. op' \in Ops
    BY <1>16, IdleIsOp DEF Acquired
  <2>4. /\ refs' \in [Addresses -> Nat] /\ lapsed' \subseteq Addresses
        /\ backend' \in [Addresses -> Backends \cup {None, Temp, Foreign}]
    BY <1>16, <2>1, LandedIsBackend, SMTT(20) DEF Acquired, Accepted, Failed, TypeInv, TypeOK
  <2>2. TypeOK'
    BY <1>16, <2>3, <2>4, <1>b DEF Acquired, TypeInv, TypeOK
  <2> QED
    BY <1>15, <1>16, <2>2 DEF Acquired, TypeInv
<1>17. CASE Released
  <2>1. TypeOK'
    BY <1>17, <1>b, IdleIsOp, LandedIsBackend DEF Released, Accepted, Failed, TypeInv, TypeOK
  <2> QED
    BY <1>15, <1>17, <2>1 DEF Released, TypeInv
<1>18. CASE Synchronize
  <2>3. op' \in Ops
    BY <1>18, IdleIsOp DEF Synchronize
  <2>1. TypeOK'
    BY <1>18, <2>3, <1>b DEF Synchronize, Start, TypeInv, TypeOK
  <2>2. Shape'
    BY <1>18 DEF Synchronize, Start, Idle, TypeInv, Shape, Requesting, Awaits
  <2> QED
    BY <2>1, <2>2 DEF TypeInv
<1>19. CASE Listing
  <2>1. TypeOK'
    BY <1>19, <1>b, IdleIsOp, LandedIsBackend DEF Listing, Accepted, Failed, TypeInv, TypeOK
  <2> QED
    BY <1>15, <1>19, <2>1 DEF Listing, TypeInv
<1>20. CASE StaleAnswer
  <2>1. TypeOK'
    BY <1>20, <1>b, IdleIsOp DEF StaleAnswer, TypeInv, TypeOK
  <2> QED
    BY <1>15, <1>20, <2>1 DEF StaleAnswer, TypeInv
<1>21. CASE LinkLost
  BY <1>21 DEF LinkLost, TypeInv, TypeOK, Shape, Requesting
<1>22. CASE Leave
  BY <1>22 DEF Leave, TypeInv, TypeOK, Shape, Requesting
<1>23. CASE Clear
  <2>1. op' \in Ops
    BY <1>23, <1>a, OpMoves DEF Clear
  <2>2. backend' \in [Addresses -> Backends \cup {None, Temp, Foreign}]
    BY <1>23, LandedIsBackend DEF Clear, TypeInv, TypeOK
  <2>3. TypeOK'
    BY <1>23, <2>1, <2>2, <1>b DEF Clear, TypeInv, TypeOK
  <2>4. Shape'
    BY <1>23, <1>a DEF Clear, Running, Ops, PCs, TypeInv, Shape, Requesting, Awaits
  <2> QED
    BY <2>3, <2>4 DEF TypeInv
<1>24. ASSUME NEW a \in Addresses, TemporaryHit(a) PROVE TypeInv'
  BY <1>24 DEF TemporaryHit, TypeInv, TypeOK, Shape, Requesting
<1>25. ASSUME NEW a \in Addresses, LeaveDeletes(a) PROVE TypeInv'
  BY <1>25 DEF LeaveDeletes, Failed, TypeInv, TypeOK, Shape, Requesting
<1>26. CASE UNCHANGED vars
  BY <1>26 DEF vars, TypeInv, TypeOK, Shape, Requesting
<1> QED
  BY <1>1, <1>2, <1>3, <1>4, <1>5, <1>6, <1>7, <1>8, <1>9, <1>11, <1>12, <1>13, <1>14,
     <1>16, <1>17, <1>18, <1>19, <1>20, <1>21, <1>22, <1>23, <1>24, <1>25, <1>26 DEF Next

-----------------------------------------------------------------------------
(* The books and the emulator.                                             *)

\* Configurations of users are neither temporaries nor nothing.
LEMMA BackendsDiffer ==
  ASSUME NEW c \in Configs
  PROVE  BackendOf[c] \in Backends /\ BackendOf[c] # Temp /\ BackendOf[c] # None
<1>1. BackendOf[c] \in Backends
  BY BreakpointAssumption DEF Backends
<1> QED
  BY <1>1, BreakpointAssumption

LEMMA BooksStart == Init => BooksInv
  BY BreakpointAssumption DEF Init, Idle, BooksInv, Placed, AcknowledgedIsInstalled,
     TemporaryIsInstalled, ClearedStaysEmpty, UserOwned

LEMMA BooksStep == TypeInv /\ BooksInv /\ [Next]_vars => BooksInv'
<1> SUFFICES ASSUME TypeInv, BooksInv, [Next]_vars PROVE BooksInv'
  OBVIOUS
<1> USE DEF books, coordinator, host, world
<1>a. op \in Ops
  BY DEF TypeInv, TypeOK, Ops, PCs
<1>b. /\ known \in [Addresses -> Configs \cup {None}] /\ refs \in [Addresses -> Nat]
      /\ backend \in [Addresses -> Backends \cup {None, Temp, Foreign}]
  BY DEF TypeInv, TypeOK
<1>0. ASSUME UNCHANGED <<coordinator, backend, lapsed>>, Attached' => Attached,
             phase' = "cleared" => phase = "cleared",
             op'.pc \in {"restoring", "acquiring", "releasing"} => op' = op,
             Attached => op.pc # "restoring"
      PROVE  BooksInv'
  BY <1>0 DEF BooksInv, Placed, AcknowledgedIsInstalled, TemporaryIsInstalled, ClearedStaysEmpty, UserOwned
<1>1. ASSUME NEW l \in Lists, NEW s \in Sources, SetSource(s, l) PROVE BooksInv'
  BY <1>0, <1>1 DEF SetSource, Start, Idle, Attached
<1>2. ASSUME NEW l \in Lists, SetInstructions(l) PROVE BooksInv'
  BY <1>2 DEF SetInstructions, ReplaceInstructions, Start, Idle, Attached, BooksInv, Placed, 
     AcknowledgedIsInstalled, TemporaryIsInstalled, ClearedStaysEmpty, UserOwned
<1>3. CASE Item
  <2>1. op.pc = "items" /\ op.todo # <<>> /\ phase # "cleared" /\ UNCHANGED <<books, world>>
    BY <1>3 DEF Item, TypeInv, Shape, Awaits
  <2>2. op'.pc \in {"items", "adding"}
    BY <1>3, <1>a, <2>1, NotedIsOp DEF Item, Unwanted, Wanted, NextItem, Ops
  <2>3. \A a \in Addresses : known'[a] = known[a]
          \/ (UserOwned(a) /\ UserOwned(a)' /\ BackendOf[known'[a]] = BackendOf[known[a]])
    BY <1>3, <1>b, BreakpointAssumption DEF Item, NeedsAdd, UserOwned, Refuses, Parsed
  <2> QED
    BY <2>1, <2>2, <2>3 DEF BooksInv, Placed, Attached, AcknowledgedIsInstalled, TemporaryIsInstalled, ClearedStaysEmpty, UserOwned
<1>4. CASE Added
  <2>1. /\ op.pc = "adding" /\ op.at \in Addresses /\ Head(op.todo).config \in Configs
        /\ phase # "cleared"
    BY <1>4 DEF Added, Accepted, TypeInv, Shape
  <2>2. /\ backend' = [backend EXCEPT ![op.at] = BackendOf[Head(op.todo).config]]
        /\ known' = [known EXCEPT ![op.at] = Head(op.todo).config]
        /\ lapsed' = lapsed \ {op.at} /\ UNCHANGED <<books, host, instructions>>
    BY <1>4, <2>1 DEF Added, Accepted, Landed, Wanted
  <2>3. op'.pc = "items"
    BY <1>4, <1>a DEF Added, Wanted, NextItem, Ops
  <2>4. AcknowledgedIsInstalled'
    BY <1>b, <2>1, <2>2 DEF BooksInv, Attached, AcknowledgedIsInstalled, UserOwned
  <2>5. TemporaryIsInstalled'
    BY <1>b, <2>1, <2>2, BackendsDiffer DEF BooksInv, Attached, TemporaryIsInstalled
  <2> QED
    BY <2>1, <2>2, <2>3, <2>4, <2>5 DEF BooksInv, Placed, ClearedStaysEmpty
<1>5. CASE NotAdded
  <2>1. op.pc = "adding" /\ phase # "cleared" /\ UNCHANGED <<backend, known, books, lapsed, host>>
    BY <1>5 DEF NotAdded, AddFails, Failed, TypeInv, Shape
  <2>2. op'.pc = "items"
    BY <1>5, <1>a DEF NotAdded, AddFails, Unwanted, NextItem, Ops
  <2> QED
    BY <2>1, <2>2 DEF BooksInv, Placed, Attached, AcknowledgedIsInstalled, TemporaryIsInstalled, ClearedStaysEmpty, UserOwned
<1>6. CASE ItemsDone
  <2>1. op.pc = "items" /\ phase # "cleared" /\ UNCHANGED <<known, instructions, refs, announced, world>>
    BY <1>6 DEF ItemsDone, TypeInv, Shape, Awaits
  <2>3. op' = Idle \/ op' = [op EXCEPT !.pc = "deletions", !.deletions = op.previous \ op.desired]
    BY <1>6 DEF ItemsDone
  <2>2. op'.pc \in {"deletions", "idle"}
    <3>1. Idle.pc = "idle"
      BY DEF Idle
    <3>2. [op EXCEPT !.pc = "deletions", !.deletions = op.previous \ op.desired].pc = "deletions"
      BY <1>a DEF Ops
    <3> QED
      BY <2>3, <3>1, <3>2
  <2> QED
    BY <2>1, <2>2 DEF BooksInv, Placed, Attached, AcknowledgedIsInstalled, TemporaryIsInstalled, ClearedStaysEmpty, UserOwned
<1>7. ASSUME NEW a \in Addresses, Deletion(a) PROVE BooksInv'
  <2>1. op'.pc \in {"deletions", "deleting"}
    BY <1>7, <1>a DEF Deletion, Ops
  <2> QED
    BY <1>0, <1>7, <2>1 DEF Deletion, Attached
<1>8. CASE DeletionsDone
  <2>1. op'.pc \in {"items", "idle"}
    BY <1>8, <1>a DEF DeletionsDone, Idle, Ops
  <2> QED
    BY <1>0, <1>8, <2>1 DEF DeletionsDone, Attached
<1>9. CASE Deleted
  <2>1. op.pc = "deleting" /\ op.at \in Addresses /\ phase # "cleared" /\ op.live
    BY <1>9 DEF Deleted, DeletedThen, Accepted, TypeInv, Shape
  <2>2. /\ backend' = [backend EXCEPT ![op.at] = None]
        /\ known' = [known EXCEPT ![op.at] = None]
        /\ UNCHANGED <<instructions, books, lapsed, host>>
    BY <1>9, <2>1 DEF Deleted, DeletedThen, Accepted, Landed
  <2>3. \/ refs[op.at] > 0 /\ op'.pc = "restoring" /\ op'.at = op.at
        \/ refs[op.at] = 0 /\ op'.pc = "deletions"
    BY <1>9, <1>a, <1>b, <2>1 DEF Deleted, DeletedThen, NextDeletion, Ops
  <2>4. Placed'
    BY <1>b, <2>1, <2>2, <2>3 DEF Placed, UserOwned
  <2>5. AcknowledgedIsInstalled'
    BY <1>b, <2>1, <2>2 DEF BooksInv, Attached, AcknowledgedIsInstalled, UserOwned
  <2>6. TemporaryIsInstalled'
    BY <1>b, <2>1, <2>2, <2>3 DEF BooksInv, Attached, TemporaryIsInstalled
  <2> QED
    BY <2>1, <2>2, <2>4, <2>5, <2>6 DEF BooksInv, ClearedStaysEmpty
<1>10. ASSUME op.pc \in {"deleting", "restoring"}, op.live, ~Attached, GiveUp PROVE BooksInv'
  <2>1. phase # "cleared" /\ UNCHANGED <<known, refs, announced, lapsed, host>> /\ op' = Idle
    BY <1>10 DEF GiveUp, TypeInv, Shape, Awaits
  <2> QED
    BY <1>10, <2>1 DEF Idle, Attached, BooksInv, Placed, AcknowledgedIsInstalled, TemporaryIsInstalled, ClearedStaysEmpty
<1>11. CASE NotDeleted
  <2>1. op.pc = "deleting" /\ phase # "cleared" /\ op' = Idle
        /\ UNCHANGED <<backend, known, refs, announced, lapsed, host>>
    BY <1>11 DEF NotDeleted, Failed, GiveUp, TypeInv, Shape, Awaits
  <2> QED
    BY <2>1 DEF Idle, BooksInv, Placed, Attached, AcknowledgedIsInstalled, TemporaryIsInstalled, ClearedStaysEmpty, UserOwned
<1>12. CASE Restored
  <2>1. op.pc = "restoring" /\ op.at \in Addresses /\ ~UserOwned(op.at)
    BY <1>12 DEF Restored, BooksInv, Placed, TypeInv, Shape
  <2>2. CASE GiveUp /\ ~link /\ op.live
    BY <1>10, <2>1, <2>2 DEF Attached
  <2>3. CASE /\ op' = NextDeletion /\ UNCHANGED <<coordinator, host>>
             /\ Accepted /\ lapsed' = lapsed \ {op.at}
    <3>1. backend' = [backend EXCEPT ![op.at] = Temp] /\ phase # "cleared"
      BY <2>1, <2>3 DEF Accepted, Landed, TypeInv, Shape
    <3>2. op'.pc = "deletions"
      BY <1>a, <2>3 DEF NextDeletion, Ops
    <3>3. AcknowledgedIsInstalled'
      BY <1>b, <2>1, <2>3, <3>1 DEF BooksInv, Attached, AcknowledgedIsInstalled, UserOwned
    <3>4. TemporaryIsInstalled'
      BY <1>b, <2>1, <2>3, <3>1, BreakpointAssumption DEF BooksInv, Attached, TemporaryIsInstalled
    <3> QED
      BY <2>3, <3>1, <3>2, <3>3, <3>4 DEF BooksInv, Placed, ClearedStaysEmpty
  <2>4. CASE /\ op' = NextDeletion /\ UNCHANGED <<coordinator, host>>
             /\ op.live /\ Failed /\ lapsed' = lapsed \cup {op.at}
    <3>1. op'.pc = "deletions" /\ UNCHANGED backend
      BY <1>a, <2>4 DEF NextDeletion, Failed, Ops
    <3> QED
      BY <2>1, <2>4, <3>1 DEF BooksInv, Placed, Attached, AcknowledgedIsInstalled, TemporaryIsInstalled, ClearedStaysEmpty, UserOwned
  <2> QED
    BY <1>12, <2>2, <2>3, <2>4 DEF Restored
<1>13. ASSUME NEW a \in Addresses, Acquire(a) PROVE BooksInv'
  <2>1. /\ op.pc = "idle" /\ phase # "cleared"
        /\ UNCHANGED <<known, sources, instructions, announced, phase, link, backend, lapsed>>
    BY <1>13 DEF Acquire, AcquireWith, Start
  <2>2. CASE refs[a] = 0 /\ ~UserOwned(a)
    <3>1. op' = Temporary("acquiring", a) /\ UNCHANGED refs
      BY <1>13, <2>2 DEF Acquire, AcquireWith
    <3> QED
      BY <2>1, <2>2, <3>1 DEF Temporary, Idle, BooksInv, Placed, Attached, AcknowledgedIsInstalled, TemporaryIsInstalled, ClearedStaysEmpty, UserOwned
  <2>3. CASE ~(refs[a] = 0 /\ ~UserOwned(a))
    <3>1. op' = op /\ refs' = [refs EXCEPT ![a] = @ + 1]
      BY <1>13, <2>3 DEF Acquire, AcquireWith
    <3>2. Attached /\ a \notin lapsed => backend[a] # None
      <4>1. CASE refs[a] > 0
        BY <2>1, <4>1 DEF BooksInv, TemporaryIsInstalled
      <4>2. CASE UserOwned(a)
        BY <1>b, <4>2, BackendsDiffer DEF BooksInv, AcknowledgedIsInstalled, UserOwned
      <4> QED
        BY <1>b, <2>3, <4>1, <4>2
    <3>3. TemporaryIsInstalled'
      BY <1>b, <2>1, <3>1, <3>2 DEF BooksInv, Attached, TemporaryIsInstalled
    <3> QED
      BY <2>1, <3>1, <3>3 DEF BooksInv, Placed, Attached, AcknowledgedIsInstalled, ClearedStaysEmpty, UserOwned
  <2> QED
    BY <2>2, <2>3
<1>14. ASSUME NEW a \in Addresses, Release(a) PROVE BooksInv'
  <2>1. /\ op.pc = "idle" /\ phase # "cleared" /\ refs[a] > 0
        /\ refs' = [refs EXCEPT ![a] = @ - 1]
        /\ lapsed' = IF refs[a] = 1 THEN lapsed \ {a} ELSE lapsed
        /\ UNCHANGED <<known, sources, instructions, announced, phase, link, backend>>
        /\ \/ op' = op
           \/ op' = Temporary("releasing", a) /\ refs[a] = 1 /\ ~UserOwned(a)
    BY <1>14 DEF Release, ReleaseWith, Start
  <2>2. Placed'
    <3>1. CASE op' = op
      BY <2>1, <3>1 DEF Placed
    <3>2. CASE op' = Temporary("releasing", a) /\ refs[a] = 1 /\ ~UserOwned(a)
      <4>1. op'.pc = "releasing" /\ op'.at = a /\ refs'[a] = 0 /\ ~UserOwned(a)'
        BY <1>b, <2>1, <3>2 DEF Temporary, Idle, UserOwned
      <4> QED
        BY <4>1 DEF Placed
    <3> QED
      BY <2>1, <3>1, <3>2
  <2>3. TemporaryIsInstalled'
    BY <1>b, <2>1 DEF BooksInv, Attached, TemporaryIsInstalled
  <2> QED
    BY <2>1, <2>2, <2>3 DEF BooksInv, Attached, AcknowledgedIsInstalled, ClearedStaysEmpty, UserOwned
<1>15. CASE Acquired
  <2>1. /\ op.pc = "acquiring" /\ op.at \in Addresses /\ ~UserOwned(op.at) /\ op' = Idle /\ phase # "cleared"
        /\ UNCHANGED <<known, sources, instructions, announced, host>>
    BY <1>15 DEF Acquired, Accepted, BooksInv, Placed, TypeInv, Shape
  <2>2. CASE Accepted /\ refs' = [refs EXCEPT ![op.at] = 1] /\ lapsed' = lapsed \ {op.at}
    <3>1. backend' = [backend EXCEPT ![op.at] = Temp]
      BY <2>1, <2>2 DEF Accepted, Landed
    <3>2. AcknowledgedIsInstalled'
      BY <1>b, <2>1, <3>1 DEF BooksInv, Attached, AcknowledgedIsInstalled, UserOwned
    <3>3. TemporaryIsInstalled'
      BY <1>b, <2>1, <2>2, <3>1, BreakpointAssumption DEF BooksInv, Attached, TemporaryIsInstalled
    <3> QED
      BY <2>1, <3>2, <3>3 DEF BooksInv, Placed, ClearedStaysEmpty, Idle
  <2>3. CASE UNCHANGED <<backend, refs, lapsed>>
    BY <2>1, <2>3 DEF BooksInv, Placed, Idle, Attached, AcknowledgedIsInstalled, TemporaryIsInstalled, ClearedStaysEmpty, UserOwned
  <2> QED
    BY <1>15, <2>2, <2>3 DEF Acquired, Failed
<1>16. CASE Released
  <2>1. /\ op.pc = "releasing" /\ op.at \in Addresses /\ ~UserOwned(op.at) /\ refs[op.at] = 0
        /\ op' = Idle /\ phase # "cleared" /\ UNCHANGED <<coordinator, lapsed, host>>
    BY <1>16 DEF Released, Accepted, BooksInv, Placed, TypeInv, Shape
  <2>2. backend' = [backend EXCEPT ![op.at] = None] \/ UNCHANGED backend
    BY <1>16, <2>1 DEF Released, Accepted, Failed, Landed
  <2> QED
    BY <1>b, <2>1, <2>2 DEF BooksInv, Placed, Idle, Attached, AcknowledgedIsInstalled, TemporaryIsInstalled, ClearedStaysEmpty, UserOwned
<1>17. CASE Synchronize
  BY <1>0, <1>17 DEF Synchronize, Start, Idle, Attached
<1>18. CASE Listing
  <2>1. op.pc = "listing" /\ phase # "cleared" /\ op' = Idle
        /\ UNCHANGED <<backend, known, sources, instructions, refs, lapsed, host>>
    BY <1>18 DEF Listing, Accepted, Failed, Landed, TypeInv, Shape
  <2> QED
    BY <2>1 DEF BooksInv, Placed, Idle, Attached, AcknowledgedIsInstalled, TemporaryIsInstalled, ClearedStaysEmpty, UserOwned
<1>19. CASE StaleAnswer
  <2>1. ~Attached
    BY <1>19 DEF StaleAnswer, Attached, TypeInv, Shape
  <2> QED
    BY <1>0, <1>19, <2>1 DEF StaleAnswer, Idle, Attached
<1>20. CASE LinkLost
  BY <1>20 DEF LinkLost, BooksInv, Placed, Attached, AcknowledgedIsInstalled, TemporaryIsInstalled, ClearedStaysEmpty, UserOwned
<1>21. CASE Leave
  BY <1>21 DEF Leave, BooksInv, Placed, Attached, AcknowledgedIsInstalled, TemporaryIsInstalled, ClearedStaysEmpty, UserOwned
<1>22. CASE Clear
  <2>1. op'.pc = op.pc /\ op'.at = op.at /\ ~op'.live
    BY <1>22, <1>a DEF Clear, Ops
  <2>2. op.pc \in {"restoring", "acquiring", "releasing"} => op.at \in Addresses
    BY DEF TypeInv, Shape
  <2> QED
    BY <1>22, <2>1, <2>2 DEF Clear, BooksInv, Placed, Attached, AcknowledgedIsInstalled, TemporaryIsInstalled, ClearedStaysEmpty, UserOwned
<1>23. ASSUME NEW a \in Addresses, TemporaryHit(a) PROVE BooksInv'
  <2>1. Attached => ~UserOwned(a)
    BY <1>b, <1>23, BackendsDiffer DEF TemporaryHit, BooksInv, AcknowledgedIsInstalled, UserOwned
  <2> QED
    BY <1>b, <1>23, <2>1 DEF TemporaryHit, BooksInv, Placed, Attached, AcknowledgedIsInstalled, TemporaryIsInstalled, ClearedStaysEmpty, UserOwned
<1>24. ASSUME NEW a \in Addresses, LeaveDeletes(a) PROVE BooksInv'
  BY <1>24 DEF LeaveDeletes, BooksInv, Placed, Attached, AcknowledgedIsInstalled, TemporaryIsInstalled, ClearedStaysEmpty, UserOwned
<1>25. CASE UNCHANGED vars
  BY <1>25 DEF vars, BooksInv, Placed, Attached, AcknowledgedIsInstalled, TemporaryIsInstalled, ClearedStaysEmpty, UserOwned
<1> QED
  BY <1>1, <1>2, <1>3, <1>4, <1>5, <1>6, <1>7, <1>8, <1>9, <1>11, <1>12, <1>13, <1>14, <1>15,
     <1>16, <1>17, <1>18, <1>19, <1>20, <1>21, <1>22, <1>23, <1>24, <1>25 DEF Next

\* The books of the coordinator, what a user set and what a step set, agree with the
\* emulator at every await: setSource, setInstructions, acquire, release and the
\* adapter's cleanup() never separate them.
THEOREM BooksStayKept == Spec => []BooksAreKept
<1>1. Init => TypeInv /\ BooksInv
  BY BreakpointInit, BooksStart
<1>2. TypeInv /\ BooksInv /\ [Next]_vars => (TypeInv /\ BooksInv)'
  BY TypeStep, BooksStep
<1>3. TypeInv /\ BooksInv => BooksAreKept
  BY DEF TypeInv, BooksInv, BooksAreKept
<1> QED
  BY <1>1, <1>2, <1>3, PTL DEF Spec

-----------------------------------------------------------------------------
(* Owners do not disturb each other.                                       *)

\* Where an operation that is about to add or delete comes from.
LEMMA InFlightStep == TypeInv /\ InFlight /\ [Next]_vars => InFlight'
<1> SUFFICES ASSUME TypeInv, InFlight, [Next]_vars PROVE InFlight'
  OBVIOUS
<1> USE DEF books, coordinator, host, world
<1>a. op \in Ops /\ Idle.pc = "idle"
  BY DEF TypeInv, TypeOK, Ops, PCs, Idle
<1>1. CASE op'.pc \notin {"adding", "deleting"}
  BY <1>1 DEF InFlight
<1>2. CASE op' = op /\ UNCHANGED <<known, sources, instructions>>
  BY <1>2 DEF InFlight, Replaceable, Referenced, UserOwned, OtherSource
<1>3. CASE Item
  <2> DEFINE r == Head(op.todo)
  <2>1. op.todo # <<>> /\ op.pc = "items" /\ UNCHANGED sources
    BY <1>3 DEF Item
  <2>2. /\ Noted \in Ops /\ Noted.todo = op.todo /\ Noted.kind = op.kind
        /\ Noted.source = op.source /\ Noted.previous = op.previous
    BY <1>a, <2>1, NotedIsOp
  <2>3. CASE Unwanted(Noted) \/ Wanted(Noted)
    <3>1. op'.pc = "items"
      BY <2>2, <2>3 DEF Unwanted, Wanted, NextItem, Ops
    <3> QED
      BY <1>1, <3>1
  <2>4. CASE /\ ~Refuses(r) /\ op' = [Noted EXCEPT !.pc = "adding", !.at = r.addr]
             /\ UNCHANGED <<known, instructions>>
    <3>1. /\ op'.pc = "adding" /\ op'.at = r.addr /\ op'.todo = op.todo /\ op'.kind = op.kind
          /\ op'.source = op.source /\ op'.previous = op.previous
      BY <2>2, <2>4 DEF Ops
    <3> QED
      BY <2>1, <2>4, <3>1 DEF InFlight, Refuses, Replaceable, UserOwned, OtherSource
  <2> QED
    BY <1>3, <2>3, <2>4 DEF Item
<1>4. ASSUME NEW a \in Addresses, Deletion(a) PROVE InFlight'
  <2>1. CASE Referenced(a)
    <3>1. op'.pc = "deletions"
      BY <1>4, <1>a, <2>1 DEF Deletion, Ops
    <3> QED
      BY <1>1, <3>1
  <2>2. CASE ~Referenced(a)
    <3>1. op'.pc = "deleting" /\ op'.at = a /\ UNCHANGED <<sources, instructions>>
      BY <1>4, <1>a, <2>2 DEF Deletion, Ops
    <3> QED
      BY <2>2, <3>1 DEF InFlight, Referenced
  <2> QED
    BY <2>1, <2>2
<1>5. CASE Clear
  <2>1. op'.pc = op.pc /\ op'.at = op.at /\ (op.pc = "adding" => op.at \in Addresses)
    BY <1>5, <1>a DEF Clear, Ops, TypeInv, Shape
  <2>2. \A a \in Addresses : ~UserOwned(a)'
    BY <1>5 DEF Clear, UserOwned
  <2>3. \A a : ~Referenced(a)'
    BY <1>5 DEF Clear, Referenced
  <2> QED
    BY <2>1, <2>2, <2>3 DEF InFlight
<1>6. ASSUME NEW l \in Lists, SetInstructions(l) \/ \E s \in Sources : SetSource(s, l) PROVE InFlight'
  BY <1>1, <1>6 DEF SetInstructions, ReplaceInstructions, SetSource, Idle
<1>7. CASE Added \/ NotAdded
  <2>1. op'.pc = "items"
    BY <1>7, <1>a DEF Added, NotAdded, AddFails, Wanted, Unwanted, NextItem, Ops
  <2> QED
    BY <1>1, <2>1
<1>8. CASE ItemsDone
  <2>1. op' = Idle \/ op' = [op EXCEPT !.pc = "deletions", !.deletions = op.previous \ op.desired]
    BY <1>8 DEF ItemsDone
  <2>2. [op EXCEPT !.pc = "deletions", !.deletions = op.previous \ op.desired].pc = "deletions"
    BY <1>a DEF Ops
  <2> QED
    BY <1>a, <1>1, <2>1, <2>2
<1>9. CASE DeletionsDone
  <2>1. op' = Idle \/ op'.pc = "items"
    BY <1>9, <1>a DEF DeletionsDone, Ops
  <2> QED
    BY <1>a, <1>1, <2>1
<1>10. NextDeletion.pc = "deletions" /\ [op EXCEPT !.pc = "restoring"].pc = "restoring"
  BY <1>a DEF NextDeletion, Ops
<1>11. CASE Deleted \/ NotDeleted \/ Restored
  <2>1. op' \in {Idle, NextDeletion, [op EXCEPT !.pc = "restoring"]}
    BY <1>11 DEF Deleted, DeletedThen, NotDeleted, Restored, GiveUp
  <2> QED
    BY <1>a, <1>1, <1>10, <2>1
<1>12. \A a \in Addresses : Temporary("acquiring", a).pc = "acquiring"
                           /\ Temporary("releasing", a).pc = "releasing"
  BY DEF Temporary, Idle
<1>13. ASSUME NEW a \in Addresses, Acquire(a) \/ Release(a) PROVE InFlight'
  BY <1>1, <1>2, <1>12, <1>13 DEF Acquire, AcquireWith, Release, ReleaseWith
<1>14. CASE Acquired \/ Released \/ Listing \/ StaleAnswer
  BY <1>a, <1>1, <1>14 DEF Acquired, Released, Listing, StaleAnswer
<1>15. CASE Synchronize
  BY <1>1, <1>15 DEF Synchronize, Idle
<1>16. CASE LinkLost \/ Leave \/ UNCHANGED vars
  BY <1>2, <1>16 DEF LinkLost, Leave, vars
<1>17. ASSUME NEW a \in Addresses, TemporaryHit(a) \/ LeaveDeletes(a) PROVE InFlight'
  BY <1>2, <1>17 DEF TemporaryHit, LeaveDeletes
<1> QED
  BY <1>3, <1>4, <1>5, <1>6, <1>7, <1>8, <1>9, <1>11, <1>13, <1>14, <1>15, <1>16, <1>17 DEF Next

\* No request of one source, and none for instruction breakpoints, replaces or
\* removes an acknowledged breakpoint that somebody else relies on.
THEOREM OwnersAreUndisturbed == Spec => OthersAreUndisturbed
<1> DEFINE Undisturbed ==
      \A a \in Addresses :
          phase' = phase /\ UserOwned(a) /\ known'[a] # known[a] =>
             IF op.kind = "source" THEN a \notin instructions /\ ~OtherSource(a, op.source)
             ELSE \A s \in Sources : a \notin sources[s]
<1>1. Init => TypeInv /\ InFlight
  <2>1. Init => InFlight
    BY DEF Init, Idle, InFlight
  <2> QED
    BY <2>1, BreakpointInit
<1>2. TypeInv /\ InFlight /\ [Next]_vars => (TypeInv /\ InFlight)'
  BY TypeStep, InFlightStep
<1>3. TypeInv /\ InFlight /\ [Next]_vars => Undisturbed
  <2> SUFFICES ASSUME TypeInv, InFlight, [Next]_vars, NEW a \in Addresses,
                      phase' = phase, UserOwned(a), known'[a] # known[a]
               PROVE  IF op.kind = "source" THEN a \notin instructions /\ ~OtherSource(a, op.source)
                      ELSE \A s \in Sources : a \notin sources[s]
    OBVIOUS
  <2> USE DEF books, coordinator, host, world
  <2>a. known \in [Addresses -> Configs \cup {None}]
    BY DEF TypeInv, TypeOK
  <2>b. Replaceable(a) => IF op.kind = "source" THEN a \notin instructions /\ ~OtherSource(a, op.source)
                          ELSE \A s \in Sources : a \notin sources[s]
    BY DEF Replaceable
  <2>1. CASE Item
    <3>1. /\ ~Refuses(Head(op.todo)) /\ known' = [known EXCEPT ![Head(op.todo).addr] = Head(op.todo).config]
      BY <2>1 DEF Item
    <3>2. a = Head(op.todo).addr /\ known[a] # Head(op.todo).config
      BY <2>a, <3>1
    <3> QED
      BY <2>b, <3>1, <3>2 DEF Refuses
  <2>2. CASE Added
    <3>1. op.pc = "adding" /\ known' = [known EXCEPT ![op.at] = Head(op.todo).config]
      BY <2>2 DEF Added
    <3>2. a = op.at /\ known[a] # Head(op.todo).config
      BY <2>a, <3>1
    <3> QED
      BY <2>b, <3>1, <3>2 DEF InFlight
  <2>3. CASE Deleted
    <3>1. op.pc = "deleting" /\ known' = [known EXCEPT ![op.at] = None]
      BY <2>3 DEF Deleted, DeletedThen
    <3>2. a = op.at
      BY <2>a, <3>1
    <3>3. ~Referenced(a)
      BY <3>1, <3>2 DEF InFlight
    <3> QED
      BY <3>3 DEF Referenced, OtherSource
  <2>4. CASE Clear
    BY <2>4 DEF Clear
  <2>5. ASSUME UNCHANGED known PROVE FALSE
    BY <2>5
  <2>6. ASSUME NEW l \in Lists, SetInstructions(l) \/ \E s \in Sources : SetSource(s, l) PROVE FALSE
    BY <2>5, <2>6 DEF SetInstructions, ReplaceInstructions, SetSource
  <2>7. ~(NotAdded \/ ItemsDone \/ DeletionsDone \/ NotDeleted \/ Restored \/ Acquired \/ Released \/ Synchronize
          \/ Listing \/ StaleAnswer \/ LinkLost \/ Leave \/ UNCHANGED vars)
    BY <2>5 DEF NotAdded, AddFails, ItemsDone, DeletionsDone, NotDeleted, Restored, GiveUp, Acquired, Released,
       Synchronize, Listing, StaleAnswer, LinkLost, Leave, vars
  <2>8. ASSUME NEW b \in Addresses,
               Deletion(b) \/ Acquire(b) \/ Release(b) \/ TemporaryHit(b) \/ LeaveDeletes(b)
        PROVE  FALSE
    BY <2>5, <2>8 DEF Deletion, Acquire, AcquireWith, Release, ReleaseWith, TemporaryHit, LeaveDeletes
  <2> QED
    BY <2>1, <2>2, <2>3, <2>4, <2>6, <2>7, <2>8 DEF Next
<1>4. TypeInv /\ InFlight /\ [Next]_vars => [Undisturbed]_vars
  BY <1>3
<1> QED
  BY <1>1, <1>2, <1>4, PTL DEF Spec, OthersAreUndisturbed

-----------------------------------------------------------------------------
(* Owners, books and emulator between operations.                          *)

LEMMA NamedMoves ==
  ASSUME NEW q \in Seq(Requests), q # <<>>
  PROVE  /\ Named(q) = {Head(q).addr} \cup Named(Tail(q))
         /\ (\A i, j \in DOMAIN q : q[i].addr = q[j].addr => i = j) =>
              /\ Head(q).addr \notin Named(Tail(q))
              /\ \A i, j \in DOMAIN Tail(q) : Tail(q)[i].addr = Tail(q)[j].addr => i = j
<1> DEFINE n == Len(q)
<1>1. /\ n \in Nat /\ n > 0 /\ DOMAIN q = 1..n /\ Head(q) = q[1]
      /\ DOMAIN Tail(q) = 1..n - 1 /\ \A i \in 1..n - 1 : Tail(q)[i] = q[i + 1]
  OBVIOUS
<1>2. Named(q) \subseteq {Head(q).addr} \cup Named(Tail(q))
  <2> SUFFICES ASSUME NEW i \in 1..n PROVE q[i].addr \in {Head(q).addr} \cup Named(Tail(q))
    BY <1>1 DEF Named
  <2>1. CASE i = 1
    BY <1>1, <2>1
  <2>2. CASE i # 1
    <3>1. i - 1 \in 1..n - 1 /\ q[i] = Tail(q)[i - 1]
      BY <1>1, <2>2
    <3> QED
      BY <1>1, <3>1 DEF Named
  <2> QED
    BY <2>1, <2>2
<1>3. {Head(q).addr} \cup Named(Tail(q)) \subseteq Named(q)
  <2>1. Head(q).addr \in Named(q)
    BY <1>1 DEF Named
  <2>2. ASSUME NEW i \in 1..n - 1 PROVE Tail(q)[i].addr \in Named(q)
    <3>1. i + 1 \in 1..n /\ Tail(q)[i] = q[i + 1]
      BY <1>1
    <3> QED
      BY <1>1, <3>1 DEF Named
  <2> QED
    BY <1>1, <2>1, <2>2 DEF Named
<1>4. ASSUME \A i, j \in DOMAIN q : q[i].addr = q[j].addr => i = j
      PROVE  /\ Head(q).addr \notin Named(Tail(q))
             /\ \A i, j \in DOMAIN Tail(q) : Tail(q)[i].addr = Tail(q)[j].addr => i = j
  <2>1. ASSUME NEW i \in 1..n - 1 PROVE Tail(q)[i].addr # Head(q).addr
    <3>1. i + 1 \in DOMAIN q /\ 1 \in DOMAIN q /\ Tail(q)[i] = q[i + 1] /\ i + 1 # 1
      BY <1>1
    <3> QED
      BY <1>1, <1>4, <3>1
  <2>2. ASSUME NEW i \in 1..n - 1, NEW j \in 1..n - 1, Tail(q)[i].addr = Tail(q)[j].addr PROVE i = j
    <3>1. i + 1 \in DOMAIN q /\ j + 1 \in DOMAIN q /\ Tail(q)[i] = q[i + 1] /\ Tail(q)[j] = q[j + 1]
      BY <1>1
    <3>2. i + 1 = j + 1
      BY <1>4, <2>2, <3>1
    <3> QED
      BY <3>2
  <2> QED
    BY <1>1, <2>1, <2>2 DEF Named
<1> QED
  BY <1>2, <1>3, <1>4

LEMMA OwnersStart == Init => OwnersInv
<1> SUFFICES ASSUME Init PROVE Settled
  BY DEF OwnersInv
<1>1. Idle.pc = "idle" /\ Idle.kind = "none"
  BY DEF Idle
<1> QED
  BY <1>1, BreakpointAssumption DEF Init, Settled, ReferredIsOwned, OwnedIsReferred, NoOrphan, OneSource, OneList,
     OfSource, UserOwned, Adds, Deletes

\* With an emulator that refuses nothing every answer during the session is a success.
LEMMA AlwaysAccepted ==
  ASSUME Attached, ~mode.rejecting
  PROVE  ~Failed
  BY DEF Attached, Failed

LEMMA MovedFields ==
  ASSUME NEW o \in Ops
  PROVE  /\ \A d : LET n == NextItem(o, d) IN
              /\ n.pc = "items" /\ n.kind = o.kind /\ n.source = o.source /\ n.previous = o.previous
              /\ n.deletions = o.deletions /\ n.todo = Tail(o.todo) /\ n.desired = d
         /\ \A d : LET n == [o EXCEPT !.pc = "deletions", !.deletions = d] IN
              /\ n.pc = "deletions" /\ n.kind = o.kind /\ n.source = o.source /\ n.previous = o.previous
              /\ n.deletions = d /\ n.todo = o.todo /\ n.desired = o.desired
         /\ \A d : LET n == [o EXCEPT !.deletions = d] IN
              /\ n.pc = o.pc /\ n.kind = o.kind /\ n.source = o.source /\ n.previous = o.previous
              /\ n.deletions = d /\ n.todo = o.todo /\ n.desired = o.desired
         /\ \A d : LET n == [o EXCEPT !.pc = "deletions", !.deletions = d, !.at = None] IN
              /\ n.pc = "deletions" /\ n.kind = o.kind /\ n.source = o.source /\ n.previous = o.previous
              /\ n.deletions = d /\ n.todo = o.todo /\ n.desired = o.desired
         /\ \A pc : LET n == [o EXCEPT !.pc = pc] IN
              /\ n.pc = pc /\ n.kind = o.kind /\ n.source = o.source /\ n.previous = o.previous
              /\ n.deletions = o.deletions /\ n.todo = o.todo /\ n.desired = o.desired /\ n.at = o.at
         /\ \A pc, a : LET n == [o EXCEPT !.pc = pc, !.at = a] IN
              /\ n.pc = pc /\ n.kind = o.kind /\ n.source = o.source /\ n.previous = o.previous
              /\ n.deletions = o.deletions /\ n.todo = o.todo /\ n.desired = o.desired /\ n.at = a
<1> USE DEF Ops
<1>1. ASSUME NEW d PROVE LET n == NextItem(o, d) IN
              /\ n.pc = "items" /\ n.kind = o.kind /\ n.source = o.source /\ n.previous = o.previous
              /\ n.deletions = o.deletions /\ n.todo = Tail(o.todo) /\ n.desired = d
  BY DEF NextItem
<1>2. ASSUME NEW d PROVE LET n == [o EXCEPT !.pc = "deletions", !.deletions = d] IN
              /\ n.pc = "deletions" /\ n.kind = o.kind /\ n.source = o.source /\ n.previous = o.previous
              /\ n.deletions = d /\ n.todo = o.todo /\ n.desired = o.desired
  OBVIOUS
<1>3. ASSUME NEW d PROVE LET n == [o EXCEPT !.deletions = d] IN
              /\ n.pc = o.pc /\ n.kind = o.kind /\ n.source = o.source /\ n.previous = o.previous
              /\ n.deletions = d /\ n.todo = o.todo /\ n.desired = o.desired
  OBVIOUS
<1>4. ASSUME NEW d PROVE LET n == [o EXCEPT !.pc = "deletions", !.deletions = d, !.at = None] IN
              /\ n.pc = "deletions" /\ n.kind = o.kind /\ n.source = o.source /\ n.previous = o.previous
              /\ n.deletions = d /\ n.todo = o.todo /\ n.desired = o.desired
  OBVIOUS
<1>5. ASSUME NEW pc PROVE LET n == [o EXCEPT !.pc = pc] IN
              /\ n.pc = pc /\ n.kind = o.kind /\ n.source = o.source /\ n.previous = o.previous
              /\ n.deletions = o.deletions /\ n.todo = o.todo /\ n.desired = o.desired /\ n.at = o.at
  OBVIOUS
<1>6. ASSUME NEW pc, NEW a PROVE LET n == [o EXCEPT !.pc = pc, !.at = a] IN
              /\ n.pc = pc /\ n.kind = o.kind /\ n.source = o.source /\ n.previous = o.previous
              /\ n.deletions = o.deletions /\ n.todo = o.todo /\ n.desired = o.desired /\ n.at = a
  OBVIOUS
<1> QED
  BY <1>1, <1>2, <1>3, <1>4, <1>5, <1>6

\* A session that is over does not come back.
LEMMA SessionIsOver == ASSUME [Next]_vars, Attached' PROVE Attached /\ mode' = mode
<1> USE DEF books, coordinator, host, world, Attached
<1>1. ASSUME NEW l \in Lists, SetInstructions(l) \/ \E s \in Sources : SetSource(s, l)
      PROVE  UNCHANGED <<phase, link, mode>>
  BY <1>1 DEF SetInstructions, ReplaceInstructions, SetSource, Start
<1>2. ASSUME Item \/ Added \/ NotAdded \/ ItemsDone \/ DeletionsDone \/ Deleted \/ NotDeleted \/ Restored
      PROVE  UNCHANGED <<phase, link, mode>>
  BY <1>2 DEF Item, Added, NotAdded, AddFails, ItemsDone, DeletionsDone, Deleted, DeletedThen, NotDeleted,
     Restored, GiveUp
<1>3. ASSUME Acquired \/ Released \/ Synchronize \/ Listing \/ StaleAnswer \/ UNCHANGED vars
      PROVE  UNCHANGED <<phase, link, mode>>
  BY <1>3 DEF Acquired, Released, Synchronize, Listing, StaleAnswer, Start, vars
<1>4. ASSUME NEW a \in Addresses, Deletion(a) \/ Acquire(a) \/ Release(a) \/ TemporaryHit(a)
      PROVE  UNCHANGED <<phase, link, mode>>
  BY <1>4 DEF Deletion, Acquire, AcquireWith, Release, ReleaseWith, TemporaryHit, Start
<1>5. ASSUME NEW a \in Addresses, LeaveDeletes(a) PROVE UNCHANGED <<phase, link, mode>>
  BY <1>5 DEF LeaveDeletes
<1>6. ~LinkLost /\ ~Leave /\ ~Clear
  BY DEF LinkLost, Leave, Clear
<1> QED
  BY <1>1, <1>2, <1>3, <1>4, <1>5, <1>6 DEF Next

LEMMA OwnersStep == TypeInv /\ BooksInv /\ InFlight /\ OwnersInv /\ [Next]_vars => OwnersInv'
<1>0. ASSUME TypeInv, [Next]_vars, Attached' PROVE Attached /\ mode' = mode
  BY <1>0, SessionIsOver
<1> SUFFICES ASSUME TypeInv, BooksInv, InFlight, Settled, [Next]_vars,
                    Attached, Attached', ~mode.rejecting, ~mode.duplicates
             PROVE  Settled'
  BY <1>0 DEF OwnersInv
<1> USE DEF books, coordinator, host, world
<1>a. op \in Ops
  BY DEF TypeInv, TypeOK, Ops, PCs
<1>b. ~Failed /\ op.live /\ phase # "cleared"
  BY AlwaysAccepted DEF TypeInv, Shape, Attached
<1>c. /\ known \in [Addresses -> Configs \cup {None}] /\ refs \in [Addresses -> Nat]
      /\ backend \in [Addresses -> Backends \cup {None, Temp, Foreign}]
      /\ sources \in [Sources -> SUBSET Addresses] /\ instructions \subseteq Addresses
  BY DEF TypeInv, TypeOK
<1>d. /\ Idle.pc = "idle" /\ Idle.kind = "none"
  BY DEF Idle
<1>e. op.todo # <<>> => Named(op.todo) = {Head(op.todo).addr} \cup Named(Tail(op.todo))
  BY <1>a, NamedMoves DEF Ops
<1>f. op.todo # <<>> /\ op.kind = "instructions" =>
        /\ Head(op.todo).addr \notin Named(Tail(op.todo))
        /\ \A i, j \in DOMAIN Tail(op.todo) : Tail(op.todo)[i].addr = Tail(op.todo)[j].addr => i = j
  BY <1>a, NamedMoves DEF Ops, Settled, OneList
<1>g. (op.kind = "source" => op.source \in Sources) /\ (op.pc \in {"items", "adding", "deletions", "deleting", "restoring"} => Requesting)
  BY DEF TypeInv, Shape
<1>h. TypeOK
  BY DEF TypeInv
\* Without a request under way the three agree, and so they do after it.
<1>1. ASSUME UNCHANGED <<known, sources, instructions>>, NoOrphan',
             op'.pc = "idle" => op'.kind = "none", ~Requesting',
             \A a \in Addresses : (UserOwned(a) <=> Referenced(a))
      PROVE  Settled'
  BY <1>1 DEF Settled, ReferredIsOwned, OwnedIsReferred, OneSource, OneList, OfSource, Referenced, UserOwned, Requesting
<1>2. ASSUME op.pc \notin {"items", "adding", "deletions", "deleting", "restoring"},
             ~Requesting
      PROVE  \A a \in Addresses : (UserOwned(a) <=> Referenced(a))
  BY <1>2 DEF Settled, ReferredIsOwned, OwnedIsReferred, OfSource, Referenced, Requesting, Adds, Deletes
<1>3. ASSUME NEW l \in Lists, NEW s \in Sources, SetSource(s, l) PROVE Settled'
  <2>1. /\ op.pc = "idle" /\ op.kind = "none" /\ UNCHANGED <<coordinator, backend>>
        /\ op'.pc = "items" /\ op'.kind = "source" /\ op'.source = s /\ op'.previous = sources[s]
        /\ op'.desired = {}
    BY <1>3 DEF SetSource, Start, Idle, Settled
  <2>2. \A a \in Addresses : (UserOwned(a) <=> Referenced(a))
    BY <1>2, <2>1 DEF Requesting
  <2> QED
    BY <2>1, <2>2 DEF Settled, ReferredIsOwned, OwnedIsReferred, NoOrphan, OneSource, OneList,
       OfSource, Referenced, UserOwned
<1>4. ASSUME NEW l \in Lists, SetInstructions(l) PROVE Settled'
  <2>1. /\ op.pc = "idle" /\ op.kind = "none" /\ UNCHANGED <<known, books, backend>>
        /\ instructions' = Listed(l)
        /\ op'.pc = "deletions" /\ op'.kind = "instructions" /\ op'.previous = instructions
        /\ op'.deletions = instructions \ Listed(l) /\ op'.todo = l
    BY <1>4 DEF SetInstructions, ReplaceInstructions, Start, Idle, Settled
  <2>2. \A a \in Addresses : (UserOwned(a) <=> Referenced(a))
    BY <1>2, <2>1 DEF Requesting
  <2>3. Named(l) = Listed(l)
    BY <1>4 DEF SetInstructions, ReplaceInstructions, Named, Listed
  <2>4. \A i, j \in DOMAIN l : l[i].addr = l[j].addr => i = j
    BY <1>4 DEF SetInstructions, ReplaceInstructions, Lists
  <2>5. ReferredIsOwned' /\ OneSource'
    BY <2>1, <2>2, <2>3 DEF Settled, ReferredIsOwned, OneSource, OfSource, Referenced, UserOwned
  <2>6. OwnedIsReferred'
    BY <2>1, <2>2, <2>3 DEF OwnedIsReferred, Referenced, UserOwned, Deletes
  <2>7. OneList'
    <3>1. /\ Named(l) \subseteq instructions'
          /\ \A a \in op'.previous \cap instructions' : UserOwned(a)
          /\ \A a \in Named(l) \ op'.previous : UserOwned(a) => OfSource(a)
      BY <1>c, <2>1, <2>2, <2>3, ListsAreRequests, <1>h DEF Referenced, OfSource
    <3> QED
      BY <2>1, <2>4, <3>1 DEF OneList, OfSource, UserOwned
  <2> QED
    BY <2>1, <2>5, <2>6, <2>7 DEF Settled, NoOrphan
<1>5. CASE Item
  <2> DEFINE r == Head(op.todo)
             a == r.addr
  <2>1. /\ op.pc = "items" /\ op.todo # <<>> /\ UNCHANGED <<books, world>>
        /\ Requesting /\ (op.kind = "instructions" => a \in Addresses)
    BY <1>5, <1>c, <1>e, <1>g DEF Item, Settled, OneList
  <2>2. /\ Noted \in Ops /\ Noted.todo = op.todo /\ Noted.kind = op.kind /\ Noted.deletions = op.deletions
        /\ Noted.source = op.source /\ Noted.previous = op.previous /\ Noted.desired = op.desired
    BY <1>a, <2>1, NotedIsOp
  <2>3. CASE Unwanted(Noted) /\ UNCHANGED known
    <3>1. /\ op'.pc = "items" /\ op'.kind = op.kind /\ op'.source = op.source /\ op'.previous = op.previous
          /\ op'.todo = Tail(op.todo) /\ op'.desired = op.desired \cup ({a} \cap op.previous)
          /\ instructions' = IF op.kind = "source" THEN instructions ELSE instructions \ ({a} \ op.previous)
      BY <2>2, <2>3, MovedFields DEF Unwanted
    <3>2. ReferredIsOwned'
      BY <1>e, <2>1, <2>3, <3>1 DEF Settled, ReferredIsOwned, OneList, OfSource, UserOwned, Requesting
    <3>3. OwnedIsReferred'
      <4> SUFFICES ASSUME NEW b \in Addresses, UserOwned(b), Referenced(b) \/ (Adds /\ op.kind = "source" /\ b \in op.desired)
                   PROVE  Referenced(b)' \/ (Adds' /\ op'.kind = "source" /\ b \in op'.desired)
        BY <2>1, <2>3 DEF Settled, OwnedIsReferred, UserOwned, Deletes
      <4>1. CASE op.kind = "source"
        BY <2>1, <3>1, <4>1 DEF Referenced, Adds
      <4>2. CASE op.kind = "instructions"
        <5>1. b = a /\ a \notin op.previous => OfSource(a)
          BY <1>e, <2>1, <4>2 DEF Settled, OneList
        <5> QED
          BY <2>1, <3>1, <4>2, <5>1 DEF Referenced, OfSource
      <4> QED
        BY <2>1, <4>1, <4>2 DEF Requesting
    <3>4. OneSource'
      <4> SUFFICES ASSUME op.kind = "source" PROVE OneSource'
        BY <3>1 DEF OneSource
      <4>1. op.source \in Sources /\ op.previous = sources[op.source]
        BY <1>g, <2>1 DEF Settled, OneSource, Adds
      <4>2. \A b \in op.previous : UserOwned(b)
        BY <1>c, <4>1 DEF Settled, ReferredIsOwned, OfSource
      <4> QED
        BY <2>1, <2>3, <3>1, <4>1, <4>2 DEF Settled, OneSource, UserOwned, Adds
    <3>5. OneList'
      BY <1>e, <1>f, <2>1, <2>3, <3>1 DEF Settled, OneList, OfSource, UserOwned
    <3> QED
      BY <2>1, <3>1, <3>2, <3>3, <3>4, <3>5 DEF Settled, NoOrphan
  <2>4. CASE /\ ~Refuses(r) /\ op' = [Noted EXCEPT !.pc = "adding", !.at = r.addr]
             /\ UNCHANGED <<known, instructions>>
    <3>1. /\ op'.pc = "adding" /\ op'.kind = op.kind /\ op'.source = op.source /\ op'.previous = op.previous
          /\ op'.todo = op.todo /\ op'.desired = op.desired
      BY <2>2, <2>4, MovedFields
    <3> QED
      BY <2>1, <2>4, <3>1 DEF Settled, ReferredIsOwned, OwnedIsReferred, NoOrphan, OneSource, OneList,
         OfSource, Referenced, UserOwned, Adds, Deletes
  <2>5. CASE /\ ~Refuses(r) /\ ~NeedsAdd(r)
             /\ known' = [known EXCEPT ![r.addr] = r.config] /\ Wanted(Noted)
    <3>1. /\ op'.pc = "items" /\ op'.kind = op.kind /\ op'.source = op.source /\ op'.previous = op.previous
          /\ op'.todo = Tail(op.todo) /\ op'.desired = op.desired \cup {a}
          /\ UNCHANGED instructions
      BY <2>2, <2>5, MovedFields DEF Wanted
    <3>2. UserOwned(a) /\ \A b \in Addresses : UserOwned(b)' <=> UserOwned(b)
      BY <1>c, <2>5, BreakpointAssumption DEF NeedsAdd, UserOwned, Refuses, Parsed
    <3>3. ReferredIsOwned'
      BY <1>e, <2>1, <3>1, <3>2 DEF Settled, ReferredIsOwned, OfSource
    <3>4. OwnedIsReferred'
      BY <2>1, <3>1, <3>2 DEF Settled, OwnedIsReferred, Referenced, Adds, Deletes
    <3>5. OneSource'
      BY <1>c, <2>1, <2>5, <3>1, <3>2, BreakpointAssumption DEF Settled, OneSource, UserOwned, Adds, Refuses
    <3>6. OneList'
      BY <1>c, <1>e, <1>f, <2>1, <3>1, <3>2 DEF Settled, OneList, OfSource
    <3> QED
      BY <2>1, <3>1, <3>3, <3>4, <3>5, <3>6 DEF Settled, NoOrphan
  <2> QED
    BY <1>5, <2>3, <2>4, <2>5 DEF Item
<1>6. CASE Added
  <2> DEFINE a == Head(op.todo).addr
             c == Head(op.todo).config
  <2>1. /\ op.pc = "adding" /\ op.todo # <<>> /\ op.at \in Addresses /\ a = op.at /\ c \in Configs
        /\ UNCHANGED <<books, host>> /\ known' = [known EXCEPT ![a] = c]
    BY <1>6 DEF Added, TypeInv, Shape
  <2>2. backend' = [backend EXCEPT ![a] = BackendOf[c]] /\ BackendOf[c] # Temp
    BY <1>6, <2>1, BackendsDiffer DEF Added, Accepted, Landed, Backends
  <2>3. /\ op'.pc = "items" /\ op'.kind = op.kind /\ op'.source = op.source /\ op'.previous = op.previous
        /\ op'.todo = Tail(op.todo) /\ op'.desired = op.desired \cup {a} /\ UNCHANGED instructions
    BY <1>a, <1>6, <2>1, MovedFields DEF Added, Wanted
  <2>4. \A b \in Addresses : (UserOwned(b)' <=> b = a \/ UserOwned(b))
    BY <1>c, <2>1, BreakpointAssumption DEF UserOwned
  <2>5. ReferredIsOwned'
    BY <1>e, <2>1, <2>3, <2>4 DEF Settled, ReferredIsOwned, OfSource
  <2>6. OwnedIsReferred'
    <3> SUFFICES ASSUME NEW b \in Addresses, b = a \/ UserOwned(b)
                 PROVE  Referenced(b)' \/ (op.kind = "source" /\ b \in op'.desired)
      BY <2>3, <2>4 DEF OwnedIsReferred, Adds
    <3>1. CASE b = a
      BY <1>e, <1>g, <2>1, <2>3, <3>1 DEF Settled, OneList, Requesting, Referenced
    <3>2. CASE b # a
      BY <2>1, <2>3, <3>2 DEF Settled, OwnedIsReferred, Referenced, Deletes
    <3> QED
      BY <3>1, <3>2
  <2>7. OneSource'
    <3> SUFFICES ASSUME op.kind = "source"
                 PROVE  op'.previous = sources'[op'.source] /\ \A b \in op'.desired : UserOwned(b)'
      BY <2>3 DEF OneSource
    <3>1. op.previous = sources[op.source] /\ \A b \in op.desired : UserOwned(b)
      BY <2>1 DEF Settled, OneSource, Adds
    <3> QED
      BY <1>a, <2>1, <2>3, <2>4, <3>1 DEF Ops
  <2>8. OneList'
    <3> SUFFICES ASSUME op.kind = "instructions" PROVE OneList'
      BY <2>3 DEF OneList
    <3>1. a \notin Named(Tail(op.todo))
      BY <1>f, <2>1
    <3>2. /\ Named(Tail(op.todo)) \subseteq instructions /\ instructions \subseteq Addresses
          /\ \A b \in op.previous \cap instructions : UserOwned(b)'
      BY <1>c, <1>e, <2>1, <2>4 DEF Settled, OneList
    <3>3. \A b \in Named(Tail(op.todo)) \ op.previous : UserOwned(b)' => OfSource(b)
      BY <1>e, <2>1, <2>4, <3>1, <3>2 DEF Settled, OneList
    <3> QED
      BY <1>f, <2>1, <2>3, <3>2, <3>3 DEF OneList, OfSource
  <2>9. NoOrphan'
    BY <1>c, <2>1, <2>2, <2>3 DEF Settled, NoOrphan
  <2> QED
    BY <2>3, <2>5, <2>6, <2>7, <2>8, <2>9 DEF Settled
<1>7. ~NotAdded /\ ~NotDeleted
  BY <1>b DEF NotAdded, AddFails, NotDeleted
<1>8. CASE ItemsDone
  <2>1. op.pc = "items" /\ op.todo = <<>> /\ UNCHANGED <<known, instructions, refs, backend>>
    BY <1>8 DEF ItemsDone
  <2>2. CASE op.kind = "source"
    <3>1. /\ op.source \in Sources /\ sources' = [sources EXCEPT ![op.source] = op.desired]
          /\ op.previous = sources[op.source] /\ \A b \in op.desired : UserOwned(b)
      BY <1>8, <1>g, <2>1, <2>2 DEF ItemsDone, Settled, OneSource, Adds
    <3>2. op'.pc = "deletions" /\ op'.kind = "source" /\ op'.deletions = op.previous \ op.desired
      <4>1. op' = [op EXCEPT !.pc = "deletions", !.deletions = op.previous \ op.desired]
        BY <1>8, <2>2 DEF ItemsDone
      <4> QED
        BY <1>a, <2>2, <4>1, MovedFields
    <3>3. \A b \in Addresses : b \in op.desired => OfSource(b)'
      BY <1>c, <3>1 DEF OfSource
    <3>4. \A b \in Addresses : OfSource(b) => OfSource(b)' \/ b \in op.previous
      BY <1>c, <3>1 DEF OfSource
    <3>5. \A b \in Addresses : OfSource(b)' => OfSource(b) \/ b \in op.desired
      BY <1>c, <3>1 DEF OfSource
    <3>6. ReferredIsOwned'
      BY <2>1, <2>2, <3>1, <3>2, <3>5 DEF Settled, ReferredIsOwned, UserOwned
    <3>7. OwnedIsReferred'
      <4> SUFFICES ASSUME NEW b \in Addresses, UserOwned(b)
                   PROVE  Referenced(b)' \/ b \in op.previous \ op.desired
        BY <2>1, <3>2 DEF OwnedIsReferred, UserOwned, Deletes
      <4>1. b \in instructions \/ OfSource(b) \/ b \in op.desired
        BY <2>1 DEF Settled, OwnedIsReferred, Referenced, OfSource, Deletes
      <4> QED
        BY <2>1, <3>3, <3>4, <4>1 DEF Referenced, OfSource
    <3> QED
      BY <2>1, <3>2, <3>6, <3>7 DEF Settled, NoOrphan, OneSource, OneList, Adds
  <2>3. CASE op.kind # "source"
    <3>1. op' = Idle /\ UNCHANGED sources
      BY <1>8, <2>3 DEF ItemsDone
    <3>2. \A b \in Addresses : (UserOwned(b) <=> Referenced(b))
      BY <1>g, <2>1, <2>3 DEF Settled, ReferredIsOwned, OwnedIsReferred, OfSource, Referenced, Requesting, Named, Deletes
    <3>3. NoOrphan'
      BY <2>1 DEF Settled, NoOrphan
    <3> QED
      BY <1>1, <1>d, <2>1, <3>1, <3>2, <3>3 DEF Requesting
  <2> QED
    BY <2>2, <2>3
<1>9. ASSUME NEW a \in Addresses, Deletion(a) PROVE Settled'
  <2>1. /\ op.pc = "deletions" /\ UNCHANGED <<known, sources, instructions, refs, backend>>
        /\ op'.pc \in {"deletions", "deleting"} /\ op'.kind = op.kind /\ op'.source = op.source
        /\ op'.previous = op.previous /\ op'.todo = op.todo
    BY <1>a, <1>9, MovedFields DEF Deletion
  <2>2. op'.deletions = op.deletions \/ (Referenced(a) /\ op'.deletions = op.deletions \ {a})
    BY <1>a, <1>9, MovedFields DEF Deletion
  <2>3. OwnedIsReferred'
    BY <2>1, <2>2 DEF Settled, OwnedIsReferred, Referenced, UserOwned, Adds, Deletes
  <2>4. ReferredIsOwned'
    BY <2>1 DEF Settled, ReferredIsOwned, OfSource, UserOwned
  <2>5. OneList'
    BY <2>1 DEF Settled, OneList, OfSource, UserOwned
  <2> QED
    BY <2>1, <2>3, <2>4, <2>5 DEF Settled, NoOrphan, OneSource, Adds
<1>10. CASE DeletionsDone
  <2>1. op.pc = "deletions" /\ op.deletions = {} /\ UNCHANGED <<known, sources, instructions, refs, backend>>
    BY <1>10 DEF DeletionsDone
  <2>2. CASE op.kind = "source"
    <3>1. op' = Idle
      BY <1>10, <2>2 DEF DeletionsDone
    <3>2. \A b \in Addresses : (UserOwned(b) <=> Referenced(b))
      BY <2>1, <2>2 DEF Settled, ReferredIsOwned, OwnedIsReferred, OfSource, Referenced, Adds, Deletes
    <3>3. NoOrphan'
      BY <2>1 DEF Settled, NoOrphan
    <3> QED
      BY <1>1, <1>d, <2>1, <3>1, <3>2, <3>3 DEF Requesting
  <2>3. CASE op.kind # "source"
    <3>1. op' = [op EXCEPT !.pc = "items"]
      BY <1>10, <2>3 DEF DeletionsDone
    <3>2. /\ op'.pc = "items" /\ op'.kind = op.kind /\ op'.source = op.source
          /\ op'.previous = op.previous /\ op'.todo = op.todo
      BY <1>a, <3>1, MovedFields
    <3>3. OwnedIsReferred'
      BY <2>1, <2>3, <3>2 DEF Settled, OwnedIsReferred, Referenced, UserOwned, Adds, Deletes
    <3>4. ReferredIsOwned' /\ OneList'
      BY <2>1, <3>2 DEF Settled, ReferredIsOwned, OneList, OfSource, UserOwned
    <3> QED
      BY <2>1, <2>3, <3>2, <3>3, <3>4 DEF Settled, NoOrphan, OneSource
  <2> QED
    BY <2>2, <2>3
\* A breakpoint that is deleted has nobody who refers to it.
<1>11. ASSUME op.at \in Addresses, ~Referenced(op.at), UNCHANGED <<sources, instructions, refs>>,
              known' = [known EXCEPT ![op.at] = None],
              op' \in {NextDeletion, [op EXCEPT !.pc = "restoring"]}, Deletes, NoOrphan'
       PROVE  Settled'
  <2>1. /\ op'.pc \in {"deletions", "restoring"} /\ op'.kind = op.kind /\ op'.source = op.source
        /\ op'.previous = op.previous /\ op'.todo = op.todo
        /\ op.deletions \ {op.at} \subseteq op'.deletions
    <3>1. CASE op' = NextDeletion
      BY <1>a, <3>1, MovedFields DEF NextDeletion
    <3>2. CASE op' = [op EXCEPT !.pc = "restoring"]
      BY <1>a, <3>2, MovedFields
    <3> QED
      BY <1>11, <3>1, <3>2
  <2>2. \A b \in Addresses : (UserOwned(b)' <=> b # op.at /\ UserOwned(b))
    BY <1>c, <1>11 DEF UserOwned
  <2>3. OwnedIsReferred'
    BY <1>11, <2>1, <2>2 DEF Settled, OwnedIsReferred, Referenced, Adds, Deletes
  <2>4. ReferredIsOwned'
    BY <1>11, <2>1, <2>2 DEF Settled, ReferredIsOwned, OfSource, Referenced
  <2>5. OneList'
    BY <1>c, <1>11, <2>1, <2>2 DEF Settled, OneList, OfSource, Referenced
  <2> QED
    BY <1>11, <2>1, <2>3, <2>4, <2>5 DEF Settled, OneSource, Adds
<1>12. CASE Deleted
  <2>1. /\ op.pc = "deleting" /\ known' = [known EXCEPT ![op.at] = None]
        /\ UNCHANGED <<sources, instructions, refs>> /\ backend' = [backend EXCEPT ![op.at] = None]
        /\ op' \in {NextDeletion, [op EXCEPT !.pc = "restoring"]}
    BY <1>12 DEF Deleted, DeletedThen, Accepted, Landed
  <2>2. op.at \in Addresses /\ ~Referenced(op.at)
    BY <2>1 DEF TypeInv, Shape, InFlight
  <2>3. NoOrphan'
    BY <1>c, <2>1, <2>2, BreakpointAssumption DEF Settled, NoOrphan
  <2> QED
    BY <1>11, <2>1, <2>2, <2>3 DEF Deletes
<1>13. CASE Restored
  <2>1. /\ op.pc = "restoring" /\ op' = NextDeletion /\ UNCHANGED <<known, sources, instructions, refs>>
        /\ backend' = [backend EXCEPT ![op.at] = Temp]
    BY <1>b, <1>13 DEF Restored, Accepted, Landed
  <2>2. op.at \in Addresses /\ ~UserOwned(op.at) /\ refs[op.at] > 0
    BY <1>b, <2>1 DEF TypeInv, Shape, BooksInv, Placed
  <2>3. /\ op'.pc = "deletions" /\ op'.kind = op.kind /\ op'.source = op.source
        /\ op'.previous = op.previous /\ op'.todo = op.todo
        /\ op'.deletions = op.deletions \ {op.at}
    BY <1>a, <2>1, MovedFields DEF NextDeletion
  <2>4. NoOrphan'
    BY <1>c, <2>1, <2>2 DEF Settled, NoOrphan
  <2>5. OwnedIsReferred'
    BY <2>1, <2>2, <2>3 DEF Settled, OwnedIsReferred, Referenced, UserOwned, Adds, Deletes
  <2>6. ReferredIsOwned' /\ OneList'
    BY <2>1, <2>3 DEF Settled, ReferredIsOwned, OneList, OfSource, UserOwned
  <2> QED
    BY <2>3, <2>4, <2>5, <2>6 DEF Settled, OneSource, Adds
\* What moves no request of the user changes only the emulator and the references.
<1>14. ASSUME ~Requesting, op.pc \notin {"items", "adding", "deletions", "deleting", "restoring"},
              UNCHANGED <<known, sources, instructions>>, NoOrphan',
              \/ op' \in {op, Idle, [Idle EXCEPT !.kind = "synchronize", !.pc = "listing"]}
              \/ \E pc \in {"acquiring", "releasing"}, a \in Addresses : op' = Temporary(pc, a)
       PROVE  Settled'
  <2>1. [Idle EXCEPT !.kind = "synchronize", !.pc = "listing"].pc = "listing"
        /\ [Idle EXCEPT !.kind = "synchronize", !.pc = "listing"].kind = "synchronize"
    BY DEF Idle
  <2>2. \A pc, a : Temporary(pc, a).kind = "temporary" /\ Temporary(pc, a).pc = pc
    BY DEF Temporary, Idle
  <2>3. ~Requesting' /\ (op'.pc = "idle" => op'.kind = "none")
    <3>1. CASE op' = op
      BY <1>14, <3>1 DEF Requesting, Settled
    <3>2. CASE op' = Idle
      BY <1>d, <3>2 DEF Requesting
    <3>3. CASE op' = [Idle EXCEPT !.kind = "synchronize", !.pc = "listing"]
      BY <2>1, <3>3 DEF Requesting
    <3>4. ASSUME NEW pc \in {"acquiring", "releasing"}, NEW a \in Addresses, op' = Temporary(pc, a)
          PROVE  ~Requesting' /\ op'.pc # "idle"
      <4>1. op'.kind = "temporary" /\ op'.pc = pc
        BY <2>2, <3>4
      <4> QED
        BY <4>1 DEF Requesting
    <3> QED
      BY <1>14, <3>1, <3>2, <3>3, <3>4
  <2> QED
    BY <1>1, <1>2, <1>14, <2>3
<1>15. \A pc, a : Temporary(pc, a).pc = pc /\ Temporary(pc, a).at = a
  BY DEF Temporary, Idle
<1>16. ASSUME NEW a \in Addresses, Acquire(a) \/ Release(a) PROVE Settled'
  <2>1. op.pc = "idle" /\ op.kind = "none" /\ UNCHANGED <<known, sources, instructions, backend>>
    BY <1>16 DEF Acquire, AcquireWith, Release, ReleaseWith, Start, Settled
  <2>2. op' = op \/ \E pc \in {"acquiring", "releasing"} : op' = Temporary(pc, a)
    BY <1>16 DEF Acquire, AcquireWith, Release, ReleaseWith
  <2>3. CASE Acquire(a)
    <3>1. \A b \in Addresses : refs'[b] >= refs[b]
      BY <1>c, <2>3 DEF Acquire, AcquireWith
    <3>2. NoOrphan'
      BY <1>c, <2>1, <2>3, <3>1 DEF Settled, NoOrphan, Acquire, AcquireWith
    <3> QED
      BY <1>14, <2>1, <2>2, <3>2 DEF Requesting
  <2>4. CASE Release(a)
    <3>1. refs[a] > 0 /\ refs' = [refs EXCEPT ![a] = @ - 1]
      BY <2>4 DEF Release, ReleaseWith
    <3>2. backend[a] = Temp => ~UserOwned(a)
      <4>1. UserOwned(a) => backend[a] = BackendOf[known[a]] /\ known[a] \in Configs
        BY <1>c DEF BooksInv, AcknowledgedIsInstalled, UserOwned
      <4> QED
        BY <4>1, BackendsDiffer
    <3>3. backend[a] = Temp /\ refs[a] = 1 => op'.pc = "releasing" /\ op'.at = a
      BY <1>15, <2>4, <3>2 DEF Release, ReleaseWith
    <3>4. NoOrphan'
      BY <1>c, <2>1, <3>1, <3>3 DEF Settled, NoOrphan
    <3> QED
      BY <1>14, <2>1, <2>2, <3>4 DEF Requesting
  <2> QED
    BY <1>16, <2>3, <2>4
<1>17. CASE Acquired \/ Released
  <2>1. /\ op.pc \in {"acquiring", "releasing"} /\ op.at \in Addresses /\ op' = Idle
        /\ UNCHANGED <<known, sources, instructions>> /\ backend' = Landed
    BY <1>b, <1>17 DEF Acquired, Released, Accepted, TypeInv, Shape
  <2>2. CASE Acquired
    <3>1. refs' = [refs EXCEPT ![op.at] = 1] /\ op.pc = "acquiring" /\ backend' = [backend EXCEPT ![op.at] = Temp]
      BY <1>b, <2>1, <2>2 DEF Acquired, Landed
    <3> QED
      BY <1>14, <1>c, <2>1, <3>1 DEF Settled, NoOrphan
  <2>3. CASE Released
    <3>1. UNCHANGED refs /\ op.pc = "releasing" /\ backend' = [backend EXCEPT ![op.at] = None]
      BY <2>1, <2>3 DEF Released, Landed
    <3> QED
      BY <1>14, <1>c, <2>1, <3>1, BreakpointAssumption DEF Settled, NoOrphan
  <2> QED
    BY <1>17, <2>2, <2>3
<1>18. CASE Synchronize
  BY <1>14, <1>18 DEF Synchronize, Start, Settled, NoOrphan, Requesting
<1>19. CASE Listing
  <2>1. op.pc = "listing" /\ op' = Idle /\ UNCHANGED <<known, sources, instructions, refs, backend>>
    BY <1>b, <1>19 DEF Listing, Accepted, Landed
  <2> QED
    BY <1>14, <2>1 DEF Settled, NoOrphan
<1>20. ~StaleAnswer /\ ~LinkLost /\ ~Leave /\ ~Clear /\ \A a \in Addresses : ~LeaveDeletes(a)
  BY <1>b DEF StaleAnswer, LinkLost, Leave, Clear, LeaveDeletes, Attached
<1>21. ASSUME UNCHANGED <<coordinator, op>>, NoOrphan' PROVE Settled'
  BY <1>21 DEF Settled, ReferredIsOwned, OwnedIsReferred, OneSource, OneList, OfSource, Referenced, UserOwned,
     Requesting, Adds, Deletes
<1>22. ASSUME NEW a \in Addresses, TemporaryHit(a) PROVE Settled'
  BY <1>c, <1>21, <1>22, BreakpointAssumption DEF TemporaryHit, Settled, NoOrphan
<1>23. CASE UNCHANGED vars
  BY <1>21, <1>23 DEF vars, Settled, NoOrphan
<1> QED
  BY <1>3, <1>4, <1>5, <1>6, <1>7, <1>8, <1>9, <1>10, <1>12, <1>13, <1>16, <1>17, <1>18, <1>19, <1>20, <1>22, <1>23
     DEF Next

\* With an emulator that refuses nothing, what the owners refer to, what the
\* books acknowledge and what the emulator holds agree between operations.
THEOREM OwnersBooksAndEmulatorAgree == Spec => []ConsistentBetweenOperations
<1> DEFINE IInv == TypeInv /\ BooksInv /\ InFlight /\ OwnersInv
<1>1. Init => IInv
  <2>1. Init => InFlight
    BY DEF Init, Idle, InFlight
  <2> QED
    BY <2>1, BreakpointInit, BooksStart, OwnersStart
<1>2. IInv /\ [Next]_vars => IInv'
  BY TypeStep, BooksStep, InFlightStep, OwnersStep
<1>3. IInv => ConsistentBetweenOperations
  BY DEF OwnersInv, Settled, ReferredIsOwned, OwnedIsReferred, NoOrphan, OfSource, Referenced, Adds, Deletes,
     ConsistentBetweenOperations, NothingUnreferenced, NothingUnacknowledged, NoOrphanTemporary
<1> QED
  BY <1>1, <1>2, <1>3, PTL DEF Spec
=============================================================================
