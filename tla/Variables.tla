------------------------------- MODULE Variables -------------------------------
(***************************************************************************)
(* What is shown of the frames of a call stack: the functions and inlined    *)
(* functions they are in, the statement they wait at, and their variables,    *)
(* from DwarfScopes, location lists, DWARF expressions and the registers that *)
(* unwinding recovered for the frame.                                        *)
(*                                                                         *)
(* A programme carries its debug entries in their order (dies), the rows of   *)
(* its line table by address, and, to compare with, what its source means:    *)
(* which variable is where the entry value or the present value of BC, and    *)
(* which functions an address is in.                                        *)
(***************************************************************************)
EXTENDS CallStacks, TLC

CONSTANT MaxStack       \* limit of an expression's stack

ASSUME VariablesAssumption ==
    /\ MaxStack \in Nat \ {0}
    /\ \A p \in Programmes : \A i \in DOMAIN p.dies : p.dies[i].parent \in 0..i - 1

Dies == programme.dies
Tagged(tags) == {i \in DOMAIN Dies : Dies[i].tag \in tags}
----------------------------------------------------------------------------
(***************************************************************************)
(* Ranges and scopes.                                                       *)
(***************************************************************************)
\* parseRngList(): offsets count from the last base, nothing behind the end counts.
ReadsRange(r, e) ==
    LET Adds(from, to) == [r EXCEPT !.pcs = @ \cup from..to - 1]
    IN  CASE r.ended -> r
          [] ~r.ended /\ e.kind = "end_of_list" -> [r EXCEPT !.ended = TRUE]
          [] ~r.ended /\ e.kind = "base_addressx" -> [r EXCEPT !.base = e.from]
          [] ~r.ended /\ e.kind = "offset_pair" -> Adds(r.base + e.from, r.base + e.to)
          [] ~r.ended /\ e.kind \in {"startx_endx", "start_end"} -> Adds(e.from, e.to)
          [] ~r.ended /\ e.kind \in {"startx_length", "start_length"} -> Adds(e.from, e.from + e.to)
RangeList(list) == FoldLeft(ReadsRange, [base |-> 0, ended |-> FALSE, pcs |-> {}], list).pcs

\* readRanges(): a list, or low_pc and a high_pc that is an address or a length.
RangesOf(i) ==
    LET r == Dies[i].ranges
    IN  CASE r.kind = "none" -> {}
          [] r.kind = "list" -> RangeList(r.list)
          [] r.kind = "address" -> r.low..r.high - 1
          [] r.kind = "length" -> r.low..r.low + r.high - 1

ScopeTags == {"compile_unit", "subprogram", "lexical_block", "inlined_subroutine"}
\* A die's scopes, its own first: walkScope() hands a scope down to its children.
ScopesFrom[i \in Nat] ==
    IF i = 0 THEN <<>>
    ELSE (IF Dies[i].tag \in ScopeTags THEN <<i>> ELSE <<>>) \o ScopesFrom[Dies[i].parent]
Depth(i) == Len(ScopesFrom[i])

PhysicalSubprogramAt(pc) ==
    LET there == {i \in Tagged({"subprogram"}) : pc \in RangesOf(i)}
    IN  IF there = {} THEN 0 ELSE Min(there)

InlineChainAt(pc) ==
    SetToSortSeq({i \in Tagged({"inlined_subroutine"}) : pc \in RangesOf(i)},
                 LAMBDA i, j : Depth(i) > Depth(j) \/ (Depth(i) = Depth(j) /\ i < j))

\* A macro's expansion may have no function around it: then it is the function.
SubprogramAt(pc) ==
    IF PhysicalSubprogramAt(pc) # 0 \/ InlineChainAt(pc) = <<>> THEN PhysicalSubprogramAt(pc)
    ELSE Head(InlineChainAt(pc))

\* The innermost scope; of two at one depth the first.
ScopeAt(pc) ==
    LET there == {i \in Tagged(ScopeTags) : pc \in RangesOf(i)}
        deepest == {i \in there : \A j \in there : Depth(j) <= Depth(i)}
    IN  IF there = {} THEN 0 ELSE Min(deepest)
----------------------------------------------------------------------------
(***************************************************************************)
(* Variables and where they are.                                            *)
(***************************************************************************)
\* addVariable(): a variable belongs to the scope it is in.
KindOf(v) ==
    IF Dies[v].tag = "formal_parameter" THEN "parameter"
    ELSE IF Dies[Head(ScopesFrom[v])].tag = "compile_unit" THEN "global" ELSE "local"
VariablesOf(s) ==
    SetToSortSeq({v \in Tagged({"variable", "formal_parameter"}) : Head(ScopesFrom[v]) = s}, <)

\* variablesAt(): an inner name hides an outer one; what has no name of its own is
\* always visible.
Hides(seen, v) ==
    IF Dies[v].name # "" /\ \E w \in ToSet(seen) : Dies[w].name = Dies[v].name THEN seen
    ELSE Append(seen, v)
VariablesAt(pc) ==
    LET scopes == ScopesFrom[ScopeAt(pc)]
    IN  FoldLeft(Hides, <<>>, FlattenSeq([k \in DOMAIN scopes |-> VariablesOf(scopes[k])]))

\* ScopeService.scopes(): the variables of the place, and the globals of all.
ShownAt(pc) ==
    {v \in ToSet(VariablesAt(pc)) : KindOf(v) \in {"parameter", "local"}}
    \cup {v \in Tagged({"variable", "formal_parameter"}) : KindOf(v) = "global"}

\* parseLocationList()
ReadsLocation(l, e) ==
    LET Adds(pcs) == [l EXCEPT !.entries = Append(@, [pcs |-> pcs, code |-> e.code])]
    IN  CASE l.ended -> l
          [] ~l.ended /\ e.kind = "end_of_list" -> [l EXCEPT !.ended = TRUE]
          [] ~l.ended /\ e.kind = "base_addressx" -> [l EXCEPT !.base = e.from]
          [] ~l.ended /\ e.kind = "offset_pair" -> Adds(l.base + e.from..l.base + e.to - 1)
          [] ~l.ended /\ e.kind \in {"startx_endx", "start_end"} -> Adds(e.from..e.to - 1)
          [] ~l.ended /\ e.kind = "default_location" -> Adds(DOMAIN programme.code)
LocationList(list) == FoldLeft(ReadsLocation, [base |-> 0, ended |-> FALSE, entries |-> <<>>], list).entries

\* locationAt(): the first entry that is for the address.
LocationAt(entries, pc) ==
    LET active == {k \in DOMAIN entries : pc \in entries[k].pcs}
    IN  IF active = {} THEN <<>> ELSE entries[Min(active)].code
----------------------------------------------------------------------------
(***************************************************************************)
(* evaluateDwarfExpression().  Operations go by their numbers, since the code *)
(* tests ranges of them: what it takes for DW_OP_breg0..31 covers DW_OP_fbreg *)
(* (16#91), DW_OP_call_frame_cfa (16#9C) and DW_OP_stack_value (16#9F), whose  *)
(* cases behind it are never reached.                                        *)
(***************************************************************************)
GivesUp(e) == [e EXCEPT !.failed = TRUE]
Push(e, value) == IF Len(e.stack) >= MaxStack THEN GivesUp(e) ELSE [e EXCEPT !.stack = Append(@, value)]
Pop(e, n) == [e EXCEPT !.stack = SubSeq(@, 1, Len(@) - n)]
\* The n-th value from the top.
Nth(e, n) == e.stack[Len(e.stack) + 1 - n]
\* Towards zero.
Magnitude(n) == IF n < 0 THEN -n ELSE n
Quotient(a, b) ==
    IF b = 0 THEN 0
    ELSE (IF (a < 0) = (b < 0) THEN 1 ELSE -1) * (Magnitude(a) \div Magnitude(b))
Binary(code, a, b) == CASE code = 34 -> a + b [] code = 28 -> a - b [] code = 27 -> Quotient(a, b)

IsReg(c) == c \in 80..111
IsAddrx(c) == c = 161
IsBreg(c) == c \in 144..175 /\ ~IsAddrx(c)
IsLit(c) == c \in 48..79

Evaluates(e, o) ==
    CASE e.failed -> e
      [] ~e.failed /\ IsReg(o.code) -> [e EXCEPT !.register = o.code - 80]
      [] ~e.failed /\ IsAddrx(o.code) -> Push(e, o.arg)
      [] ~e.failed /\ IsBreg(o.code) ->
            IF o.code - 144 \in DOMAIN e.regs THEN Push(e, e.regs[o.code - 144] + o.arg) ELSE GivesUp(e)
      [] ~e.failed /\ IsLit(o.code) -> Push(e, o.code - 48)
      [] ~e.failed /\ o.code \in {3, 33} -> Push(e, o.arg)
      [] ~e.failed /\ o.code = 35 ->
            IF e.stack = <<>> THEN GivesUp(e) ELSE Push(Pop(e, 1), Nth(e, 1) + o.arg)
      [] ~e.failed /\ o.code \in {27, 28, 34} ->
            IF Len(e.stack) < 2 THEN GivesUp(e) ELSE Push(Pop(e, 2), Binary(o.code, Nth(e, 2), Nth(e, 1)))
      [] OTHER -> GivesUp(e)    \* DW_OP_deref too: what it may read was never fetched

\* evalContext(): the frame's registers; PC stays that of the first frame.
Registers(frame) == (7 :> frame.bc) @@ (10 :> frame.sp) @@ (11 :> ip)
Result(code, frame) ==
    FoldLeft(Evaluates, [stack |-> <<>>, register |-> Absent, failed |-> FALSE, regs |-> Registers(frame)], code)

\* ValueReader.evaluate(): a constant, a register of the frame, or memory.
ValueOf(v, frame) ==
    LET d == Dies[v]
        e == Result(IF d.location.kind = "list" THEN LocationAt(LocationList(d.location.list), frame.pc)
                       ELSE d.location.code, frame)
    IN  CASE d.constant # Absent -> d.constant
          [] d.constant = Absent /\ e.failed -> Absent
          [] d.constant = Absent /\ ~e.failed /\ e.register # Absent ->
                IF e.register \in DOMAIN e.regs THEN e.regs[e.register] ELSE Absent
          [] OTHER -> IF e.stack # <<>> /\ Last(e.stack) \in Words THEN mem[Last(e.stack)] ELSE Absent
\* A variable of an inlined function has the name of its abstract origin.
NameOf(v) == IF Dies[v].name = "" /\ Dies[v].origin # 0 THEN Dies[Dies[v].origin].name ELSE Dies[v].name
----------------------------------------------------------------------------
(***************************************************************************)
(* The frames that are shown for one that was unwound.                       *)
(***************************************************************************)
RowsAt(pc) == IF pc \in DOMAIN programme.rows THEN programme.rows[pc] ELSE <<>>

\* resolveInlineFrameNames(): innermost first, the rows of an address from their end.
InlineFrames(pc) ==
    LET chain == InlineChainAt(pc)
        rows == RowsAt(pc)
        Line(k) == IF k <= Len(rows) THEN rows[Len(rows) + 1 - k] ELSE IF rows = <<>> THEN Absent ELSE rows[1]
        frames == [k \in DOMAIN chain |->
                     [name |-> IF Dies[chain[k]].origin = 0 THEN "" ELSE Dies[Dies[chain[k]].origin].name,
                      line |-> Line(k)]]
    IN  SelectSeq(frames, LAMBDA f : f.name # "")

\* resolveFrameDisplayPc(): a caller waits at the statement before its return
\* address, if that is in the same function.
DisplayPc(k, pc) ==
    LET before == IF SubprogramAt(pc) = 0 THEN {}
                  ELSE {a \in DOMAIN programme.rows : a < pc /\ a \in RangesOf(SubprogramAt(pc))}
    IN  IF k = 1 \/ before = {} THEN pc ELSE Max(before)

FrameName(pc) == IF PhysicalSubprogramAt(pc) = 0 THEN "" ELSE Dies[PhysicalSubprogramAt(pc)].name
----------------------------------------------------------------------------
\* The call that frame k makes, or waits for the return of, is within the statement
\* shown for it.
ShowsItsStatement(k) ==
    LET place == Places[k]
    IN  DisplayPc(k, TrueFrames[k].pc) =
            IF k = 1 THEN ip ELSE Max({a \in DOMAIN programme.rows : a <= place})

\* What the source means a variable of frame k to hold.
Meant(m, k) == CASE m.value = "entry" -> calls[k].bc
                 [] m.value = "now" -> TrueFrames[k].bc
                 [] m.value = "constant" -> m.constant

\* Each frame shows its functions, its statement and its variables.
FramesShowTheirs ==
    LET frames == Unwinding IN
    \A k \in DOMAIN frames :
        LET frame == frames[k] IN
        /\ Append(InlineFrames(frame.pc), [name |-> FrameName(frame.pc), line |-> Absent])
               = programme.functions[frame.pc]
        /\ ShowsItsStatement(k)
        /\ {<<NameOf(v), ValueOf(v, frame)>> : v \in ShownAt(frame.pc)}
               = {<<m.name, Meant(m, k)>> : m \in {x \in programme.means : frame.pc \in x.pcs}}
=============================================================================
