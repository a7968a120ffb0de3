------------------------------ MODULE CallStacks ------------------------------
(***************************************************************************)
(* The two ways to a call stack: DwarfCfi and DebugStopContext.unwind(), from *)
(* registers, memory and the rows of .debug_frame; and AsmFunctionIndex with   *)
(* reconstructFunctionChain(), from the emulator's execution history.         *)
(*                                                                         *)
(* A machine executes a program and keeps the calls that are under way as a    *)
(* history variable; stack, offsets and memory are counted in words.          *)
(***************************************************************************)
EXTENDS Integers, Sequences, SequencesExt, FiniteSetsExt

CONSTANTS Programmes,   \* code, frame descriptions and regions
          MaxFrames,    \* limit of an unwinding
          MaxRaw,       \* limit of a reconstruction
          Top,          \* bound: the stack grows down from here
          MaxSteps      \* bound: instructions executed

Absent == -1            \* undefined
Words == 0..Top - 1

ASSUME CallStacksAssumption ==
    /\ Top \in Nat \ {0} /\ MaxSteps \in Nat /\ MaxFrames \in Nat \ {0} /\ MaxRaw \in Nat \ {0}
    /\ \A p \in Programmes : \A a \in DOMAIN p.code :
          p.code[a].op \in {"call", "ret", "push", "pop", "load", "jump", "maybe"}

VARIABLES
    programme,
    ip, sp, bc,     \* registers
    mem,            \* the stack
    executed,       \* the emulator's history of executed addresses, newest first
    calls           \* history: calls under way, newest first

callVars == <<programme, ip, sp, bc, mem, executed, calls>>

CallStacksTypeOK ==
    /\ programme \in Programmes /\ ip \in DOMAIN programme.code /\ sp \in 0..Top
    /\ DOMAIN mem = Words /\ Len(executed) <= MaxSteps
----------------------------------------------------------------------------
(***************************************************************************)
(* The rows of a frame description.                                         *)
(***************************************************************************)
Rule(kind, arg) == [kind |-> kind, arg |-> arg]
Unruled == Rule("none", 0)
\* The common entry: the return address is the word below the frame's address.
InitialRow(pc) == [pc |-> pc, base |-> "SP", offset |-> 1,
                   PC |-> Rule("offset", -1), BC |-> Unruled]

\* readInstructions(): the row that is being made, the rows that are made, and
\* whether the last of these is the same object, so that it changes with it.
Reading(pc) == [row |-> InitialRow(pc), rows |-> <<>>, first |-> FALSE, same |-> FALSE, saved |-> <<>>]
Sets(s, row) == [s EXCEPT !.row = row,
                          !.rows = IF s.same THEN [@ EXCEPT ![Len(@)] = row] ELSE @]
Pushes(s, row) == [s EXCEPT !.row = row, !.rows = Append(@, row), !.same = TRUE]
First(s) == IF s.first THEN s
            ELSE [s EXCEPT !.rows = Append(@, s.row), !.first = TRUE, !.same = FALSE]
Advances(s, delta) ==
    IF delta = 0 THEN First(s) ELSE Pushes(First(s), [s.row EXCEPT !.pc = @ + delta])

Interprets(s, i) ==
    CASE i.op = "advance" -> Advances(s, i.arg)
      [] i.op = "set_loc" -> Pushes(s, [s.row EXCEPT !.pc = i.arg])
      [] i.op = "def_cfa_offset" -> Sets(s, [s.row EXCEPT !.offset = i.arg])
      [] i.op = "def_cfa_register" -> Sets(s, [s.row EXCEPT !.base = i.reg])
      [] i.op = "def_cfa" -> Sets(s, [s.row EXCEPT !.base = i.reg, !.offset = i.arg])
      [] i.op \in {"undefined", "same_value", "offset", "register"} ->
            Sets(s, [s.row EXCEPT ![i.reg] = Rule(i.op, i.arg)])
      [] i.op = "restore" -> Sets(s, [s.row EXCEPT ![i.reg] = Unruled])
      [] i.op = "remember_state" -> [s EXCEPT !.saved = <<s.row>> \o @]
      [] i.op = "restore_state" ->
            IF s.saved = <<>> THEN s
            ELSE [s EXCEPT !.row = [Head(s.saved) EXCEPT !.pc = s.row.pc],
                           !.saved = Tail(@), !.same = FALSE]

RowsOf(fde) ==
    LET s == FoldLeft(Interprets, Reading(fde.start), fde.cfi)
    IN  IF s.rows = <<>> THEN <<[s.row EXCEPT !.pc = fde.start]>> ELSE s.rows

\* The last row before the first of some later ones.
RowBefore(rows, later) ==
    rows[IF later = {} THEN Len(rows) ELSE IF 1 \in later THEN 1 ELSE Min(later) - 1]
\* Mutant: a row is active only behind its address.
RowAfter(rows, pc) == RowBefore(rows, {i \in DOMAIN rows : rows[i].pc >= pc})
\* rowAt(): the last row before the first that begins behind the address.
RowOf(rows, pc) == RowBefore(rows, {i \in DOMAIN rows : rows[i].pc > pc})
----------------------------------------------------------------------------
(***************************************************************************)
(* unwind().                                                                *)
(***************************************************************************)
Described(pc) == {i \in DOMAIN programme.fdes : programme.fdes[i].start <= pc /\ pc < programme.fdes[i].end}

\* recoverRegister()
Recovered(rule, register, regs, cfa) ==
    CASE rule.kind \in {"none", "undefined"} -> Absent
      [] rule.kind = "same_value" -> regs[register]
      [] rule.kind = "register" -> regs[rule.arg]
      [] rule.kind = "offset" -> IF cfa + rule.arg \in Words THEN mem[cfa + rule.arg] ELSE Absent

\* The caller's place and registers, if it is verified.
ToCaller(u, cfa, ret, saved) ==
    IF cfa > Top \/ cfa <= u.regs.SP \/ ret = Absent THEN [u EXCEPT !.on = FALSE]
    ELSE [u EXCEPT !.pc = ret, !.regs.SP = cfa, !.regs.BC = IF saved = Absent THEN @ ELSE saved]
ByAddress(u, row, cfa) ==
    ToCaller(u, cfa, Recovered(row.PC, "PC", u.regs, cfa), Recovered(row.BC, "BC", u.regs, cfa))
ByRow(u, row) == ByAddress(u, row, u.regs[row.base] + row.offset)

\* One frame more, as long as its caller is verified.
UnwindOne(u, i) ==
    IF ~u.on \/ \E f \in ToSet(u.frames) : f.pc = u.pc THEN [u EXCEPT !.on = FALSE]
    ELSE LET with == [u EXCEPT !.frames = Append(@, [pc |-> u.pc, sp |-> u.regs.SP, bc |-> u.regs.BC])]
         IN  IF Described(u.pc) = {} THEN [with EXCEPT !.on = FALSE]
             ELSE ByRow(with, RowOf(RowsOf(programme.fdes[Min(Described(u.pc))]), u.pc))

Unwinding ==
    FoldLeft(UnwindOne,
             [frames |-> <<>>, pc |-> ip, regs |-> [SP |-> sp, BC |-> bc, PC |-> ip], on |-> TRUE],
             [i \in 1..MaxFrames |-> i]).frames
----------------------------------------------------------------------------
(***************************************************************************)
(* reconstructFunctionChain().                                              *)
(***************************************************************************)
\* AsmFunctionIndex.at(): the largest region, 0 for none.
RegionsAt(pc) == {i \in DOMAIN programme.regions :
                    programme.regions[i].start <= pc /\ pc < programme.regions[i].end}
SizeOf(i) == programme.regions[i].end - programme.regions[i].start
RegionAt(pc) ==
    IF RegionsAt(pc) = {} THEN 0
    ELSE CHOOSE i \in RegionsAt(pc) : \A j \in RegionsAt(pc) : SizeOf(j) < SizeOf(i) \/ (SizeOf(j) = SizeOf(i) /\ i <= j)

\* DEBUG_HISTORY_CALLER: what entered the region last before a position; the
\* emulator's answer.
Outside(region, cursor) ==
    {k \in DOMAIN executed : k > cursor /\ executed[k] \notin programme.regions[region].start..programme.regions[region].end - 1}
Entered(region, cursor) ==
    LET k == Min(Outside(region, cursor))
    IN  [cursor |-> k, from |-> executed[k], to |-> IF k = 1 THEN ip ELSE executed[k - 1]]

\* The regions the history goes back through.
Collects(c, i) ==
    IF ~c.on THEN c
    ELSE IF Outside(c.region, c.cursor) = {}
    THEN [c EXCEPT !.on = FALSE, !.raw = Append(@, [region |-> c.region, pc |-> c.pc, entry |-> Absent])]
    ELSE LET e == Entered(c.region, c.cursor)
             raw == Append(c.raw, [region |-> c.region, pc |-> c.pc,
                        entry |-> IF e.to \in programme.regions[c.region].entries THEN e.to ELSE Absent])
             next == RegionAt(e.from)
         IN  [raw |-> IF next = 0 THEN Append(raw, [region |-> 0, pc |-> e.from, entry |-> Absent]) ELSE raw,
              region |-> next, pc |-> e.from, cursor |-> e.cursor, on |-> next # 0]

Visits == FoldLeft(Collects, [raw |-> <<>>, region |-> RegionAt(ip), pc |-> ip, cursor |-> 0,
                                 on |-> RegionAt(ip) # 0],
                      [i \in 1..MaxRaw |-> i])

\* A region that was left and entered again: the excursion goes, with the older
\* visit and the newer place.
Erases(chain, frame) ==
    LET again == {k \in DOMAIN chain : frame.region # 0 /\ chain[k].region = frame.region}
    IN  IF again = {} THEN Append(chain, frame)
        ELSE Append(SubSeq(chain, 1, Min(again) - 1), [frame EXCEPT !.pc = chain[Min(again)].pc])

Chain == FoldLeft(Erases, <<>>, Visits.raw)
----------------------------------------------------------------------------
(***************************************************************************)
(* The machine.                                                             *)
(***************************************************************************)
CallsInit ==
    /\ programme \in Programmes /\ ip = 1 /\ sp = Top /\ bc = 0
    /\ mem = [a \in Words |-> 0] /\ executed = <<>> /\ calls = <<>>

Pushed(value) == sp > 0 /\ sp' = sp - 1 /\ mem' = [mem EXCEPT ![sp - 1] = value]

Instruction ==
    LET i == programme.code[ip] IN
    /\ Len(executed) < MaxSteps /\ executed' = <<ip>> \o executed
    /\ \/ /\ i.op = "call" /\ Pushed(ip + 1) /\ ip' = i.to
          /\ calls' = <<[site |-> ip, ret |-> ip + 1, sp |-> sp, bc |-> bc, entry |-> i.to]>> \o calls
          /\ UNCHANGED bc
       \/ /\ i.op = "ret" /\ ip' = mem[sp] /\ sp' = sp + 1 /\ calls' = Tail(calls)
          /\ UNCHANGED <<bc, mem>>
       \/ i.op = "push" /\ Pushed(bc) /\ ip' = ip + 1 /\ UNCHANGED <<bc, calls>>
       \/ i.op = "pop" /\ bc' = mem[sp] /\ sp' = sp + 1 /\ ip' = ip + 1 /\ UNCHANGED <<mem, calls>>
       \/ i.op = "load" /\ bc' = ip /\ ip' = ip + 1 /\ UNCHANGED <<sp, mem, calls>>
       \/ i.op = "jump" /\ ip' = i.to /\ UNCHANGED <<sp, bc, mem, calls>>
       \/ i.op = "maybe" /\ ip' \in {ip + 1, i.to} /\ UNCHANGED <<sp, bc, mem, calls>>
    /\ UNCHANGED programme
----------------------------------------------------------------------------
TrueFrames == [k \in 1..Len(calls) + 1 |->
                 IF k = 1 THEN [pc |-> ip, sp |-> sp, bc |-> bc]
                 ELSE [pc |-> calls[k - 1].ret, sp |-> calls[k - 1].sp, bc |-> calls[k - 1].bc]]
Places == <<ip>> \o [k \in DOMAIN calls |-> calls[k].site]
Distinct(s) == \A i, j \in DOMAIN s : s[i] = s[j] => i = j

\* Unwinding may end early (a place that repeats, or the limit), never wrongly.
UnwoundIsCalled ==
    LET upto == IF Len(TrueFrames) > MaxFrames THEN MaxFrames ELSE Len(TrueFrames)
    IN  /\ IsPrefix(Unwinding, TrueFrames)
        /\ Distinct([k \in 1..upto |-> TrueFrames[k].pc]) => Len(Unwinding) = upto

\* The history gives the functions that were entered and not yet left, each with
\* the place it called from and the entry it was called at, if none is twice there.
ChainIsCalled ==
    Distinct([k \in DOMAIN Places |-> RegionAt(Places[k])]) /\ RegionAt(ip) # 0 =>
        /\ [k \in DOMAIN Chain |-> Chain[k].pc] = Places
        /\ \A k \in DOMAIN calls : Chain[k].entry = calls[k].entry
=============================================================================
