------------------------------ MODULE MCDebugger ------------------------------
(***************************************************************************)
(* The debug adapter's parts on small programs: a behaviour is about one of   *)
(* them, stepping, what is shown of a stop, call stacks, or source lines.     *)
(***************************************************************************)
EXTENDS Stepping, Inspection, Variables, LineTable, TLC

CONSTANT Parts
VARIABLE part

vars == <<part, steppingVars, inspectionVars, callVars, lineVars>>

\* The parts that a behaviour is not about have one initial state.
Init ==
    /\ part \in Parts
    /\ SteppingInit /\ (part # "stepping" => ~records /\ prog = CHOOSE p \in Programs : TRUE)
    /\ InspectionInit /\ (part # "inspection" => ~traced)
    /\ CallsInit /\ (part # "calls" => programme = CHOOSE p \in Programmes : TRUE)
    /\ LineInit /\ (part # "lines" => ~rooted)

Next ==
    /\ UNCHANGED part
    /\ \/ part = "stepping" /\ SteppingNext /\ UNCHANGED <<inspectionVars, callVars, lineVars>>
       \/ part = "inspection" /\ InspectionNext /\ UNCHANGED <<steppingVars, callVars, lineVars>>
       \/ part = "calls" /\ Instruction /\ UNCHANGED <<steppingVars, inspectionVars, lineVars>>
       \/ part = "lines" /\ LineNext /\ UNCHANGED <<steppingVars, inspectionVars, callVars>>

Spec == Init /\ [][Next]_vars /\ SteppingFairness

(* A call stack shows callers and no others, with what is theirs: at every      *)
(* instruction, prologues, epilogues and returns included, unwinding by frame   *)
(* descriptions and reconstruction by history yield the calls under way, and    *)
(* each frame shows its functions, the statement it waits at, and variables     *)
(* with the values they have in this call and no other.                        *)
StacksAreCalls ==
    part = "calls" => CallStacksTypeOK /\ UnwoundIsCalled /\ ChainIsCalled /\ FramesShowTheirs
----------------------------------------------------------------------------
\* Programs of four addresses: a call (the second address has no row), a branch
\* with a breakpoint of the user, a function that is inlined, a caller.
Row(l, d) == [loc |-> l, depth |-> d]
Line == (1 :> {2}) @@ (2 :> {3}) @@ (3 :> {4}) @@ (4 :> {1})
Branching == (1 :> {2, 4}) @@ (2 :> {3}) @@ (3 :> {4}) @@ (4 :> {1})
After == (1 :> 2) @@ (2 :> 3) @@ (3 :> 4) @@ (4 :> 1)
Make(rows, succ, user, skip, back) ==
    [row |-> rows, succ |-> succ, user |-> user, skip |-> skip, back |-> back, after |-> After]
Straight == (1 :> Row(1, 0)) @@ (2 :> None) @@ (3 :> Row(2, 0)) @@ (4 :> Row(3, 0))
Inlined == (1 :> Row(1, 0)) @@ (2 :> Row(2, 1)) @@ (3 :> Row(2, 1)) @@ (4 :> Row(3, 0))
MCPrograms == {
    Make(Straight, Line, {}, {2}, None),
    Make(Straight, Branching, {4}, {}, 3),
    Make(Inlined, Branching, {}, {}, None),
    Make(Inlined, Line, {3}, {}, 4)}
\* A statement, one that is inlined, and the next.
MCInlined == {Make(Inlined, Line, {}, {}, None)}
\* Machine programs for call stacks: nested calls with a region of its own within a
\* function, and a function that calls itself; frame descriptions of each.
I(what) == [op |-> what, to |-> 0]
To(what, a) == [op |-> what, to |-> a]
Cfi(what, arg) == [op |-> what, arg |-> arg, reg |-> "SP"]
Of(what, register, arg) == [op |-> what, arg |-> arg, reg |-> register]
Region(start, end) == [start |-> start, end |-> end, entries |-> {start}]
Main == <<To("call", 5), I("load"), To("call", 5), To("jump", 1)>>
MainFde == [start |-> 1, end |-> 5, cfi |-> <<Of("undefined", "PC", 0)>>]
\* BC is pushed at 5 and popped before the last instruction.
SavedFde(last) == [start |-> 5, end |-> last + 1,
  cfi |-> <<Cfi("advance", 1), Cfi("def_cfa_offset", 2), Of("offset", "BC", -2),
            Cfi("advance", last - 6), Cfi("def_cfa_offset", 1), Of("restore", "BC", 0)>>]
LeafFde == [start |-> 10, end |-> 15,
  cfi |-> <<Cfi("advance", 2), Of("def_cfa", "SP", 2), Of("offset", "BC", -2),
            Cfi("set_loc", 14), Cfi("def_cfa_offset", 1), Of("same_value", "BC", 0)>>]
\* Debug entries: ranges, expressions (by number: 87 and 90 are BC and SP, 154 an
\* offset from SP) and what the variables mean.
NoRanges == [kind |-> "none"]
To4 == [kind |-> "length", low |-> 1, high |-> 4]
Until(low, high) == [kind |-> "address", low |-> low, high |-> high]
Listed(list) == [kind |-> "list", list |-> list]
Entry(kind, from, to) == [kind |-> kind, from |-> from, to |-> to]
End == Entry("end_of_list", 0, 0)
Scope(tag, parent, name, ranges, origin) ==
    [tag |-> tag, parent |-> parent, name |-> name, ranges |-> ranges, origin |-> origin]
Loc(kind, from, to, code) == [kind |-> kind, from |-> from, to |-> to, code |-> code]
O(code, arg) == <<[code |-> code, arg |-> arg]>>
Var(tag, parent, name, origin, location, constant) ==
    [tag |-> tag, parent |-> parent, name |-> name, origin |-> origin, location |-> location, constant |-> constant]
Where(list) == [kind |-> "list", list |-> list]
Is(code) == [kind |-> "expression", code |-> code]
InBC == O(87, 0)
Means(name, pcs, value) == [name |-> name, pcs |-> pcs, value |-> value, constant |-> 42]
In(names, lines) == [k \in DOMAIN names |-> [name |-> names[k], line |-> lines[k]]]
NoLine == -1
\* The parameter is pushed behind the first instruction of its function.
Saved(first, last) ==
    Where(<<Loc("start_end", first, first + 1, InBC), Loc("base_addressx", first, 0, <<>>),
            Loc("offset_pair", 1, last - first, O(154, 0)), Loc("default_location", 0, 0, InBC),
            Loc("end_of_list", 0, 0, <<>>)>>)
Nested == [
  code |-> Main \o <<I("push"), I("load"), To("call", 10), I("pop"), I("ret"),
                     To("maybe", 14), I("push"), I("load"), I("pop"), I("ret")>>,
  fdes |-> <<MainFde, SavedFde(9), LeafFde>>,
  regions |-> <<Region(5, 10), Region(6, 8), Region(10, 15)>>,
  dies |-> <<
    Scope("compile_unit", 0, "", Until(1, 15), 0),
    Scope("subprogram", 1, "main", To4, 0),
    Scope("subprogram", 1, "work", Until(5, 10), 0),
    Var("formal_parameter", 3, "x", 0, Saved(5, 9), -1),
    Scope("lexical_block", 3, "", Listed(<<Entry("base_addressx", 5, 0), Entry("offset_pair", 2, 4), End,
                                          Entry("start_end", 5, 7)>>), 0),
    Var("variable", 5, "x", 0, Is(InBC), -1),
    Scope("subprogram", 1, "twice", NoRanges, 0),
    Var("formal_parameter", 7, "y", 0, Is(<<>>), -1),
    Scope("subprogram", 1, "leaf", Listed(<<Entry("startx_length", 10, 2), Entry("start_end", 12, 15), End>>), 0),
    Var("formal_parameter", 9, "x", 0,
        Where(<<Loc("startx_endx", 12, 14, O(154, -3) \o O(35, 3)), Loc("default_location", 0, 0, InBC)>>), -1),
    Scope("inlined_subroutine", 9, "", Until(12, 14), 7),
    Var("formal_parameter", 11, "", 8, Is(O(154, 0) \o O(51, 0) \o O(34, 0) \o O(33, 7) \o O(50, 0) \o O(27, 0) \o O(28, 0)), -1),
    Var("variable", 1, "g", 0, Is(<<>>), 42),
    Scope("subprogram", 1, "once", NoRanges, 0),
    Scope("inlined_subroutine", 11, "", Until(13, 14), 14)>>,
  rows |-> (1 :> <<1>>) @@ (3 :> <<2>>) @@ (4 :> <<3>>) @@ (5 :> <<10>>) @@ (7 :> <<11>>) @@ (8 :> <<12>>)
           @@ (10 :> <<20>>) @@ (12 :> <<21, 30>>) @@ (13 :> <<21, 31, 40>>) @@ (14 :> <<22>>),
  functions |-> [a \in 1..14 |->
      CASE a < 5 -> In(<<"main">>, <<NoLine>>)
        [] a \in 5..9 -> In(<<"work">>, <<NoLine>>)
        [] a \in {10, 11, 14} -> In(<<"leaf">>, <<NoLine>>)
        [] a = 12 -> In(<<"twice", "leaf">>, <<30, NoLine>>)
        [] a = 13 -> In(<<"once", "twice", "leaf">>, <<40, 31, NoLine>>)],
  means |-> {Means("x", {5, 6, 9} \cup 10..14, "entry"), Means("x", {7, 8}, "now"),
             Means("y", {12, 13}, "entry"), Means("g", 1..14, "constant")}]
\* The main program is a macro, with no function around it.
Recursive == [
  code |-> Main \o <<I("push"), I("load"), To("maybe", 9), To("call", 5), I("pop"), I("ret")>>,
  fdes |-> <<MainFde, SavedFde(10)>>,
  regions |-> <<Region(5, 11)>>,
  dies |-> <<
    Scope("compile_unit", 0, "", Until(1, 11), 0),
    Scope("subprogram", 1, "macro", NoRanges, 0),
    Scope("inlined_subroutine", 1, "", To4, 2),
    Scope("subprogram", 1, "again", Until(5, 11), 0),
    Var("formal_parameter", 4, "x", 0, Saved(5, 10), -1)>>,
  rows |-> (1 :> <<1>>) @@ (2 :> <<2>>) @@ (5 :> <<10>>) @@ (7 :> <<11>>) @@ (9 :> <<12>>),
  functions |-> [a \in 1..10 |->
      IF a < 5 THEN In(<<"macro", "">>, <<IF a < 3 THEN a ELSE NoLine, NoLine>>)
      ELSE In(<<"again">>, <<NoLine>>)],
  means |-> {Means("x", 5..10, "entry")}]
MCProgrammes == {Nested, Recursive}

\* Paths of sources whose names and directories repeat; distances of lines on both
\* sides of what a special opcode can express.
MCPaths == {<<"a">>, <<"b">>, <<"a", "a">>, <<"b", "a">>, <<"a", "b", "a">>, <<"b", "b">>}
MCLineSteps == {-6, 0, 1, 9}
MCLineBase == -5
=============================================================================
