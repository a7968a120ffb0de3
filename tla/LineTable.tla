------------------------------- MODULE LineTable -------------------------------
(***************************************************************************)
(* From the line programs of an artifact to breakpoints and back: the reader   *)
(* of .debug_line (parseOneLineProgram), the debug index built from its rows    *)
(* (buildDebugIndex) and the match of an editor's path with the paths of the    *)
(* artifact (resolveIndexedFile, matchByTrailingSegments).                   *)
(*                                                                         *)
(* The source rows grow one by one; the assembler encodes them as the format    *)
(* demands, and what the debugger makes of the program is compared with them.   *)
(***************************************************************************)
EXTENDS Integers, Sequences, SequencesExt, FiniteSets, FiniteSetsExt

CONSTANTS LineBase, LineRange, OpcodeBase,  \* of the header; instructions are one byte
          AddressSteps, LineSteps,          \* distances of two rows
          FirstLine,
          MaxRows,                          \* bound: rows of a program
          Paths,                            \* paths of sources, from their root
          MaxPaths                          \* bound: sources of an artifact

Files == 1..2
\* A source in a copy of the tree, which is none of the sources, nor the end of one.
Edited(p) == <<"edited">> \o p
ASSUME LineTableAssumption ==
    /\ LineBase \in Int /\ LineRange \in Nat \ {0} /\ OpcodeBase \in 1..255
    /\ AddressSteps \subseteq Nat /\ LineSteps \subseteq Int /\ FirstLine \in Int
    /\ MaxRows \in Nat /\ MaxPaths \in Nat
    /\ Paths \subseteq Seq(STRING) /\ \A p, q \in Paths : ~IsSuffix(Edited(q), p)

VARIABLES
    source,     \* the rows the assembler writes: [address, file, line, stmt, last]
    indexed,    \* the sources of an artifact
    rooted      \* their paths are absolute

lineVars == <<source, indexed, rooted>>

LineTypeOK ==
    /\ Len(source) <= MaxRows /\ \A i \in DOMAIN source : source[i].file \in Files
    /\ indexed \subseteq Paths /\ rooted \in BOOLEAN
----------------------------------------------------------------------------
(***************************************************************************)
(* The line program and its reader.                                         *)
(***************************************************************************)
Op(name, arg) == [op |-> name, arg |-> arg]
Begins == [address |-> 0, file |-> 1, line |-> 1, stmt |-> TRUE]

\* const_add_pc: the address part of the special opcode 255.
ConstAdd == (255 - OpcodeBase) \div LineRange

\* A row in the shortest encoding; the end of a sequence is a row of its own.
SpecialFor(da, dl) == (dl - LineBase) + LineRange * da + OpcodeBase
Fits(da, dl) == da >= 0 /\ dl - LineBase \in 0..LineRange - 1 /\ SpecialFor(da, dl) <= 255
Writes(from, row) ==
    LET da == row.address - from.address
        dl == row.line - from.line
    IN  (IF row.file # from.file THEN <<Op("set_file", row.file)>> ELSE <<>>)
        \o (IF row.stmt # from.stmt THEN <<Op("negate_stmt", 0)>> ELSE <<>>)
        \o (CASE row.last -> <<Op("advance_pc", da), Op("advance_line", dl), Op("end_sequence", 0)>>
              [] ~row.last /\ Fits(da, dl) -> <<Op("special", SpecialFor(da, dl))>>
              [] ~row.last /\ ~Fits(da, dl) /\ Fits(da - ConstAdd, dl) ->
                    <<Op("const_add_pc", 0), Op("special", SpecialFor(da - ConstAdd, dl))>>
              [] OTHER -> <<Op("advance_pc", da), Op("advance_line", dl), Op("copy", 0)>>)
\* A sequence begins at an address of its own, here behind the one before.
Opens(rows, i) == i = 1 \/ rows[i - 1].last
Before(rows, i) ==
    CASE i = 1 -> Begins
      [] i > 1 /\ rows[i - 1].last -> [Begins EXCEPT !.address = rows[i - 1].address]
      [] OTHER -> rows[i - 1]
Program(rows) ==
    FlattenSeq([i \in DOMAIN rows |->
        (IF Opens(rows, i) THEN <<Op("set_address", Before(rows, i).address)>> ELSE <<>>)
        \o Writes(Before(rows, i), rows[i])])

\* The state machine of the reader; a row is emitted by copy, by a special opcode
\* and by the end of a sequence.
Emits(s) == [s EXCEPT !.rows = Append(@, [address |-> s.address, file |-> s.file, line |-> s.line, stmt |-> s.stmt])]
\* Mutant: the line part of a special opcode is counted from zero.
SpecialFromZero(s, opcode) ==
    Emits([s EXCEPT !.address = @ + (opcode - OpcodeBase) \div LineRange,
                    !.line = @ + ((opcode - OpcodeBase) % LineRange)])
Special(s, opcode) ==
    Emits([s EXCEPT !.address = @ + (opcode - OpcodeBase) \div LineRange,
                    !.line = @ + LineBase + ((opcode - OpcodeBase) % LineRange)])
Reads(s, o) ==
    CASE o.op = "special" -> Special(s, o.arg)
      [] o.op = "copy" -> Emits(s)
      [] o.op = "advance_pc" -> [s EXCEPT !.address = @ + o.arg]
      [] o.op = "advance_line" -> [s EXCEPT !.line = @ + o.arg]
      [] o.op = "set_file" -> [s EXCEPT !.file = o.arg]
      [] o.op = "negate_stmt" -> [s EXCEPT !.stmt = ~@]
      [] o.op = "const_add_pc" -> [s EXCEPT !.address = @ + ConstAdd]
      [] o.op = "set_address" -> [s EXCEPT !.address = o.arg]
      [] o.op = "end_sequence" ->
            [Emits(s) EXCEPT !.address = 0, !.file = 1, !.line = 1, !.stmt = TRUE]
Rows(program) ==
    FoldLeft(Reads, [rows |-> <<>>, address |-> 0, file |-> 1, line |-> 1, stmt |-> TRUE], program).rows
----------------------------------------------------------------------------
(***************************************************************************)
(* The debug index.                                                         *)
(***************************************************************************)
Statements(rows) == {i \in DOMAIN rows : rows[i].stmt}

\* byAddress: the first row of an address, but a statement before others.
ResolveAddress(rows, address) ==
    LET there == {i \in DOMAIN rows : rows[i].address = address}
        first == there \cap Statements(rows)
    IN  rows[Min(IF first # {} THEN first ELSE there)]

\* bySource, then fileLines: sorted by line, in the order of emission within one.
ResolveBreakpoint(rows, file, line) ==
    LET inFile == {i \in Statements(rows) : rows[i].file = file}
        from == {rows[i].line : i \in {j \in inFile : rows[j].line >= line}}
    IN  IF from = {} THEN <<>>
        ELSE LET at == {i \in inFile : rows[i].line = Min(from)}
             IN  <<[address |-> rows[Min(at)].address, line |-> Min(from)]>>

\* The statement before a return address, within the function's ranges.
PrecedingStatement(rows, address, from) ==
    LET before == {i \in Statements(rows) : from <= rows[i].address /\ rows[i].address < address}
    IN  IF before = {} THEN <<>> ELSE <<Max({rows[i].address : i \in before})>>
----------------------------------------------------------------------------
(***************************************************************************)
(* Paths.                                                                   *)
(***************************************************************************)
Trailing(s, t) == Max({n \in 0..Min({Len(s), Len(t)}) :
                         SubSeq(s, Len(s) - n + 1, Len(s)) = SubSeq(t, Len(t) - n + 1, Len(t))})

ByTrailingSegments(file, candidates) ==
    LET best == Max({Trailing(file, c) : c \in candidates} \cup {0})
        top == {c \in candidates : Trailing(file, c) = best}
    IN  IF best > 0 /\ Cardinality(top) = 1 THEN top ELSE {}

\* The same path; or the only one that the file ends with, where paths are not
\* absolute; or the only one with the longest common end.
ResolveFile(file, candidates) ==
    LET ends == IF rooted THEN {} ELSE {c \in candidates : IsSuffix(c, file)}
    IN  CASE file \in candidates -> {file}
          [] file \notin candidates /\ Cardinality(ends) = 1 -> ends
          [] file \notin candidates /\ Cardinality(ends) > 1 -> {}
          [] OTHER -> ByTrailingSegments(file, candidates)

Artifact == IF rooted THEN {<<"built">> \o p : p \in indexed} ELSE indexed
----------------------------------------------------------------------------
LineInit == source = <<>> /\ indexed = {} /\ rooted \in BOOLEAN

\* A row more; the first of a sequence is at the first line.
WriteRow ==
    /\ indexed = {} /\ rooted /\ Len(source) < MaxRows
    /\ LET from == Before(source, Len(source) + 1)
           opens == Opens(source, Len(source) + 1)
       IN \E da \in AddressSteps, dl \in LineSteps, file \in Files, last \in BOOLEAN :
          /\ last => ~opens /\ da > 0 /\ dl = 0 /\ file = from.file
          /\ \E stmt \in IF last \/ file # from.file THEN {from.stmt} ELSE BOOLEAN :
             source' = Append(source,
                [address |-> from.address + da, file |-> file,
                 line |-> IF opens THEN FirstLine + Len(source) ELSE from.line + dl,
                 stmt |-> stmt, last |-> last])
    /\ UNCHANGED <<indexed, rooted>>

AddSource ==
    /\ source = <<>> /\ Cardinality(indexed) < MaxPaths
    /\ \E p \in Paths \ indexed : indexed' = indexed \cup {p}
    /\ UNCHANGED <<source, rooted>>

LineNext == WriteRow \/ AddSource
LineSpec == LineInit /\ [][LineNext]_lineVars
----------------------------------------------------------------------------
Written == [i \in DOMAIN source |-> [address |-> source[i].address, file |-> source[i].file,
                                     line |-> source[i].line, stmt |-> source[i].stmt]]
Asked == UNION {{r.line - 1, r.line, r.line + 1} : r \in ToSet(source)}

\* A breakpoint is on a statement of its file, on its line or the next that has one,
IsOnStatement(b, file, line) ==
    LET lines == {s.line : s \in {x \in ToSet(Written) : x.stmt /\ x.file = file /\ x.line >= line}}
    IN  IF lines = {} THEN b = <<>>
        ELSE /\ b # <<>> /\ b[1].line = Min(lines)
             /\ \E s \in ToSet(Written) : /\ s.stmt /\ s.file = file
                                        /\ s.line = b[1].line /\ s.address = b[1].address
\* and where it stops, its line is shown, if only one statement is there.
IsShown(rows, b, file) ==
    b # <<>> /\ Cardinality({i \in DOMAIN rows : rows[i].stmt /\ rows[i].address = b[1].address}) = 1
        => /\ ResolveAddress(rows, b[1].address).line = b[1].line
           /\ ResolveAddress(rows, b[1].address).file = file

\* A caller is shown at the statement before its return address.
IsBefore(rows, address) ==
    LET before == PrecedingStatement(rows, address, 1)
    IN  before # <<>> => before[1] < address /\ ResolveAddress(rows, before[1]).stmt

\* What the reader gives back is what was written, and resolves both ways.
ProgramResolves ==
    LET rows == Rows(Program(source)) IN
    /\ rows = Written
    /\ \A file \in Files, line \in Asked :
          LET b == ResolveBreakpoint(rows, file, line)
          IN  IsOnStatement(b, file, line) /\ IsShown(rows, b, file)
    /\ \A r \in ToSet(rows) : IsBefore(rows, r.address)

\* A file of the artifact, opened from a copy elsewhere, is that file or none.
NeverAnotherFile == \A p \in indexed : ResolveFile(Edited(p), Artifact) \subseteq {p, <<"built">> \o p}

(* A breakpoint set in the editor is placed on a statement of the file and line *)
(* it was set on, or the next with code, and is shown there when it is hit:      *)
(* through special opcodes, constant advances, file changes, rows that are no    *)
(* statements, several sequences, and copies of the sources.                  *)
SourcesResolve ==
    LineTypeOK /\ ProgramResolves /\ NeverAnotherFile
=============================================================================
