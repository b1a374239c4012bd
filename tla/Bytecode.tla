------------------------------- MODULE Bytecode -------------------------------
(***************************************************************************)
(* The chunk that solas emits and solum runs: its code and side tables,    *)
(* the .sob file it is written to and read back from, and the verifier     *)
(* that every chunk passes before it is written and after it is read.      *)
(*                                                                         *)
(* Code is a sequence of cells: an instruction is its opcode and one cell  *)
(* for each operand, of whatever width.  Offsets count from 0.             *)
(***************************************************************************)
EXTENDS Integers, Sequences, FiniteSets, SequencesExt, Functions

CONSTANTS
  MaxNesting,  \* SOL_MAX_NESTING: how deep blocks nest in a file
  MaxU8        \* UINT8_MAX: slots of a frame

ASSUME BytecodeAssumption == MaxNesting \in Nat /\ MaxU8 \in Nat

-----------------------------------------------------------------------------
(* Instructions.                                                           *)

OP_CONST == 0          OP_NIL == 1            OP_GLOBAL == 2
OP_SET_GLOBAL == 3     OP_LOCAL == 4          OP_SET_LOCAL == 5
OP_OUTER == 6          OP_SET_OUTER == 7      OP_BLOCK == 8
OP_STRING == 9         OP_SYMBOL == 10        OP_SEND == 11
OP_SET_SLOT == 12      OP_JUMP == 13          OP_JUMP_IF_FALSE == 14
OP_EXIT_IF_FALSE == 15 OP_CHECK_BOOL == 16    OP_LOOP == 17
OP_POP == 18           OP_RETURN == 19        OP_HALT == 20

Branches == {OP_JUMP, OP_JUMP_IF_FALSE, OP_EXIT_IF_FALSE, OP_LOOP}
NamesText == {OP_GLOBAL, OP_SET_GLOBAL, OP_SEND, OP_SET_SLOT, OP_STRING, OP_SYMBOL, OP_CHECK_BOOL}

\* The cells of an instruction; 0 for what is not an opcode.
OpLength(op) ==
  CASE op \in {OP_NIL, OP_POP, OP_RETURN, OP_HALT} -> 1
    [] op \in {OP_OUTER, OP_SET_OUTER, OP_SEND, OP_JUMP_IF_FALSE} -> 3
    [] op \in 0 .. OP_HALT -> 2
    [] OTHER -> 0

-----------------------------------------------------------------------------
(* Chunks.                                                                 *)

Chunk ==
  [code |-> <<>>, lines |-> <<>>, names |-> <<>>, constants |-> <<>>, methods |-> <<>>,
   slots |-> 0, arity |-> 0]

\* Position of an entry in a side table, from 0, where it is added unless it is there.
Place(table, entry) == IF entry \in Range(table) THEN Min({i \in DOMAIN table : table[i] = entry}) - 1
                       ELSE Len(table)

Interned(table, entry) == IF entry \in Range(table) THEN table ELSE Append(table, entry)

\* Cells written for one line of the source.
Written(chunk, cells, line) ==
  [chunk EXCEPT !.code = @ \o cells, !.lines = @ \o [i \in DOMAIN cells |-> line]]

Cell(chunk, at) == chunk.code[at + 1]

\* Offsets of the instructions, walked from the first; the last of them may not
\* fit, or not be an opcode.
Boundaries(chunk) ==
  LET n == Len(chunk.code)
      walk[at \in 0 .. n] ==
        IF at = n THEN {}
        ELSE LET length == OpLength(Cell(chunk, at)) IN
             {at} \cup IF length = 0 \/ at + length > n THEN {} ELSE walk[at + length]
  IN walk[0]

-----------------------------------------------------------------------------
(* The verifier.                                                           *)

\* What an instruction takes from the stack, and how much higher it leaves it.
StackEffect(chunk, at) ==
  LET op == Cell(chunk, at) IN
  CASE op \in {OP_CONST, OP_NIL, OP_GLOBAL, OP_LOCAL, OP_OUTER, OP_BLOCK, OP_STRING, OP_SYMBOL} ->
         [needs |-> 0, delta |-> 1]
    [] op \in {OP_SET_GLOBAL, OP_SET_LOCAL, OP_SET_OUTER, OP_CHECK_BOOL} -> [needs |-> 1, delta |-> 0]
    [] op = OP_SET_SLOT -> [needs |-> 2, delta |-> -1]
    [] op = OP_SEND -> [needs |-> Cell(chunk, at + 2) + 1, delta |-> 0 - Cell(chunk, at + 2)]
    [] op \in {OP_JUMP_IF_FALSE, OP_EXIT_IF_FALSE, OP_POP, OP_RETURN} -> [needs |-> 1, delta |-> -1]
    [] OTHER -> [needs |-> 0, delta |-> 0]

\* Where a branch lands.
Target(chunk, at) ==
  LET past == at + OpLength(Cell(chunk, at)) IN
  IF Cell(chunk, at) = OP_LOOP THEN past - Cell(chunk, at + 1) ELSE past + Cell(chunk, at + 1)

\* Mutant of Successors: a conditional branch is followed only when it is not taken.
SuccessorsFallThrough(chunk, at) ==
  LET op == Cell(chunk, at) IN
  IF op \in {OP_JUMP, OP_LOOP} THEN {Target(chunk, at)}
  ELSE IF op \in {OP_HALT, OP_RETURN} THEN {} ELSE {at + OpLength(op)}

Successors(chunk, at) ==
  LET op == Cell(chunk, at) IN
  (IF op \in Branches THEN {Target(chunk, at)} ELSE {})
    \cup (IF op \in {OP_HALT, OP_RETURN, OP_JUMP, OP_LOOP} THEN {} ELSE {at + OpLength(op)})

Unreached == -1

\* The height of the stack at every instruction, each offset of work visited
\* once; <<>> when an instruction takes more than there is, leaves the code, or
\* is reached at two heights.
RECURSIVE Spread(_, _, _)
Spread(chunk, height, work) ==
  IF work = {} THEN height
  ELSE LET at == CHOOSE o \in work : TRUE
           effect == StackEffect(chunk, at)
           after == height[at] + effect.delta
           next == Successors(chunk, at)
           fresh == {to \in next : to \in DOMAIN height /\ height[to] = Unreached} IN
       IF \/ height[at] < effect.needs \/ after < 0 \/ after > Len(chunk.code)
          \/ \E to \in next \ fresh : to \notin DOMAIN height \/ height[to] # after
       THEN <<>>
       ELSE Spread(chunk, [o \in DOMAIN height |-> IF o \in fresh THEN after ELSE height[o]],
                   (work \ {at}) \cup fresh)

Heights(chunk) ==
  Spread(chunk, [o \in 0 .. Len(chunk.code) - 1 |-> IF o = 0 THEN 0 ELSE Unreached], {0})

\* Operands name an entry the chunk has, or a slot of a frame there is.
OperandsExist(chunk, at, ancestors) ==
  LET op == Cell(chunk, at) IN
  /\ op = OP_CONST => Cell(chunk, at + 1) < Len(chunk.constants)
  /\ op \in NamesText => Cell(chunk, at + 1) < Len(chunk.names)
  /\ op = OP_JUMP_IF_FALSE => Cell(chunk, at + 2) < Len(chunk.names)
  /\ op \in {OP_LOCAL, OP_SET_LOCAL} => Cell(chunk, at + 1) < chunk.slots
  /\ op \in {OP_OUTER, OP_SET_OUTER} =>
       /\ Cell(chunk, at + 1) \in DOMAIN ancestors
       /\ Cell(chunk, at + 2) < ancestors[Cell(chunk, at + 1)]
  /\ op = OP_BLOCK => Cell(chunk, at + 1) < Len(chunk.methods)

\* Whether a chunk may run.  ancestors: the slots of the enclosing frames, nearest first.
RECURSIVE Verify(_, _, _)
Verify(chunk, ancestors, depth) ==
  LET n == Len(chunk.code)
      starts == Boundaries(chunk)
      last == CHOOSE at \in starts : \A o \in starts : o <= at
      own == <<chunk.slots>> \o ancestors
      child == SubSeq(own, 1, IF Len(own) < MaxNesting THEN Len(own) ELSE MaxNesting) IN
  /\ depth <= MaxNesting /\ n > 0
  /\ OpLength(Cell(chunk, last)) > 0 /\ last + OpLength(Cell(chunk, last)) <= n
  /\ \A at \in starts : /\ OperandsExist(chunk, at, ancestors)
                        /\ Cell(chunk, at) \in Branches => Target(chunk, at) \in starts
  /\ Cell(chunk, last) \in {OP_HALT, OP_RETURN}
  /\ Heights(chunk) # <<>>
  /\ \A i \in DOMAIN chunk.methods :
       LET m == chunk.methods[i] IN
       /\ m.slots >= m.arity + 1 /\ m.slots <= MaxU8
       /\ Verify(m, child, depth + 1)

Verified(chunk) == Verify(chunk, <<>>, 0)

-----------------------------------------------------------------------------
(* The file.  A field is a cell; a table is its length and its entries.    *)

\* Maximal runs of one line, as <<how many cells, which line>> pairs.
Runs(lines) ==
  LET n == Len(lines)
      from[i \in 1 .. n + 1] ==
        IF i > n THEN <<>>
        ELSE LET j == Min({k \in i .. n : k = n \/ lines[k + 1] # lines[i]}) IN
             <<j - i + 1, lines[i]>> \o from[j + 1]
  IN from[1]

Table(entries) == <<Len(entries)>> \o entries

RECURSIVE Body(_)
Body(chunk) ==
  LET method(m) == <<m.arity, m.slots>> \o Body(m)
      runs == Runs(chunk.lines) IN
  Table(chunk.names) \o Table(chunk.constants) \o Table(chunk.code)
    \o <<Len(runs) \div 2>> \o runs
    \o <<Len(chunk.methods)>>
    \o FlattenSeq([i \in DOMAIN chunk.methods |-> method(chunk.methods[i])])

\* sol_chunk_save: nothing is written that would not be read back.
Saved(chunk) == IF Verified(chunk) THEN <<chunk.slots>> \o Body(chunk) ELSE <<>>

\* A table read at p; a table that would run past the end of the file is refused.
HasTable(file, p, width) == p <= Len(file) /\ p + width * file[p] <= Len(file)
TableAt(file, p, width) == SubSeq(file, p + 1, p + width * file[p])
Past(file, p, width) == p + width * file[p] + 1

\* Mutant of Expanded: a run is one cell short.
ExpandedShort(runs) ==
  FlattenSeq([i \in 1 .. Len(runs) \div 2 |-> [j \in 1 .. runs[2 * i - 1] - 1 |-> runs[2 * i]]])

Expanded(runs) ==
  FlattenSeq([i \in 1 .. Len(runs) \div 2 |-> [j \in 1 .. runs[2 * i - 1] |-> runs[2 * i]]])

Refused == [read |-> FALSE, next |-> 0, chunk |-> Chunk]

\* The chunk whose body begins at p, and where it ends.
RECURSIVE ReadBody(_, _, _), ReadMethods(_, _, _, _)
ReadBody(file, p, depth) ==
  LET constants == Past(file, p, 1)
      code == Past(file, constants, 1)
      runs == Past(file, code, 1)
      methods == Past(file, runs, 2)
      lines == Expanded(TableAt(file, runs, 2)) IN
  IF \/ depth > MaxNesting
     \/ ~HasTable(file, p, 1) \/ ~HasTable(file, constants, 1) \/ ~HasTable(file, code, 1)
     \/ ~HasTable(file, runs, 2) \/ Len(lines) # file[code] \/ methods > Len(file)
  THEN Refused
  ELSE LET rest == ReadMethods(file, methods + 1, file[methods], depth + 1) IN
       IF ~rest.read THEN Refused
       ELSE [read |-> TRUE, next |-> rest.next,
             chunk |-> [Chunk EXCEPT !.names = TableAt(file, p, 1),
                                     !.constants = TableAt(file, constants, 1),
                                     !.code = TableAt(file, code, 1),
                                     !.lines = lines, !.methods = rest.methods]]

ReadMethods(file, p, count, depth) ==
  IF count = 0 THEN [read |-> TRUE, next |-> p, methods |-> <<>>]
  ELSE IF p + 1 > Len(file) \/ file[p + 1] > MaxU8 \/ file[p + 1] < file[p] + 1
  THEN [read |-> FALSE, next |-> p, methods |-> <<>>]
  ELSE LET first == ReadBody(file, p + 2, depth)
           method == [first.chunk EXCEPT !.arity = file[p], !.slots = file[p + 1]]
           rest == ReadMethods(file, first.next, count - 1, depth) IN
       IF ~first.read \/ ~rest.read THEN [read |-> FALSE, next |-> p, methods |-> <<>>]
       ELSE [rest EXCEPT !.methods = <<method>> \o @]

\* sol_chunk_load: read whole, then verified.
Loaded(file) ==
  LET body == ReadBody(file, 2, 0)
      chunk == [body.chunk EXCEPT !.slots = file[1]] IN
  IF file = <<>> THEN Refused
  ELSE IF file[1] > MaxU8 \/ ~body.read \/ ~Verified(chunk) THEN Refused
  ELSE [body EXCEPT !.chunk = chunk]

=============================================================================
