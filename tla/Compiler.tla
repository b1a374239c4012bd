------------------------------- MODULE Compiler -------------------------------
(***************************************************************************)
(* solas: the code of a program.  A program is a sequence of expressions,  *)
(* given as trees; solas builds none, and emits as it reads, but what it   *)
(* emits for an expression depends only on the expression, on the scopes   *)
(* it stands in, and on the tables of the chunk it is emitted to.          *)
(*                                                                         *)
(* With inline FALSE the control messages are always sent, as the inlined  *)
(* form promises to be indistinguishable from.                             *)
(***************************************************************************)
EXTENDS Bytecode

CONSTANT MaxLocals  \* SOL_MAX_LOCALS: names of one frame, slot 0 among them

ASSUME CompilerAssumption == MaxLocals \in Nat \ {0}

-----------------------------------------------------------------------------
(* Values that code can mention, and expressions.                          *)

Bool(b) == [t |-> "boolean", b |-> b]
Integer(i) == [t |-> "integer", i |-> i]

Number(i) == [e |-> "number", i |-> i]
Text(op, n) == [e |-> "text", op |-> op, n |-> n]              \* "n" and 'n
Self == [e |-> "self"]
Name(n) == [e |-> "name", n |-> n]
Assign(n, x) == [e |-> "assign", n |-> n, x |-> x]              \* n := x
Send(to, sel, args) == [e |-> "send", to |-> to, sel |-> sel, args |-> args]
Bind(to, n, x) == [e |-> "bind", to |-> to, n |-> n, x |-> x]     \* to:n := x
Group(temps, body) == [e |-> "group", temps |-> temps, body |-> body]
Block(params, temps, body) == [e |-> "block", params |-> params, temps |-> temps, body |-> body]
Array(items) == [e |-> "literal", of |-> "array", items |-> items]      \* [a, b]
Dictionary(items) == [e |-> "literal", of |-> "dictionary", items |-> items]  \* #[a = b]
Logical(sel, left, right) == [e |-> "logical", sel |-> sel, left |-> left, right |-> right]  \* a & b, a | b

Conditionals == {"ifTrue", "ifFalse", "ifElse"}
Logicals == {"and", "or"}
Loops == {"whileTrue", "doUntil"}

Plain(x) == x.e = "block" /\ x.params = <<>> /\ x.temps = <<>>

\* Control messages written with nothing but plain blocks, which become jumps.
Inlinable(x) ==
  /\ x.sel \in Conditionals \cup Logicals \cup Loops
  /\ Len(x.args) = IF x.sel = "ifElse" THEN 2 ELSE 1
  /\ \A i \in DOMAIN x.args : Plain(x.args[i])
  /\ x.sel \in Loops => Plain(x.to)

-----------------------------------------------------------------------------
(* The compiler: its scopes, innermost last, and whether all is well.      *)

Scope(is_block) == [chunk |-> Chunk, locals |-> <<"">>, is_block |-> is_block]

Inner(c) == Last(c.scopes)
Code(c) == Inner(c).chunk
Here(c) == Len(Code(c).code)

With(c, chunk) == [c EXCEPT !.scopes[Len(c.scopes)].chunk = chunk]

Emit(c, cells) == With(c, Written(Code(c), cells, c.line))

\* Instructions that name something: the name joins the table first.
EmitNamed(c, op, name, rest) ==
  Emit(With(c, [Code(c) EXCEPT !.names = Interned(@, name)]),
       <<op, Place(Code(c).names, name)>> \o rest)

EmitConstant(c, value) ==
  Emit(With(c, [Code(c) EXCEPT !.constants = Interned(@, value)]),
       <<OP_CONST, Place(Code(c).constants, value)>>)

\* A jump is emitted blank, and patched when its target is reached.
EmitTest(c, name) ==
  Emit(With(c, [Code(c) EXCEPT !.names = Interned(@, name)]),
       <<OP_JUMP_IF_FALSE, 0, Place(Code(c).names, name)>>)

EmitJump(c, op) == Emit(c, <<op, 0>>)

PatchJump(c, at) ==
  With(c, [Code(c) EXCEPT !.code[at + 2] = Here(c) - (at + OpLength(Cell(Code(c), at)))])

EmitLoop(c, top) == Emit(c, <<OP_LOOP, Here(c) + 2 - top>>)

\* How many frames out a name may be found: the first is the nearest.
Depths(c, name) ==
  {d \in 0 .. Len(c.scopes) - 1 : name \in Range(c.scopes[Len(c.scopes) - d].locals)}

\* Reads a name, or stores to it, where it was resolved.
EmitAccess(c, store, depths, name) ==
  IF depths = {} THEN EmitNamed(c, IF store THEN OP_SET_GLOBAL ELSE OP_GLOBAL, name, <<>>)
  ELSE LET depth == Min(depths)
           locals == c.scopes[Len(c.scopes) - depth].locals
           slot == (CHOOSE i \in DOMAIN locals : locals[i] = name) - 1 IN
       IF depth = 0 THEN Emit(c, <<IF store THEN OP_SET_LOCAL ELSE OP_LOCAL, slot>>)
       ELSE Emit(c, <<IF store THEN OP_SET_OUTER ELSE OP_OUTER, depth, slot>>)

\* Names declared in the frame that is being compiled: new ones, while there is room.
Declare(c, names) ==
  LET declare(d, n) ==
        IF n \in Range(Inner(d).locals) \/ Len(Inner(d).locals) = MaxLocals
        THEN [d EXCEPT !.ok = FALSE]
        ELSE [d EXCEPT !.scopes[Len(d.scopes)].locals = Append(@, n)]
  IN FoldLeft(declare, c, names)

-----------------------------------------------------------------------------
(* Expressions.  Each leaves one value on the stack.                       *)

RECURSIVE Expression(_, _)

Statements(c, body) ==
  IF body = <<>> THEN Emit(c, <<OP_NIL>>)
  ELSE FoldLeft(LAMBDA d, x : Expression(Emit(d, <<OP_POP>>), x), Expression(c, body[1]), Tail(body))

Arguments(c, args) == FoldLeft(Expression, c, args)

\* Two ways on from a tested boolean, which meet again.
Fork(c, name, IfTrue(_), IfFalse(_)) ==
  LET taken == IfTrue(EmitTest(c, name))
      other == IfFalse(PatchJump(EmitJump(taken, OP_JUMP), Here(c)))
  IN PatchJump(other, Here(taken))

EmitNil(c) == Emit(c, <<OP_NIL>>)

\* The receiver is compiled; a branch is a plain block, compiled in place.
InlineConditional(c, x) ==
  LET first(d) == Statements(d, x.args[1].body)
      second(d) == Statements(d, x.args[2].body) IN
  CASE x.sel = "ifTrue" -> Fork(c, x.sel, first, EmitNil)
    [] x.sel = "ifFalse" -> Fork(c, x.sel, EmitNil, first)
    [] x.sel = "ifElse" -> Fork(c, x.sel, first, second)

\* The long way of `and` and `or` has to answer a boolean.
ShortCircuit(c, name, Right(_)) ==
  LET long(d) == EmitNamed(Right(d), OP_CHECK_BOOL, name, <<>>)
      short(d) == EmitConstant(d, Bool(name = "or")) IN
  IF name = "and" THEN Fork(c, name, long, short) ELSE Fork(c, name, short, long)

\* Mutant of InlineLogical: the answer of the long way is not looked at.
InlineLogicalUnchecked(c, x) ==
  LET long(d) == Statements(d, x.args[1].body)
      short(d) == EmitConstant(d, Bool(x.sel = "or")) IN
  IF x.sel = "and" THEN Fork(c, x.sel, long, short) ELSE Fork(c, x.sel, short, long)

InlineLogical(c, x) == ShortCircuit(c, x.sel, LAMBDA d : Statements(d, x.args[1].body))

MathLogical(c, x) ==
  ShortCircuit(Expression(c, x.left), x.sel, LAMBDA d : Expression(d, x.right))

\* { condition }:whileTrue({ body })
InlineWhile(c, x) ==
  LET tested == Statements(c, x.to.body)
      body == Emit(Statements(EmitJump(tested, OP_EXIT_IF_FALSE), x.args[1].body), <<OP_POP>>)
  IN EmitNil(PatchJump(EmitLoop(body, Here(c)), Here(tested)))

\* { body }:doUntil({ condition })
InlineDoUntil(c, x) ==
  LET body == Emit(Statements(c, x.to.body), <<OP_POP>>)
      tested == EmitNamed(Statements(body, x.args[1].body), OP_CHECK_BOOL, "doUntil", <<>>)
      left == EmitJump(tested, OP_EXIT_IF_FALSE)
      again == PatchJump(EmitJump(left, OP_JUMP), Here(tested))
  IN EmitNil(PatchJump(EmitLoop(again, Here(c)), Here(left)))

\* A block is compiled to a chunk of its own, in a frame of its own.
BlockLiteral(c, x) ==
  LET opened == Declare([c EXCEPT !.scopes = Append(@, Scope(TRUE))], x.params \o x.temps)
      closed == Emit(Statements(opened, x.body), <<OP_RETURN>>)
      method == [Code(closed) EXCEPT !.slots = Len(Inner(closed).locals), !.arity = Len(x.params)]
      outer == [closed EXCEPT !.scopes = Front(@)]
  IN Emit(With(outer, [Code(outer) EXCEPT !.methods = Append(@, method)]),
          <<OP_BLOCK, Len(Code(outer).methods)>>)

SendExpression(c, x) ==
  CASE c.inline /\ Inlinable(x) /\ x.sel = "whileTrue" -> InlineWhile(c, x)
    [] c.inline /\ Inlinable(x) /\ x.sel = "doUntil" -> InlineDoUntil(c, x)
    [] c.inline /\ Inlinable(x) /\ x.sel \in Conditionals -> InlineConditional(Expression(c, x.to), x)
    [] c.inline /\ Inlinable(x) /\ x.sel \in Logicals -> InlineLogical(Expression(c, x.to), x)
    [] OTHER -> EmitNamed(Arguments(Expression(c, x.to), x.args), OP_SEND, x.sel, <<Len(x.args)>>)

\* The send that stood where the binding turns out to be has interned its selector.
BindSlot(c, x) ==
  LET to == Expression(c, x.to)
      named == With(to, [Code(to) EXCEPT !.names = Interned(@, x.n)])
  IN EmitNamed(Expression(named, x.x), OP_SET_SLOT, x.n, <<>>)

\* A literal of the language is a message to the class it names.
Literal(c, x) ==
  EmitNamed(Arguments(EmitNamed(c, OP_GLOBAL, x.of, <<>>), x.items), OP_SEND, "of", <<Len(x.items)>>)

Expression(c, x) ==
  CASE x.e = "number" -> EmitConstant(c, Integer(x.i))
    [] x.e = "text" -> EmitNamed(c, x.op, x.n, <<>>)
    [] x.e = "self" -> IF Inner(c).is_block THEN Emit(c, <<OP_LOCAL, 0>>) ELSE [c EXCEPT !.ok = FALSE]
    [] x.e = "name" -> EmitAccess(c, FALSE, Depths(c, x.n), x.n)
    [] x.e = "assign" -> EmitAccess(Expression(c, x.x), TRUE, Depths(c, x.n), x.n)
    [] x.e = "send" -> SendExpression(c, x)
    [] x.e = "bind" -> BindSlot(c, x)
    [] x.e = "group" -> Statements(Declare(c, x.temps), x.body)
    [] x.e = "block" -> BlockLiteral(c, x)
    [] x.e = "literal" -> Literal(c, x)
    [] x.e = "logical" -> MathLogical(c, x)

\* A script, one statement to a line.
Compile(program, inline) ==
  LET start == [scopes |-> <<Scope(FALSE)>>, line |-> 1, ok |-> TRUE, inline |-> inline]
      statement(c, x) == [Emit(Expression(c, x), <<OP_POP>>) EXCEPT !.line = @ + 1]
      done == Emit(FoldLeft(statement, start, program), <<OP_HALT>>)
  IN [ok |-> done.ok, chunk |-> [Code(done) EXCEPT !.slots = Len(Inner(done).locals)]]

=============================================================================
