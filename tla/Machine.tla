------------------------------- MODULE Machine --------------------------------
(***************************************************************************)
(* solum: one instruction at a time of a chunk that the verifier accepted. *)
(* A machine is a record; what it does next is a function of it.           *)
(*                                                                         *)
(* Calls are the frames in progress, and between them the primitives that  *)
(* wait for a block they called.  Values are booleans, integers, nil,      *)
(* blocks, the classes that literals are sent to, and what those answer.   *)
(***************************************************************************)
EXTENDS Compiler

CONSTANT MaxCalls  \* SOL_FRAMES_MAX: frames in progress

ASSUME MachineAssumption == MaxCalls \in Nat \ {0}

Nil == [t |-> "nil"]
Class(n) == [t |-> "object", n |-> n]
BlockOf(code, self, home) == [t |-> "block", code |-> code, self |-> self, home |-> home]

\* The names every machine begins with, so far as programs here use them.
Builtins == [n \in {"true", "false", "nil", "array", "dictionary"} |->
               CASE n = "true" -> Bool(TRUE) [] n = "false" -> Bool(FALSE)
                 [] n = "nil" -> Nil [] OTHER -> Class(n)]

\* A frame starts with its receiver and arguments in its first slots, the rest nil.
Frame(chunk, placed, method, id, home) ==
  [chunk |-> chunk, ip |-> 0, stack |-> <<>>, method |-> method, id |-> id, home |-> home,
   slots |-> placed \o [i \in 1 .. chunk.slots - Len(placed) |-> Nil]]

\* A primitive that waits for the answer of a block: what it will do with it.
Waiting(then, self, args) == [then |-> then, self |-> self, args |-> args, id |-> 0]

IsFrame(call) == call.id # 0

Start(chunk) ==
  [calls |-> <<Frame(chunk, <<>>, FALSE, 1, 0)>>, globals |-> Builtins,
   seen |-> <<>>, steps |-> 0, next |-> 2, ended |-> <<>>]

Running(m) == Last(m.calls)

-----------------------------------------------------------------------------
(* What instructions do.  Nothing here catches an error, so one ends the run. *)

End(m, how) == [m EXCEPT !.ended = how]

Update(m, call) == [m EXCEPT !.calls[Len(m.calls)] = call]

PushValue(m, v) == Update(m, [Running(m) EXCEPT !.stack = Append(@, v)])

Below(f, n) == f.stack[Len(f.stack) - n]   \* n values below the top one

\* A block is run in a frame of its own, its receiver and arguments placed.
PushFrame(m, block, self, args) ==
  IF Len(args) # block.code.arity THEN End(m, <<"arity", block.code.arity, Len(args)>>)
  ELSE IF Cardinality({i \in DOMAIN m.calls : IsFrame(m.calls[i])}) = MaxCalls THEN End(m, <<"depth">>)
  ELSE [m EXCEPT !.calls = Append(@, Frame(block.code, <<self>> \o args, TRUE, m.next, block.home)),
                 !.next = @ + 1]

CallBlock(m, block, args, waiting) ==
  PushFrame([m EXCEPT !.calls = Append(@, waiting)], block, block.self, args)

\* The frames a frame can reach by its home, and its home's: each must still be in progress.
Home(m, at) == {i \in DOMAIN m.calls : IsFrame(m.calls[i]) /\ m.calls[i].id = m.calls[at].home}

OuterFrame(m, depth) ==
  LET out[d \in 0 .. depth] ==
        IF d = 0 THEN {Len(m.calls)} ELSE UNION {Home(m, at) : at \in out[d - 1]}
  IN out[depth]

\* A global may be made by an assignment of the script, and of nothing else.
MayAssign(m, f, n) == n \in DOMAIN m.globals \/ ~f.method

SetGlobal(m, n, v) ==
  [m EXCEPT !.globals = [g \in DOMAIN @ \cup {n} |-> IF g = n THEN v ELSE @[g]],
            !.seen = Append(@, <<n, IF v.t = "block" THEN v.t ELSE v>>)]

NotUnderstood(m, v, name) == End(m, <<"does not understand", v.t, name>>)
NotBoolean(m, v, name) == End(m, <<"not a boolean", v.t, name>>)

-----------------------------------------------------------------------------
(* Primitives.                                                             *)

Understands(v) ==
  CASE v.t = "boolean" -> Conditionals \cup Logicals \cup {"not"}
    [] v.t = "block" -> Loops \cup {"value"}
    [] v.t = "object" -> {"of"}
    [] OTHER -> {}

\* The arguments of each, and whether they have to be blocks.
Takes(sel) == IF sel = "ifElse" THEN 2 ELSE IF sel = "not" THEN 0 ELSE 1

Primitive(m, self, sel, args) ==
  LET call(then, block) == CallBlock(m, block, <<>>, Waiting(then, self, args)) IN
  IF sel = "value" THEN CallBlock(m, self, args, Waiting("answer", self, args))
  ELSE IF sel = "of" THEN PushValue(m, [t |-> "collection"])
  ELSE IF Len(args) # Takes(sel) THEN End(m, <<"argc", sel>>)
  ELSE IF \E i \in DOMAIN args : args[i].t # "block" THEN End(m, <<"expects a block", sel>>)
  ELSE CASE sel = "not" -> PushValue(m, Bool(~self.b))
         [] sel = "ifTrue" -> IF self.b THEN call("answer", args[1]) ELSE PushValue(m, Nil)
         [] sel = "ifFalse" -> IF self.b THEN PushValue(m, Nil) ELSE call("answer", args[1])
         [] sel = "ifElse" -> call("answer", IF self.b THEN args[1] ELSE args[2])
         [] sel = "and" -> IF self.b THEN call("and", args[1]) ELSE PushValue(m, Bool(FALSE))
         [] sel = "or" -> IF self.b THEN PushValue(m, Bool(TRUE)) ELSE call("or", args[1])
         [] sel = "whileTrue" -> call("whileTrue", self)
         [] sel = "doUntil" -> call("doUntil", self)

\* A block has answered the primitive that called it.
Resume(m, v) ==
  LET p == Running(m)
      back == [m EXCEPT !.calls = Front(@)]
      again(then, block) == CallBlock(back, block, <<>>, [p EXCEPT !.then = then]) IN
  CASE p.then = "answer" -> PushValue(back, v)
    [] p.then \in Logicals -> IF v.t # "boolean" THEN NotBoolean(m, v, p.then) ELSE PushValue(back, v)
    [] p.then = "whileTrue" ->
         IF v.t # "boolean" THEN NotBoolean(m, v, p.then)
         ELSE IF v.b THEN again("while body", p.args[1]) ELSE PushValue(back, Nil)
    [] p.then = "while body" -> again("whileTrue", p.self)
    [] p.then = "doUntil" -> again("until", p.args[1])
    [] p.then = "until" ->
         IF v.t # "boolean" THEN NotBoolean(m, v, "doUntil")
         ELSE IF v.b THEN PushValue(back, Nil) ELSE again("doUntil", p.self)

-----------------------------------------------------------------------------
(* One instruction.                                                        *)

SendMessage(m, f, sel, argc) ==
  LET height == Len(f.stack)
      self == f.stack[height - argc]
      args == SubSeq(f.stack, height - argc + 1, height)
      left == Update(m, [f EXCEPT !.stack = SubSeq(@, 1, height - argc - 1)]) IN
  IF height < argc + 1 THEN End(m, <<"stack underflow">>)
  ELSE IF sel \notin Understands(self) THEN NotUnderstood(m, self, sel)
  ELSE Primitive(left, self, sel, args)

Return(m, v) ==
  LET back == [m EXCEPT !.calls = Front(@)] IN
  IF back.calls = <<>> THEN End(back, <<"done">>)
  ELSE IF IsFrame(Running(back)) THEN PushValue(back, v) ELSE Resume(back, v)

Access(m, f, depth, slot, store) ==
  LET out == OuterFrame(m, depth)
      at == CHOOSE i \in out : TRUE IN
  IF out = {} THEN End(m, <<"outlived">>)
  ELSE IF store THEN [m EXCEPT !.calls[at].slots[slot + 1] = Below(f, 0)]
  ELSE PushValue(m, m.calls[at].slots[slot + 1])

\* Jumps, and the tests of what an inlined control message is sent to or answers.
Branch(m, f, at) ==
  LET code == f.chunk
      op == Cell(code, at)
      top == Below(f, 0)
      name(i) == code.names[Cell(code, at + i) + 1]
      jumped(g) == Update(m, [g EXCEPT !.ip = Target(code, at)])
      popped == [f EXCEPT !.stack = Front(@)]
      tested == IF top.b THEN Update(m, popped) ELSE jumped(popped) IN
  CASE op \in {OP_JUMP, OP_LOOP} -> jumped(f)
    [] op = OP_JUMP_IF_FALSE -> IF top.t # "boolean" THEN NotUnderstood(m, top, name(2)) ELSE tested
    [] op = OP_EXIT_IF_FALSE -> IF top.t # "boolean" THEN NotBoolean(m, top, "whileTrue") ELSE tested
    [] op = OP_CHECK_BOOL -> IF top.t # "boolean" THEN NotBoolean(m, top, name(1)) ELSE m

Step(before) ==
  LET at == Running(before).ip
      code == Running(before).chunk
      op == Cell(code, at)
      operand == IF OpLength(op) > 1 THEN Cell(code, at + 1) ELSE 0
      second == IF OpLength(op) > 2 THEN Cell(code, at + 2) ELSE 0
      name(i) == code.names[i + 1]
      f == [Running(before) EXCEPT !.ip = at + OpLength(op)]
      m == Update([before EXCEPT !.steps = @ + 1], f) IN
  CASE op = OP_CONST -> PushValue(m, code.constants[operand + 1])
    [] op = OP_NIL -> PushValue(m, Nil)
    [] op = OP_GLOBAL ->
         IF name(operand) \in DOMAIN m.globals THEN PushValue(m, m.globals[name(operand)])
         ELSE End(m, <<"undefined name", name(operand)>>)
    [] op = OP_SET_GLOBAL ->
         IF MayAssign(m, f, name(operand)) THEN SetGlobal(m, name(operand), Below(f, 0))
         ELSE End(m, <<"undefined name", name(operand)>>)
    [] op \in {OP_LOCAL, OP_SET_LOCAL} -> Access(m, f, 0, operand, op = OP_SET_LOCAL)
    [] op \in {OP_OUTER, OP_SET_OUTER} -> Access(m, f, operand, second, op = OP_SET_OUTER)
    [] op \in {OP_STRING, OP_SYMBOL} -> PushValue(m, [t |-> "text", n |-> name(operand)])
    [] op = OP_BLOCK ->
         PushValue(m, BlockOf(code.methods[operand + 1], IF f.method THEN f.slots[1] ELSE Nil, f.id))
    [] op = OP_SEND -> SendMessage(m, f, name(operand), second)
    [] op = OP_SET_SLOT -> End(m, <<"cannot bind", name(operand), Below(f, 1).t>>)
    [] op \in Branches \cup {OP_CHECK_BOOL} -> Branch(m, f, at)
    [] op = OP_POP -> Update(m, [f EXCEPT !.stack = Front(@)])
    [] op = OP_RETURN -> Return(m, Below(f, 0))
    [] op = OP_HALT -> End(m, <<"done">>)

=============================================================================
