----------------------------- MODULE MCToolchain ------------------------------
(* Small programs, regions and files for the toolchain. *)
EXTENDS Toolchain

X == Name("x")
Y == Name("y")
On == Name("true")
Braced(body) == Block(<<>>, <<>>, body)

\* What stands in the branches of a control message.
Bodies == {<<>>, <<X>>, <<Assign("x", Name("false"))>>, <<Assign("x", On), Number(1)>>}

Controls ==
  {Send(to, sel, <<Braced(b)>>) : to \in {X, Number(1)}, sel \in {"ifTrue", "ifFalse", "and", "or"}, b \in Bodies}
    \cup {Send(X, "ifElse", <<Braced(a), Braced(b)>>) : a, b \in Bodies}
    \cup {Send(Braced(a), sel, <<Braced(b)>>) : a \in Bodies \ {<<>>}, sel \in Loops, b \in Bodies}
    \cup {Send(X, "ifTrue", <<X>>), Send(X, "and", <<Block(<<"p">>, <<>>, <<X>>)>>), Array(<<X, On>>),
          Dictionary(<<Text(OP_STRING, "x"), Text(OP_SYMBOL, "s")>>), Bind(X, "n", On)}

\* Where the message stands: beside operands, in a frame of its own, in a branch, in a loop.
In(x) ==
  {Send(x, "not", <<>>),
   Send(Block(<<"p">>, <<"y">>, <<Assign("y", x), Send(Name("p"), "ifElse", <<Braced(<<Y>>), Braced(<<x>>)>>)>>),
        "value", <<X>>),
   Send(X, "ifElse", <<Braced(<<x>>), Braced(<<Assign("x", On), x>>)>>),
   Send(Braced(<<Assign("x", x), X>>), "whileTrue", <<Braced(<<x>>)>>)}

Within(x) ==
  {<<x>>,
   <<Group(<<"y">>, <<Assign("y", X), Assign("x", x), Assign("x", Y)>>)>>,
   <<Assign("b", Block(<<>>, <<"y">>, <<Assign("y", Braced(<<x>>)), Send(Y, "value", <<>>)>>)),
     Send(Name("b"), "value", <<>>)>>}

MCPrograms ==
  UNION {{<<Assign("x", Name(v))>> \o p : v \in {"true", "false"}, p \in UNION {Within(y) : y \in {x} \cup In(x)}} :
           x \in Controls}
    \cup {<<Assign("x", On), z>> :
            z \in UNION {In(y) : y \in UNION {In(x) : x \in {x \in Controls : x.e = "send" /\ x.args = <<Braced(<<X>>)>>}}}}

\* Blocks whose frame or names are not where a sent message would have them.
Twice(body) ==
  Send(Braced(<<X>>), "whileTrue", <<Braced(<<Send(Name("z"), "ifTrue", <<Braced(<<Assign("x", Name("false"))>>)>>),
                                              Assign("z", On)>> \o body)>>)

Preset == <<Assign("x", On), Assign("z", Name("false")), Assign("b", Name("nil"))>>

MCStrays ==
  {Preset \o <<Send(Block(<<>>, <<"y">>, <<Assign("y", X), Assign("b", Send(X, "ifTrue", <<Braced(<<Braced(<<Y>>)>>)>>)),
                                         Send(Name("b"), "value", <<>>)>>), "value", <<>>)>>,
   Preset \o <<Twice(<<Group(<<"t">>, <<Assign("b", Name("t")), Assign("t", X)>>)>>)>>,
   Preset \o <<Send(X, "ifElse", <<Braced(<<Group(<<"t">>, <<X>>)>>), Braced(<<Group(<<"t">>, <<X>>)>>)>>)>>,
   Preset \o <<Send(X, "ifTrue", <<Braced(<<Assign("g", X)>>)>>)>>,
   Preset \o <<Send(X, "ifTrue", <<Braced(<<Self>>)>>)>>}

\* Operands with and without a prefix, between operators; and whatever is short.
Operands == {<<"a">>, <<"2">>, <<"-", "a">>, <<"-", "2">>, <<"~", "a">>}
Operators == {"+", "-", "*", "^", "<", "&", "|"}
Short == {"a", "2", "-", "^", "~", "&", "|", ":", "(", ")"}

MCRegions ==
  {s \in {a \o <<p>> \o b \o <<q>> \o c : a, b, c \in Operands, p, q \in Operators}
           \cup UNION {[1 .. n -> Short] : n \in 1 .. 4}
           \cup {<<"(">> \o s \o <<")">> : s \in [1 .. 4 -> {"|", "a", "&"}]} :
     ~ChainsNegatedLiteral(s)}

\* Chunks nobody compiled: three instructions and an end, jumps of any length.
Instructions ==
  {<<op>> : op \in {OP_NIL, OP_POP}}
    \cup {<<OP_SEND, 0, 1>>, <<OP_SET_LOCAL, 1>>, <<OP_GLOBAL, 0>>,
    <<OP_CHECK_BOOL, 0>>, <<OP_BLOCK, 0>>}
    \cup {<<op, d>> : op \in {OP_JUMP, OP_LOOP, OP_EXIT_IF_FALSE}, d \in {0, 2, 3, 4}}
    \cup {<<OP_JUMP_IF_FALSE, d, 0>> : d \in {0, 2}}

MCCodes == {a \o b \o c \o <<OP_HALT>> : a, b, c \in Instructions}

MCMethods ==
  {[Chunk EXCEPT !.code = <<OP_GLOBAL, 0, OP_RETURN>>, !.lines = <<1, 1, 1>>, !.names = <<"true">>, !.slots = 1],
   [Chunk EXCEPT !.code = <<OP_OUTER, 1, 1, OP_RETURN>>, !.lines = <<1, 1, 1, 1>>, !.slots = 1]}
=============================================================================
