------------------------------- MODULE MCForms --------------------------------
(* Modules of parasol: a file that declares forms and may use two others, and *)
(* statements over two names.                                                *)
EXTENDS Expand, TLC

t == Node("name", <<"t">>, <<>>, <<>>)
t1 == Node("name", <<"t", 1>>, <<>>, <<>>)
u == Node("name", <<"u">>, <<>>, <<>>)
p == Node("name", <<"p">>, <<>>, <<>>)
q == Node("name", <<"q">>, <<>>, <<>>)
one == Node("literal", <<>>, <<>>, <<>>)
Assign(x, y) == Node("assign", <<>>, <<>>, <<x, y>>)
Block(binds, statements) == Node("block", <<>>, binds, statements)
Send(x, y) == Node("send", <<"add">>, <<>>, <<x, y>>)
Group(x, y) == Node("sequence", <<>>, <<>>, <<x, y>>)
Call(name, arguments) == Node("call", name, <<>>, arguments)
Use(name, items) == Node("use", name, <<>>, items)
W(word) == Node("word", <<word>>, <<>>, <<>>)

Takes(file) == [directive |-> "use", file |-> file]
Form(name, params, kinds, parts, template) ==
  [directive |-> "syntax",
   form |-> [name |-> name, params |-> params, kinds |-> kinds, parts |-> parts,
             template |-> template, from |-> "main"]]
Of(name, params, template) == Form(name, params, [i \in DOMAIN params |-> "expression"], <<>>, template)
Hole(kind) == [is_hole |-> TRUE, text |-> <<>>, accepts |-> kind]
Word(word) == [is_hole |-> FALSE, text |-> <<word>>, accepts |-> ""]

\* A form called swap exchanges its arguments in a local; bump reaches for t;
\* late binds t in a block and reaches for t beside it.
Swap == Form(<<"swap">>, <<p.text, q.text>>, <<"place", "place">>, <<>>,
               Block(<<t.text>>, <<Assign(t, p), Assign(p, q), Assign(q, t)>>))
Bump == Of(<<"bump">>, <<p.text>>, Assign(t, Send(t, p)))
Late == Of(<<"late">>, <<p.text>>, Group(Block(<<t.text>>, <<Assign(t, p)>>), t))
Keep == Of(<<"keep">>, <<p.text>>, Block(<<t.text>>, <<Call(<<"bump">>, <<p>>), t, Block(<<t.text>>, <<t, p>>)>>))
Twice == Of(<<"twice">>, <<p.text>>, Group(p, Call(<<"keep">>, <<p>>)))

\* Patterns: with an else and without, and ones that may not stand together.
If == Form(<<"if">>, <<p.text, q.text>>, <<"expression", "block">>,
             <<Hole("expression"), Hole("block")>>, Send(p, q))
IfElse == Form(<<"if">>, <<p.text, q.text, u.text>>, <<"expression", "block", "expression">>,
                 <<Hole("expression"), Hole("block"), Word("else"), Hole("expression")>>, Group(Send(p, q), u))
Go == Form(<<"go">>, <<>>, <<>>, <<Word("north")>>, one)
GoFar == Form(<<"go">>, <<p.text>>, <<"expression">>, <<Word("north"), Hole("expression")>>, p)
GoSouth == Form(<<"go">>, <<p.text>>, <<"name">>, <<Word("south"), Hole("expression")>>, Assign(p, t))
GoTo == Form(<<"go">>, <<p.text>>, <<"place">>, <<Hole("place")>>, p)
Apart == Form(<<"if">>, <<p.text, q.text>>, <<"expression", "expression">>,
                <<Hole("expression"), Hole("expression")>>, p)

Files(m, o, w) == ("main" :> m) @@ ("one" :> o) @@ ("two" :> w)

MCHeaders ==
  {Files(m, <<>>, <<>>) :
     m \in {<<Swap, Bump, Keep, Twice, Late>>, <<If, IfElse, Go, GoFar>>, <<IfElse, Apart, If, Go, GoSouth, GoTo>>}}
  \cup {Files(m, o, w) :
     m \in {<<Takes("one"), Swap, Takes("two"), Takes("gone")>>, <<Takes("two"), Bump, Takes("one"), Bump, Swap>>},
     o \in {<<Bump, If>>, <<Takes("two"), Keep, Bump>>, <<Takes("main"), Bump, Swap>>},
     w \in {<<Bump>>, <<Takes("one"), If, IfElse>>}}

\* Statements: uses whose arguments are names or blocks that bind one, in blocks
\* that bind the names the templates reach for.
Simple == {t, t1, u, one, Block(<<t.text>>, <<t>>)}

Written1 ==
  {Call(<<"swap">>, <<x, y>>) : x \in {t, t1, one}, y \in {t, u}}
  \cup {Call(<<f>>, <<x>>) : f \in {"bump", "keep", "twice", "late"}, x \in Simple}
Worded ==
  {Use(<<"if">>, <<x, Block(<<t.text>>, <<t>>)>> \o rest) :
     x \in {t, Block(<<>>, <<Call(<<"bump">>, <<t>>)>>)}, rest \in {<<>>, <<W("else"), u>>, <<W("or"), u>>, <<W("else")>>}}
  \cup {Use(<<"go">>, items) : items \in {<<W("north")>>, <<W("north"), t>>, <<W("south"), u>>, <<W("south"), one>>,
                                    <<one>>, <<W("east")>>, <<>>}}

Nested ==
  {Call(<<"twice">>, <<Call(<<"swap">>, <<t, u>>)>>), Call(<<"bump">>, <<Call(<<"keep">>, <<t>>)>>),
   Call(<<"swap">>, <<Call(<<"bump">>, <<t>>), u>>), Call(<<"keep">>, <<Block(<<t.text>>, <<Call(<<"bump">>, <<t>>)>>)>>)}

MCBodies ==
  {<<Block(b, <<x, t>>)>> : b \in {<<>>, <<t.text>>, <<t.text, t1.text>>}, x \in Written1 \cup Nested \cup Worded}
  \cup {<<Block(<<t.text>>, <<Block(b, <<x, t>>), t>>)>> : b \in {<<t.text>>, <<u.text>>}, x \in Written1 \cup Nested}
  \cup {<<x, Block(<<t.text>>, <<y, t>>)>> : x \in {Call(<<"keep">>, <<t>>), Assign(t, one)}, y \in Written1}
===============================================================================
