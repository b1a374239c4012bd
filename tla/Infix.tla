-------------------------------- MODULE Infix ---------------------------------
(***************************************************************************)
(* The @expr region of solas: its tokens read by recursive descent, one    *)
(* operator of this module for one function of the compiler.               *)
(*                                                                         *)
(* A reader is the tokens between the parentheses of the region, the place *)
(* of the current one, the expression read last, and whether all is well.  *)
(* Of the terms of the language, those that matter to how operators group: *)
(* names, integers, groups with their temporaries, prefix calls, sends.    *)
(***************************************************************************)
EXTENDS Compiler, TLC

CONSTANTS Idents, Digits  \* tokens that are names, and that are integers

Comparisons == [t \in {"=", "<"} |-> IF t = "=" THEN "equals" ELSE "lessThan"]
Sums == [t \in {"+", "-"} |-> IF t = "+" THEN "add" ELSE "sub"]
Products == [t \in {"*", "/"} |-> IF t = "*" THEN "mul" ELSE "div"]

Value(t) == CHOOSE i \in 0 .. 9 : ToString(i) = t

Reader(tokens) == [tokens |-> tokens, at |-> 1, ok |-> TRUE, x |-> Self]

Peek(p, n) == IF p.ok /\ p.at + n <= Len(p.tokens) THEN p.tokens[p.at + n] ELSE "end"
Current(p) == Peek(p, 0)
Advance(p) == [p EXCEPT !.at = @ + 1]
Error(p) == [p EXCEPT !.ok = FALSE]
Consume(p, t) == IF Current(p) = t THEN Advance(p) ELSE Error(p)
Read(p, x) == [Advance(p) EXCEPT !.x = x]

\* q has read the argument of a message to the expression of p.
SendTo(p, sel, q) == [q EXCEPT !.x = Send(p.x, sel, <<@>>)]
SendOnly(p, sel) == [p EXCEPT !.x = Send(@, sel, <<>>)]

RECURSIVE MathExpression(_), MathUnary(_), MathNegation(_), SendChain(_)
RECURSIVE ProductOn(_), SumOn(_), ConjunctionOn(_), DisjunctionOn(_)

\* Sends after a receiver.  The arguments of a send here are one, or none.
SendChain(p) ==
  IF Current(p) # ":" THEN p
  ELSE IF Peek(p, 1) \notin Idents THEN Error(p)
  ELSE LET named == Advance(Advance(p))
           sel == Peek(p, 1)
       IN SendChain(IF Current(named) # "(" THEN SendOnly(named, sel)
                    ELSE IF Peek(named, 1) = ")" THEN SendOnly(Advance(Advance(named)), sel)
                    ELSE SendTo(p, sel, Consume(MathExpression(Advance(named)), ")")))

\* f(x) is x:f
MathCall(p) ==
  SendChain(SendOnly(Consume(MathExpression(Advance(Advance(p))), ")"), Current(p)))

\* A group may open with a temporary of its frame.
MathGroup(p) ==
  LET opened == Advance(p)
      temps == IF Current(opened) = "|" THEN <<Peek(opened, 1)>> ELSE <<>>
      past == IF temps = <<>> THEN opened
              ELSE IF temps[1] \in Idents THEN Consume(Advance(Advance(opened)), "|") ELSE Error(opened)
  IN [Consume(MathExpression(past), ")") EXCEPT !.x = Group(temps, <<@>>)]

Primary(p) ==
  CASE Current(p) \in Idents -> Read(p, Name(Current(p)))
    [] Current(p) \in Digits -> Read(p, Number(Value(Current(p))))
    [] Current(p) = "(" -> MathGroup(p)
    [] OTHER -> Error(p)

MathTerm(p) ==
  IF Current(p) \in Idents /\ Peek(p, 1) = "(" THEN MathCall(p) ELSE SendChain(Primary(p))

PowerOn(base) ==
  IF Current(base) # "^" THEN base ELSE SendTo(base, "pow", MathUnary(Advance(base)))

MathPower(p) == PowerOn(MathTerm(p))

\* -3 is a constant, when the 3 is what the minus applies to.
NegatedLiteral(p) == Current(p) \in Digits /\ Peek(p, 1) # "^"

\* Mutant of MathUnary: the minus takes the literal before the power does.
MathUnaryGreedy(p) ==
  IF Current(p) # "-" THEN MathPower(p)
  ELSE LET q == Advance(p) IN
       IF Current(q) \in Digits THEN Read(q, Number(0 - Value(Current(q))))
       ELSE SendOnly(MathUnary(q), "negated")

MathUnary(p) ==
  IF Current(p) # "-" THEN MathPower(p)
  ELSE LET q == Advance(p) IN
       IF NegatedLiteral(q) THEN Read(q, Number(0 - Value(Current(q))))
       ELSE SendOnly(MathUnary(q), "negated")

\* Operators of one level are taken from the left.
ProductOn(p) ==
  IF Current(p) \notin DOMAIN Products THEN p
  ELSE ProductOn(SendTo(p, Products[Current(p)], MathUnary(Advance(p))))

MathProduct(p) == ProductOn(MathUnary(p))

SumOn(p) ==
  IF Current(p) \notin DOMAIN Sums THEN p
  ELSE SumOn(SendTo(p, Sums[Current(p)], MathProduct(Advance(p))))

MathSum(p) == SumOn(MathProduct(p))

\* Comparisons do not chain.
Single(p) == IF Current(p) \in DOMAIN Comparisons THEN Error(p) ELSE p

ComparisonOn(p) ==
  IF Current(p) \notin DOMAIN Comparisons THEN p
  ELSE Single(SendTo(p, Comparisons[Current(p)], MathSum(Advance(p))))

MathComparison(p) == ComparisonOn(MathSum(p))

MathNegation(p) ==
  IF Current(p) # "~" THEN MathComparison(p)
  ELSE SendOnly(MathNegation(Advance(p)), "not")

ConjunctionOn(p) ==
  IF Current(p) # "&" THEN p
  ELSE ConjunctionOn([MathNegation(Advance(p)) EXCEPT !.x = Logical("and", p.x, @)])

MathConjunction(p) == ConjunctionOn(MathNegation(p))

DisjunctionOn(p) ==
  IF Current(p) # "|" THEN p
  ELSE DisjunctionOn([MathConjunction(Advance(p)) EXCEPT !.x = Logical("or", p.x, @)])

MathExpression(p) == DisjunctionOn(MathConjunction(p))

\* @expr(tokens): an expression and nothing after it.  The set of what it is read as.
MathDirective(tokens) ==
  LET p == MathExpression(Reader(tokens))
  IN IF p.ok /\ p.at = Len(tokens) + 1 THEN {p.x} ELSE {}

-----------------------------------------------------------------------------
(* The grammar of the region, as rules that derive expressions from the    *)
(* tokens i .. j, loosest first.                                           *)

Disjunction == 1
Conjunction == 2
Negation == 3
Comparison == 4
Sum == 5
Product == 6
Unary == 7
Power == 8
Term == 9

RECURSIVE Derived(_, _, _, _)

\* left op right, for every place the operator may stand.
Infixes(s, i, j, ops, left, right, Made(_, _, _)) ==
  UNION {{Made(s[k], a, b) : a \in Derived(s, left, i, k - 1), b \in Derived(s, right, k + 1, j)} :
           k \in {k \in i + 1 .. j - 1 : s[k] \in ops}}

Parenthesised(s, i, j) == IF i < j /\ s[i] = "(" /\ s[j] = ")" THEN Derived(s, Disjunction, i + 1, j - 1) ELSE {}

Terms(s, i, j) ==
  (IF i # j THEN {}
   ELSE IF s[i] \in Idents THEN {Name(s[i])}
   ELSE IF s[i] \in Digits THEN {Number(Value(s[i]))} ELSE {})
  \cup {Group(<<>>, <<x>>) : x \in Parenthesised(s, i, j)}
  \cup (IF j - i < 5 \/ s[i] # "(" \/ s[i + 1] # "|" \/ s[i + 2] \notin Idents \/ s[i + 3] # "|" \/ s[j] # ")"
        THEN {} ELSE {Group(<<s[i + 2]>>, <<x>>) : x \in Derived(s, Disjunction, i + 4, j - 1)})
  \cup (IF s[i] \in Idents THEN {Send(x, s[i], <<>>) : x \in Parenthesised(s, i + 1, j)} ELSE {})
  \cup UNION {{Send(to, s[k + 1], args) :
                 to \in Derived(s, Term, i, k - 1),
                 args \in IF k + 1 = j \/ (k + 3 = j /\ s[k + 2] = "(" /\ s[j] = ")") THEN {<<>>}
                          ELSE {<<x>> : x \in Parenthesised(s, k + 2, j)}} :
                k \in {k \in i + 1 .. j - 1 : s[k] = ":" /\ s[k + 1] \in Idents}}

Derived(s, level, i, j) ==
  LET tighter == Derived(s, level + 1, i, j) IN
  IF i > j THEN {}
  ELSE CASE level = Disjunction ->
              tighter \cup Infixes(s, i, j, {"|"}, Disjunction, Conjunction, LAMBDA op, a, b : Logical("or", a, b))
         [] level = Conjunction ->
              tighter \cup Infixes(s, i, j, {"&"}, Conjunction, Negation, LAMBDA op, a, b : Logical("and", a, b))
         [] level = Negation ->
              tighter \cup IF s[i] # "~" THEN {}
                           ELSE {Send(x, "not", <<>>) : x \in Derived(s, Negation, i + 1, j)}
         [] level = Comparison ->
              tighter \cup Infixes(s, i, j, DOMAIN Comparisons, Sum, Sum, LAMBDA op, a, b : Send(a, Comparisons[op], <<b>>))
         [] level = Sum ->
              tighter \cup Infixes(s, i, j, DOMAIN Sums, Sum, Product, LAMBDA op, a, b : Send(a, Sums[op], <<b>>))
         [] level = Product ->
              tighter \cup Infixes(s, i, j, DOMAIN Products, Product, Unary, LAMBDA op, a, b : Send(a, Products[op], <<b>>))
         [] level = Unary ->
              tighter \cup IF s[i] # "-" THEN {}
                           ELSE IF i + 1 = j /\ s[j] \in Digits THEN {Number(0 - Value(s[j]))}
                           ELSE {Send(x, "negated", <<>>) : x \in Derived(s, Unary, i + 1, j)}
         [] level = Power ->
              tighter \cup Infixes(s, i, j, {"^"}, Term, Unary, LAMBDA op, a, b : Send(a, "pow", <<b>>))
         [] level = Term -> Terms(s, i, j)

\* A negative literal that a message is sent to.
ChainsNegatedLiteral(s) ==
  \E k \in 1 .. Len(s) - 2 : s[k] = "-" /\ s[k + 1] \in Digits /\ s[k + 2] = ":"

=============================================================================
