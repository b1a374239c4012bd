------------------------------- MODULE Dialect --------------------------------
(***************************************************************************)
(* The reader of parasol: a header of files used and forms declared, then  *)
(* statements, with the uses of the forms in them.                         *)
(*                                                                         *)
(* Source text is a tree in which the uses have not been told apart yet.   *)
(* A form is used as a call, name(x, y), or as a word and what follows it; *)
(* an item there is a word or an expression that is read whole.  A name is *)
(* a sequence; no name of a value is that of a form.                       *)
(***************************************************************************)
EXTENDS Integers, Sequences, FiniteSets, SequencesExt

CONSTANTS
  Headers,   \* what files may hold: functions to sequences of directives
  Bodies,    \* statements that may follow the header of Main
  Main,      \* the file parasol was given
  Absent,    \* files that are named and not there
  UseLimit   \* PARASOL_USE_LIMIT

VARIABLES
  header,   \* the directives of each file
  body,     \* the statements of Main
  using,    \* files whose header is being read, innermost last
  loaded,   \* files read, or being read
  forms,    \* forms declared, in order
  faults,   \* where something was in error
  told,     \* collisions that were warned about: the form and the one it meets
  stage,    \* "header", "body", then what becomes of the module
  next,     \* the statement that comes next
  tree      \* the module

reading == <<header, body, using, loaded, forms, faults, told>>

Node(kind, text, binds, children) ==
  [kind |-> kind, text |-> text, scope |-> 0, form |-> 0, binds |-> binds, children |-> children]

\* A sequence given by a function, worked out at once.
Made(children) == <<>> \o children

Bad == Node("bad", <<>>, <<>>, <<>>)

Init ==
  /\ header \in Headers /\ body \in Bodies
  /\ using = <<[file |-> Main, next |-> 1]>> /\ loaded = {Main}
  /\ forms = <<>> /\ faults = {} /\ told = {}
  /\ stage = "header" /\ next = 1 /\ tree = Node("sequence", <<>>, <<>>, <<>>)

-----------------------------------------------------------------------------
(* Uses.                                                                   *)

SameWord(p, q) == p.is_hole = q.is_hole /\ (p.is_hole \/ p.text = q.text)

Named(name) == {f \in DOMAIN forms : forms[f].name = name}

\* The last form under a name, which says how the name is used.
Macro(name) == IF Named(name) = {} THEN 0 ELSE CHOOSE f \in Named(name) : \A g \in Named(name) : g <= f
IsPattern(name) == Named(name) # {} /\ forms[Macro(name)].parts # <<>>

Longer(alive, at) == {f \in alive : Len(forms[f].parts) > at}
Ended(alive, at) == {f \in alive : Len(forms[f].parts) = at}
WantsHole(alive, at) == \E f \in Longer(alive, at) : forms[f].parts[at + 1].is_hole

\* Those that want the word that comes next.
Agreeing(alive, at, items) ==
  {f \in Longer(alive, at) :
     at < Len(items) /\ items[at + 1].kind = "word" /\ items[at + 1].text = forms[f].parts[at + 1].text}

\* The earliest of those that are left; every item has to be theirs.
Settle(alive, at, items) ==
  IF alive = {} \/ at < Len(items) THEN 0 ELSE CHOOSE f \in alive : \A g \in alive : f <= g

\* Every form under the word is followed at once, and drops out at the first word
\* that is not its own.
RECURSIVE Narrow(_, _, _)
Narrow(alive, at, items) ==
  IF Longer(alive, at) = {} THEN Settle(alive, at, items)
  ELSE IF WantsHole(alive, at)
       THEN IF at < Len(items) THEN Narrow(Longer(alive, at), at + 1, items) ELSE 0
  ELSE IF Agreeing(alive, at, items) # {} THEN Narrow(Agreeing(alive, at, items), at + 1, items)
  ELSE Settle(Ended(alive, at), at, items)

PatternUse(name, items) == Narrow(Named(name), 0, items)

\* A word in the place of a hole is read as an expression: as a name.
Expression(item) == IF item.kind = "word" THEN [item EXCEPT !.kind = "name"] ELSE item

Used(f, name, items) ==
  LET holes == SelectSeq([i \in DOMAIN items |-> i],
                         LAMBDA i : forms[f].parts = <<>> \/ forms[f].parts[i].is_hole)
  IN [Node("macro", name, <<>>, Made([h \in DOMAIN holes |-> Expression(items[holes[h]])])) EXCEPT !.form = f]

\* A word, and what follows it.  A name that is no form ends there, and so does a
\* form without holes.
WordUse(name, items) ==
  CASE IsPattern(name) ->
         IF PatternUse(name, items) = 0 THEN Bad ELSE Used(PatternUse(name, items), name, items)
    [] ~IsPattern(name) /\ Named(name) # {} ->
         IF items = <<>> /\ forms[Macro(name)].params = <<>> THEN Used(Macro(name), name, <<>>) ELSE Bad
    [] OTHER -> Bad

\* name(x, y): a call of a form, a group in the first hole of a pattern, or, when
\* no form has the name, a send to x.
CallUse(name, arguments) ==
  CASE IsPattern(name) ->
         IF Len(arguments) = 1 THEN WordUse(name, <<Node("sequence", <<>>, <<>>, arguments)>>) ELSE Bad
    [] ~IsPattern(name) /\ Named(name) # {} ->
         IF arguments # <<>> /\ Len(arguments) = Len(forms[Macro(name)].params)
         THEN Used(Macro(name), name, arguments) ELSE Bad
    [] OTHER -> IF Len(arguments) = 1 THEN Node("send", name, <<>>, arguments) ELSE Bad

Assignable(x) == x.kind = "name" \/ (x.kind = "send" /\ Len(x.children) = 1)

\* A node whose children have been read.
Finished(x) ==
  CASE \E i \in DOMAIN x.children : x.children[i].kind = "bad" -> Bad
    [] x.kind = "use" -> WordUse(x.text, x.children)
    [] x.kind = "call" -> CallUse(x.text, x.children)
    [] x.kind = "assign" /\ ~Assignable(x.children[1]) -> Bad
    [] OTHER -> x

RECURSIVE Read(_)
Read(x) == Finished([x EXCEPT !.children = Made([i \in DOMAIN x.children |-> Read(x.children[i])])])

-----------------------------------------------------------------------------
(* Directives.                                                             *)

Top == Last(using)
Past == [using EXCEPT ![Len(using)].next = @ + 1]
AtDirective == stage = "header" /\ Top.next <= Len(header[Top.file])
Directive == header[Top.file][Top.next]
Here == <<Top.file, Top.next>>

\* One error: what is left of the directive is passed over.
Refused ==
  /\ faults' = faults \cup {Here} /\ using' = Past
  /\ UNCHANGED <<loaded, forms, told>>

Reading(file) == \E i \in DOMAIN using : using[i].file = file

\* @use: the header of another file becomes part of this one, once.
UseFile ==
  /\ AtDirective /\ Directive.directive = "use"
  /\ LET file == Directive.file IN
     \/ /\ Len(using) >= UseLimit \/ file \in Absent \/ Reading(file)
        /\ Refused
     \/ /\ Len(using) < UseLimit /\ file \in loaded /\ ~Reading(file)
        /\ using' = Past /\ UNCHANGED <<loaded, forms, faults, told>>
     \/ /\ Len(using) < UseLimit /\ file \notin Absent \cup loaded
        /\ using' = Append(Past, [file |-> file, next |-> 1])
        /\ loaded' = loaded \cup {file}
        /\ UNCHANGED <<forms, faults, told>>
  /\ UNCHANGED <<header, body, stage, next, tree>>

\* Two holes in a row want the second to be a block.
HolesApart(parts) ==
  \A i \in DOMAIN parts :
    (i > 1 /\ parts[i].is_hole /\ parts[i - 1].is_hole) => parts[i].accepts = "block"

RECURSIVE Binders(_)
Binders(x) == ToSet(x.binds) \cup UNION {Binders(x.children[i]) : i \in DOMAIN x.children}

\* Two patterns part company at a word.
ToldApart(p, q) ==
  \A i \in DOMAIN p \cap DOMAIN q :
    (\A j \in 1 .. i - 1 : SameWord(p[j], q[j])) => p[i].is_hole = q[i].is_hole

\* Mutant of Distinguishable: forms are told apart by their shapes only.
DistinguishableByShape(form) ==
  \A f \in Named(form.name) : (forms[f].parts = <<>>) = (form.parts = <<>>)

Distinguishable(form) ==
  \A f \in Named(form.name) :
    /\ (forms[f].parts = <<>>) = (form.parts = <<>>)
    /\ ToldApart(forms[f].parts, form.parts)

SameShape(p, q) == Len(p) = Len(q) /\ \A i \in DOMAIN p : SameWord(p[i], q[i])

\* The form a new one meets: the latest of its name and shape, if any.
Displaced(form) ==
  LET same == {f \in Named(form.name) : SameShape(forms[f].parts, form.parts)}
  IN {f \in same : \A g \in same : g <= f}

Declared(form) ==
  /\ forms' = Append(forms, form)
  /\ faults' = faults \cup {Here : f \in {f \in Displaced(form) : Top.file = Main /\ forms[f].from = Main}}
  /\ told' = told \cup {<<Len(forms) + 1, f>> : f \in {f \in Displaced(form) : Top.file # Main}}

Stands(form) ==
  /\ HolesApart(form.parts) /\ form.template.kind # "bad"
  /\ Binders(form.template) \cap ToSet(form.params) = {}
  /\ Distinguishable(form)

\* @syntax: the template is read under the header as it is here.
Declare ==
  /\ AtDirective /\ Directive.directive = "syntax"
  /\ LET form == [Directive.form EXCEPT !.template = Read(Directive.form.template), !.from = Top.file] IN
     \/ Stands(form) /\ Declared(form) /\ using' = Past /\ UNCHANGED loaded
     \/ ~Stands(form) /\ Refused
  /\ UNCHANGED <<header, body, stage, next, tree>>

EndOfHeader ==
  /\ stage = "header" /\ Top.next > Len(header[Top.file])
  /\ using' = Front(using)
  /\ stage' = IF Len(using) = 1 THEN "body" ELSE "header"
  /\ UNCHANGED <<header, body, loaded, forms, faults, told, next, tree>>

-----------------------------------------------------------------------------
(* Statements.                                                             *)

Statement ==
  /\ stage = "body" /\ next <= Len(body)
  /\ LET x == Read(body[next]) IN
     IF x.kind = "bad"
     THEN faults' = faults \cup {<<"body", next>>} /\ tree' = tree
     ELSE tree' = [tree EXCEPT !.children = Append(@, x)] /\ faults' = faults
  /\ next' = next + 1
  /\ UNCHANGED <<header, body, using, loaded, forms, told, stage>>

\* A module with an error in it is not expanded.
EndOfModule ==
  /\ stage = "body" /\ next > Len(body)
  /\ stage' = IF faults = {} THEN "expand" ELSE "refused"
  /\ next' = 1
  /\ UNCHANGED <<reading, tree>>

ReaderNext == UseFile \/ Declare \/ EndOfHeader \/ Statement \/ EndOfModule

-----------------------------------------------------------------------------
(* Properties.                                                             *)

RECURSIVE Uses(_)
Uses(x) ==
  (IF x.kind = "use" THEN {x} ELSE {}) \cup UNION {Uses(x.children[i]) : i \in DOMAIN x.children}

Fits(f, items) ==
  /\ Len(forms[f].parts) = Len(items)
  /\ \A i \in DOMAIN items :
       forms[f].parts[i].is_hole \/ (items[i].kind = "word" /\ items[i].text = forms[f].parts[i].text)

\* A form that is longer, and takes what follows for a hole of its own whatever
\* follows: the reader gives up the ones that end there.
Swallowed(name, items) ==
  \E f \in Named(name) : LET parts == forms[f].parts IN
    /\ Len(parts) > Len(items) /\ parts[Len(items) + 1].is_hole
    /\ \A i \in DOMAIN items : parts[i].is_hole \/ parts[i].text = items[i].text

\* What follows a word is read as a form that it fits from end to end, whenever
\* there is one, and there are never two such forms that are spelled differently
\* (reader.c:422 refuses them, and reader.c:864 matches without backtracking).
UsesSettled ==
  stage # "header" => \A x \in UNION {Uses(body[i]) : i \in DOMAIN body} :
    LET fitting == {f \in Named(x.text) : Fits(f, x.children)}
        chosen == PatternUse(x.text, x.children) IN
    (Macro(x.text) # 0 /\ forms[Macro(x.text)].parts # <<>>) =>
      /\ chosen # 0 => chosen \in fitting
      /\ fitting # {} => chosen # 0 \/ Swallowed(x.text, x.children)
      /\ \A f, g \in fitting : SameShape(forms[f].parts, forms[g].parts)

\* A form that meets another one of its name and shape is told of, or, when both
\* are this module's and nothing came between them, in error; only a form that this
\* module declares over a file that it uses is not mentioned (reader.c:144).
CollisionsTold ==
  \A f, g \in DOMAIN forms :
    (g < f /\ forms[f].name = forms[g].name /\ SameShape(forms[f].parts, forms[g].parts)) =>
      \/ \E h \in g .. f - 1 : <<f, h>> \in told
      \/ forms[f].from = Main /\ forms[g].from = Main /\ faults # {}
      \/ forms[f].from = Main /\ \E h \in g .. f - 1 : forms[h].from # Main

===============================================================================
