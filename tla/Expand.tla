-------------------------------- MODULE Expand --------------------------------
(***************************************************************************)
(* The expander of parasol: every use of a form replaced by its template,  *)
(* the arguments in their places and the names the template binds made     *)
(* fresh; then the locals that a template's own names would meet renamed.  *)
(*                                                                         *)
(* t__1 is <<"t", 1>> here, and is what it is spelled like: a program may  *)
(* have written it.                                                        *)
(***************************************************************************)
EXTENDS Dialect

VARIABLES
  scope,     \* expansions so far; 0 is what a person wrote
  used,      \* names that are not fresh
  captures   \* locals to rename: where their block is, and which one

vars == <<header, body, using, loaded, forms, faults, told, stage, next, tree, scope, used, captures>>
expander == <<scope, used, captures>>

-----------------------------------------------------------------------------
(* Fresh names.                                                            *)

RECURSIVE Names(_)
Names(x) ==
  (IF x.kind = "name" THEN {x.text} ELSE {}) \cup ToSet(x.binds)
  \cup UNION {Names(x.children[i]) : i \in DOMAIN x.children}

Syntax(file) == {i \in DOMAIN header[file] : header[file][i].directive = "syntax"}

\* Every name in every file that was read, as written.
NamesWritten ==
  UNION {Names(body[i]) : i \in DOMAIN body}
  \cup UNION {UNION {Names(header[f][i].form.template) \cup ToSet(header[f][i].form.params) :
                       i \in Syntax(f)} : f \in loaded}

FreshName(base, taken) ==
  LET free == {n \in 1 .. Cardinality(taken) + 1 : Append(base, n) \notin taken}
  IN Append(base, CHOOSE n \in free : \A m \in free : n <= m)

-----------------------------------------------------------------------------
(* Expansion.  An expansion under way is a node and what the expander has. *)

RenamedBy(to, name) == IF name \in DOMAIN to THEN to[name] ELSE name

Parameter(params, name) == {i \in DOMAIN params : params[i] = name}

\* The template, copied: a parameter is its argument as it is, all else is of this
\* expansion.
RECURSIVE Instantiate(_, _, _, _, _)
Instantiate(x, params, arguments, to, in) ==
  IF x.kind = "name" /\ Parameter(params, x.text) # {}
  THEN arguments[CHOOSE i \in Parameter(params, x.text) : TRUE]
  ELSE [x EXCEPT !.scope = in,
                 !.text = IF x.kind = "name" THEN RenamedBy(to, x.text) ELSE @,
                 !.binds = Made([i \in DOMAIN @ |-> RenamedBy(to, x.binds[i])]),
                 !.children = Made([i \in DOMAIN @ |-> Instantiate(x.children[i], params, arguments, to, in)])]

Satisfies(x, kind) ==
  CASE kind = "expression" -> TRUE
    [] kind = "place" -> Assignable(x)
    [] OTHER -> x.kind = kind

\* Whether the arguments are what the holes want, now that they are expanded.
ArgumentsFit(form, arguments) ==
  \A i \in DOMAIN arguments : Satisfies(arguments[i], form.kinds[i])

\* The binders of a template and what this expansion calls them.
Freshly(form, taken) == [b \in Binders(form.template) |-> FreshName(b, taken)]

RECURSIVE ExpandNode(_)

ExpandChild(e, i) ==
  LET child == ExpandNode([e EXCEPT !.node = e.node.children[i]])
  IN [child EXCEPT !.node = [e.node EXCEPT !.children[i] = child.node]]

ExpandChildren(e) == FoldLeft(ExpandChild, e, [i \in DOMAIN e.node.children |-> i])

\* One use, its arguments expanded, becomes the instance of its template.
Instance(e, form, to) ==
  [node |-> Instantiate(form.template, form.params, e.node.children, to, e.scope + 1),
   scope |-> e.scope + 1,
   used |-> e.used \cup {to[b] : b \in DOMAIN to},
   failed |-> e.failed \/ ~ArgumentsFit(form, e.node.children)]

ExpandMacro(e) == ExpandNode(Instance(e, forms[e.node.form], Freshly(forms[e.node.form], e.used)))

Expanded(e) == IF e.node.kind = "macro" THEN ExpandMacro(e) ELSE e

\* Arguments first, so that one that is used twice is not expanded twice.
ExpandNode(e) == Expanded(ExpandChildren(e))

\* The names in use are collected before the first statement is expanded.
Taken == IF next = 1 THEN NamesWritten ELSE used

Expand ==
  /\ stage = "expand" /\ next <= Len(tree.children)
  /\ LET e == ExpandNode([node |-> tree.children[next], scope |-> scope, used |-> Taken, failed |-> FALSE]) IN
     /\ tree' = [tree EXCEPT !.children[next] = e.node]
     /\ scope' = e.scope /\ used' = e.used
     /\ faults' = IF e.failed THEN faults \cup {<<"expansion", next>>} ELSE faults
  /\ next' = next + 1
  /\ UNCHANGED <<header, body, using, loaded, forms, told, stage, captures>>

-----------------------------------------------------------------------------
(* Locals of a person's that a template's names would meet.                *)

Frame(x, at) == [at |-> at, binds |-> ToSet(x.binds), scope |-> x.scope]

\* Mutant of Caught: only the innermost frame gives way.
CaughtInnermost(x, frames) ==
  {frames[i] : i \in {i \in DOMAIN frames :
     /\ x.text \in frames[i].binds /\ frames[i].scope = 0
     /\ \A j \in i + 1 .. Len(frames) : x.text \notin frames[j].binds}}

\* Outward from a template's name to the template's own local, if it has one,
\* every frame that a person wrote and that binds the name.
Caught(x, frames) ==
  {frames[i] : i \in {i \in DOMAIN frames :
     /\ x.text \in frames[i].binds /\ frames[i].scope = 0
     /\ \A j \in i .. Len(frames) : x.text \in frames[j].binds => frames[j].scope # x.scope}}

RECURSIVE FindCaptures(_, _, _)
FindCaptures(x, frames, at) ==
  (IF x.kind = "name" /\ x.scope # 0
   THEN {[at |-> f.at, name |-> x.text] : f \in Caught(x, frames)} ELSE {})
  \cup UNION {FindCaptures(x.children[i], IF x.kind = "block" THEN Append(frames, Frame(x, at)) ELSE frames,
                           Append(at, i)) : i \in DOMAIN x.children}

\* An expansion that failed goes no further.
Protect ==
  /\ stage = "expand" /\ next > Len(tree.children)
  /\ stage' = IF faults = {} THEN "protect" ELSE "refused"
  /\ captures' = IF faults = {} THEN FindCaptures(tree, <<>>, <<>>) ELSE {}
  /\ UNCHANGED <<reading, next, tree, scope, used>>

\* What the renamed binding owns: the names of its own origin, down to where one
\* of that origin binds the name anew.
RECURSIVE RenameIn(_, _, _, _)
RenameIn(x, from, to, of) ==
  IF x.kind = "block" /\ x.scope = of /\ from \in ToSet(x.binds) THEN x
  ELSE [x EXCEPT !.text = IF x.kind = "name" /\ x.scope = of /\ @ = from THEN to ELSE @,
                 !.children = Made([i \in DOMAIN @ |-> RenameIn(x.children[i], from, to, of)])]

RenameBinder(x, from, to) ==
  [x EXCEPT !.binds = Made([i \in DOMAIN @ |-> IF @[i] = from THEN to ELSE @[i]]),
            !.children = Made([i \in DOMAIN @ |-> RenameIn(x.children[i], from, to, x.scope)])]

RECURSIVE RenameAt(_, _, _, _)
RenameAt(x, at, from, to) ==
  IF at = <<>> THEN RenameBinder(x, from, to)
  ELSE [x EXCEPT !.children[Head(at)] = RenameAt(x.children[Head(at)], Tail(at), from, to)]

\* In any order: which is renamed first decides the numbers and nothing else.
Rename ==
  /\ stage = "protect"
  /\ \E c \in captures :
       /\ tree' = RenameAt(tree, c.at, c.name, FreshName(c.name, used))
       /\ used' = used \cup {FreshName(c.name, used)}
       /\ captures' = captures \ {c}
  /\ UNCHANGED <<reading, stage, next, scope>>

RECURSIVE Assignments(_)
Assignments(x) ==
  (IF x.kind = "assign" THEN {x} ELSE {}) \cup UNION {Assignments(x.children[i]) : i \in DOMAIN x.children}

\* What the reader could not tell before expansion: that a target is a place.
Validate ==
  /\ stage = "protect" /\ captures = {}
  /\ stage' = IF \A x \in Assignments(tree) : Assignable(x.children[1]) THEN "written" ELSE "refused"
  /\ UNCHANGED <<reading, next, tree, expander>>

ExpandInit == Init /\ scope = 0 /\ used = {} /\ captures = {}

Next == (ReaderNext /\ UNCHANGED expander) \/ Expand \/ Protect \/ Rename \/ Validate

Spec == ExpandInit /\ [][Next]_vars

-----------------------------------------------------------------------------
(* What the names of a program mean.  The reference puts templates in and  *)
(* renames nothing: there a name is that of the place it was written in,   *)
(* which is the expansion it is of, and means the nearest binding from     *)
(* there, or the global.  An expansion is known by where it is, and by its *)
(* form.                                                                   *)

RECURSIVE Put(_, _, _, _)
Put(x, params, arguments, in) ==
  IF x.kind = "name" /\ Parameter(params, x.text) # {}
  THEN arguments[CHOOSE i \in Parameter(params, x.text) : TRUE]
  ELSE [x EXCEPT !.scope = in, !.children = Made([i \in DOMAIN @ |-> Put(x.children[i], params, arguments, in)])]

RECURSIVE Plain(_, _)
PutIn(x, at) ==
  IF x.kind # "macro" THEN x
  ELSE Plain(Put(forms[x.form].template, forms[x.form].params, x.children, <<x.form>> \o at), Append(at, 0))
Plain(x, at) ==
  PutIn([x EXCEPT !.children = Made([i \in DOMAIN @ |-> Plain(x.children[i], Append(at, i))])], at)

\* The binding a name means: the block, and which of its locals; or a global.
Means(x, frames, apart) ==
  LET own == {i \in DOMAIN frames : /\ x.text \in ToSet(frames[i].binds)
                                    /\ apart => frames[i].scope = x.scope}
      frame == frames[CHOOSE i \in own : \A j \in own : j <= i]
  IN IF own = {} THEN [global |-> x.text]
     ELSE [block |-> frame.at, local |-> CHOOSE i \in DOMAIN frame.binds : frame.binds[i] = x.text]

\* Every name of a tree: where it is, what it is, and what it means.
RECURSIVE Meanings(_, _, _, _)
Meanings(x, frames, at, apart) ==
  (IF x.kind = "name" THEN {[at |-> at, is |-> x, means |-> Means(x, frames, apart)]} ELSE {})
  \cup UNION {Meanings(x.children[i],
                      IF x.kind = "block" THEN Append(frames, [at |-> at, binds |-> x.binds, scope |-> x.scope])
                      ELSE frames,
                      Append(at, i), apart) : i \in DOMAIN x.children}

\* A template's name for a global that the template binds somewhere else as well:
\* instantiate renames by name alone (expand.c:149), and this one with the rest.
BoundElsewhere(x) ==
  x.scope # <<>> /\ x.text \in Binders(forms[Head(x.scope)].template)

\* What a person wrote is of no expansion.
Meant(i) == Meanings(Plain(Put(Read(body[i]), <<>>, <<>>, <<>>), <<i>>), <<>>, <<>>, TRUE)
Written(i) == Meanings(tree.children[i], <<>>, <<>>, FALSE)

\* A name's meaning, as it is spelled, is the one it was written with.
Kept(i, m) == \E w \in Written(i) : w.at = m.at /\ w.means = m.means

\* A template's own names mean its own locals and globals, an argument's what
\* they mean where the use stands, wherever the two come to lie within one
\* another (expand.c:329 and 458).  A global that the template binds elsewhere is
\* not among them.
NamesKept ==
  stage = "written" => \A i \in DOMAIN tree.children :
    /\ {m.at : m \in Meant(i)} = {w.at : w \in Written(i)}
    /\ \A m \in Meant(i) : Kept(i, m) \/ (BoundElsewhere(m.is) /\ m.means = [global |-> m.is.text])

\* Uses are read as the declarations say, and their expansions keep the meaning
\* of every name.
FormsKept == UsesSettled /\ CollisionsTold /\ NamesKept

===============================================================================
