------------------------------- MODULE Include --------------------------------
(***************************************************************************)
(* @include in solas: files found beside their includer or on the search   *)
(* path, compiled once each into one chunk, and told of the globals that   *)
(* two of them claim.                                                      *)
(*                                                                         *)
(* A path is a directory and a name in it; several paths may lead to one   *)
(* file.  A file's text is a sequence of statements: an include, a global  *)
(* claimed (g := 1) or updated (g := g:add(1)), or one that does not parse.*)
(***************************************************************************)
EXTENDS Integers, Sequences, FiniteSets, SequencesExt

CONSTANTS
  Global,       \* names that files bind
  Options,      \* directories given with -I, in order
  Environment,  \* those of SOLUM_PATH
  Shipped,      \* the library beside the binary, and the installed one
  Missing,      \* what is at a path where there is no file
  Layouts,      \* what paths may lead to: functions to a file or Missing
  Texts,        \* what files may hold: functions to sequences of statements
  Main,         \* the path that solas was given
  Limits        \* values of SOL_MAX_INCLUDE_DEPTH

VARIABLES
  at,        \* what each path leads to
  text,      \* the text of each file
  limit,     \* SOL_MAX_INCLUDE_DEPTH
  reading,      \* the files being compiled, innermost last
  included,  \* files compiled, or being compiled
  bound,     \* the path that claimed each global last
  ended,     \* "no", or whether the compilation "failed" or "succeeded"
  emitted,   \* history: statements compiled, in order
  warnings,  \* history: statements warned about
  errors     \* history: statements that failed

vars == <<at, text, limit, reading, included, bound, ended, emitted, warnings, errors>>

\* The directories that are searched, in order.
Search == Options \o Environment \o Shipped

\* Every layout tells of all paths that an include may stand for, and every file is
\* a sequence of statements.
IncludeAssumption ==
  /\ Search \in Seq(Range(Search))
  /\ \A l \in Layouts : Main \in DOMAIN l /\ Missing \notin DOMAIN l
  /\ \A l \in Layouts, t \in Texts : \A p \in {p \in DOMAIN l : l[p] # Missing} :
       /\ t[l[p]] \in Seq(Range(t[l[p]]))
       /\ \A s \in Range(t[l[p]]) :
            /\ s.s = "include" => \A d \in {p[1]} \cup Range(Search) : <<d, s.name>> \in DOMAIN l
            /\ s.s \in {"claim", "update"} => s.g \in Global

\* The path an include of name in the file at path stands for: beside that file,
\* else where it can first be read, else beside it for the error to name.
Resolve(path, name) ==
  LET beside == <<path[1], name>>
      readable == {i \in DOMAIN Search : at[<<Search[i], name>>] # Missing}
  IN IF at[beside] # Missing \/ readable = {} THEN beside
     ELSE <<Search[CHOOSE i \in readable : \A j \in readable : i <= j], name>>

File(path) == [path |-> path, file |-> at[path], next |-> 1, had_error |-> FALSE]

Init ==
  /\ at \in Layouts /\ at[Main] # Missing
  /\ text \in Texts
  /\ limit \in Limits
  /\ reading = <<File(Main)>>
  /\ included = {at[Main]}     \* its own file counts
  /\ bound = [g \in Global |-> Missing]
  /\ ended = "no"
  /\ emitted = <<>> /\ warnings = {} /\ errors = {}

-----------------------------------------------------------------------------
Top == Last(reading)
More == reading # <<>> /\ Top.next <= Len(text[Top.file])
Statement == text[Top.file][Top.next]
Here == <<Top.file, Top.next>>

\* n statements on.
Past(n) == [reading EXCEPT ![Len(reading)].next = @ + n]

\* One error: the file is compiled on behind the next '.' that is not read yet.
Failed(n) ==
  /\ reading' = [Past(n) EXCEPT ![Len(reading)].had_error = TRUE]
  /\ errors' = errors \cup {Here}
  /\ UNCHANGED <<included, emitted, warnings>>

Noted(g) == bound[g] # Missing /\ bound[g] # Top.path

\* A global assigned.  A file that did not read it claims it, and one that takes
\* it over from another is told.
Assign ==
  /\ More /\ Statement.s \in {"claim", "update"}
  /\ LET g == Statement.g IN
     /\ bound' = IF Statement.s = "claim" THEN [bound EXCEPT ![g] = Top.path] ELSE bound
     /\ warnings' = warnings \cup IF Statement.s = "claim" /\ Noted(g) THEN {Here} ELSE {}
  /\ emitted' = Append(emitted, Here)
  /\ reading' = Past(1)
  /\ UNCHANGED <<at, text, limit, included, ended, errors>>

\* What does not parse fails before its '.'.
Bad ==
  /\ More /\ Statement.s = "bad"
  /\ Failed(1)
  /\ UNCHANGED <<at, text, limit, bound, ended>>

\* Mutant of IncludeFile: a file is remembered when it has been compiled.
IncludeFileUnremembered(path) ==
  /\ reading' = Append(Past(1), File(path))
  /\ UNCHANGED <<included, emitted, warnings, errors>>

IncludeFile(path) ==
  /\ included' = included \cup {at[path]}   \* before it is compiled: a cycle ends here
  /\ reading' = Append(Past(1), File(path))
  /\ UNCHANGED <<emitted, warnings, errors>>

\* The '.' behind an include is read before anything else, so when it is refused what
\* is passed over is the next statement.
Include ==
  /\ More /\ Statement.s = "include"
  /\ LET path == Resolve(Top.path, Statement.name) IN
     \/ /\ at[path] \in included
        /\ warnings' = warnings \cup IF at[path] = Top.file THEN {Here} ELSE {}
        /\ reading' = Past(1)
        /\ UNCHANGED <<included, emitted, errors>>
     \/ /\ at[path] \notin included
        /\ Len(reading) > limit \/ at[path] = Missing
        /\ Failed(2)
     \/ /\ at[path] \notin included
        /\ Len(reading) <= limit /\ at[path] # Missing
        /\ IncludeFile(path)
  /\ UNCHANGED <<at, text, limit, bound, ended>>

\* The end of a file: what failed in it has failed in the one that included it.
EndOfFile ==
  /\ reading # <<>> /\ Top.next > Len(text[Top.file])
  /\ LET left == Front(reading) IN
     IF left = <<>>
     THEN reading' = left /\ ended' = IF Top.had_error THEN "failed" ELSE "succeeded"
     ELSE reading' = [left EXCEPT ![Len(left)].had_error = @ \/ Top.had_error] /\ ended' = ended
  /\ UNCHANGED <<at, text, limit, included, bound, emitted, warnings, errors>>

Next == Assign \/ Bad \/ Include \/ EndOfFile

Spec == Init /\ [][Next]_vars

-----------------------------------------------------------------------------
(* Properties.                                                             *)

Assigns(file, i) == text[file][i].s \in {"claim", "update"}

\* A statement is compiled once, however many paths lead to its file and however
\* files include one another.
CompiledOnce == \A i, j \in DOMAIN emitted : emitted[i] = emitted[j] => i = j

\* The statement behind a refused include.
PassedOver(f, i) == i > 1 /\ <<f, i - 1>> \in errors /\ text[f][i - 1].s = "include"

\* What comes after an include may use everything that the file assigns, unless
\* the file is in the middle of including the one that asks, or was refused.
IncludedIsThere ==
  \A o \in Range(reading) : \A i \in {i \in DOMAIN text[o.file] : i < o.next} :
    (text[o.file][i].s = "include" /\ <<o.file, i>> \notin errors /\ ~PassedOver(o.file, i)) =>
      LET f == at[Resolve(o.path, text[o.file][i].name)] IN
      \/ f \in {p.file : p \in Range(reading)}
      \/ \A j \in {j \in DOMAIN text[f] : Assigns(f, j)} : <<f, j>> \in Range(emitted) \/ PassedOver(f, j)

\* A refused include takes the statement behind it with it: nothing is compiled of
\* that, and nothing said of it.
RefusedTakesNext == \A s \in Range(emitted) \cup warnings \cup errors : ~PassedOver(s[1], s[2])

\* The statements that claim g, and those of them that take it over from the file
\* that claimed it last.
Claims(e, g) == text[e[1]][e[2]].s = "claim" /\ text[e[1]][e[2]].g = g

Takes(i, g) ==
  /\ Claims(emitted[i], g)
  /\ \E j \in 1 .. i - 1 :
       /\ Claims(emitted[j], g) /\ emitted[j][1] # emitted[i][1]
       /\ \A k \in j + 1 .. i - 1 : ~Claims(emitted[k], g)

\* Claims are warned about exactly when the last claim of the name was another
\* file's.
HandoversTold ==
  {w \in warnings : Assigns(w[1], w[2])}
    = {emitted[i] : i \in {i \in DOMAIN emitted : \E g \in Global : Takes(i, g)}}

\* Files are compiled as though their text stood where they are first included,
\* once each, without what is behind a refused include; takeovers of a name are told,
\* and a failure in any file is the failure of the compilation (compiler.c:1673,
\* 1956, 2058, 2193).
IncludesKept ==
  /\ CompiledOnce
  /\ IncludedIsThere
  /\ RefusedTakesNext
  /\ HandoversTold
  /\ ended # "no" => (ended = "failed" <=> errors # {})

===============================================================================
