------------------------------- MODULE MCTools --------------------------------
(* The tools, in one run: programs on their way through solas and solvm,     *)
(* files included by solas, a program under solid, modules of parasol, and   *)
(* what is typed.  They share nothing here, so a behaviour moves one of them. *)
EXTENDS MCToolchain, Tools, TLC

VARIABLES
  header, body, using, loaded, forms, faults, told, stage, next, tree, scope, used, captures,   \* of Expand
  part                                                                          \* what moves

Renamed == Permutations(Line)

-----------------------------------------------------------------------------
(* Include: the directory of the program and one that is searched, each    *)
(* with two names that may lead to any of three files or to none.          *)

Includes(n) == [s |-> "include", name |-> n]
Claims == [s |-> "claim", g |-> "x"]
Updates == [s |-> "update", g |-> "x"]
Unparsed == [s |-> "bad"]

MCMain == <<"app", "a">>
MCShipped == <<"lib">>
MCNowhere == <<>>

MCLayouts ==
  {l \in [{"app", "lib"} \X {"a", "b"} -> {"f", "g", "h", Missing}] : l[MCMain] = "f"}

MCTexts ==
  {("f" :> f) @@ ("g" :> g) @@ ("h" :> h) :
     f \in {<<s, t>> : s, t \in {Includes("a"), Includes("b"), Claims}}
           \cup {<<Includes("b"), Claims, Includes("a"), Updates, Claims>>},
     g \in {<<>>, <<Claims>>, <<Updates, Includes("a")>>, <<Unparsed, Claims, Includes("b")>>,
            <<Includes("b"), Claims>>, <<Includes("a"), Includes("b"), Claims>>},
     h \in {<<Claims>>, <<Includes("a"), Unparsed>>, <<Includes("b"), Claims>>,
            <<Claims, Includes("a"), Claims>>}}

-----------------------------------------------------------------------------
F == INSTANCE MCForms WITH
       Headers <- {}, Bodies <- {}, Main <- "main", Absent <- {"gone"}, UseLimit <- 3

P == INSTANCE Expand WITH
       Headers <- F!MCHeaders, Bodies <- F!MCBodies, Main <- "main", Absent <- {"gone"}, UseLimit <- 3

including == <<at, text, limit, reading, included, bound, ended, emitted, warnings, errors>>
debugging == <<stack, entered, last, solid, breaks, doing, asked, came>>
typing == <<terminal, typed, newlines, driver, hungup, window, raw, reader, taken, lost>>
expanding == <<header, body, using, loaded, forms, faults, told, stage, next, tree, scope, used, captures>>

\* What does not move begins in one of its initial states.
MCInit ==
  /\ part \in {"toolchain", "including", "debugging", "expanding", "typing"}
  /\ IF part = "toolchain" THEN Init
     ELSE source = [kind |-> "region", tokens |-> <<>>] /\ file = <<>> /\ machine = Off /\ twin = Off
  /\ IF part = "including" THEN I!Init
     ELSE /\ at = (CHOOSE l \in MCLayouts : TRUE) /\ text = (CHOOSE t \in MCTexts : TRUE) /\ limit = 1
          /\ I!Init
  /\ IF part = "expanding" THEN P!ExpandInit
     ELSE /\ header = <<>> /\ body = <<>> /\ using = <<>> /\ loaded = {} /\ forms = <<>> /\ faults = {}
          /\ told = {} /\ stage = "header" /\ next = 1 /\ tree = <<>> /\ scope = 0 /\ used = {} /\ captures = {}
  /\ D!Init
  /\ part # "debugging" => stack[1].line = CHOOSE l \in Line : TRUE
  /\ T!Init
  /\ part # "typing" => terminal

MCNext ==
  \/ part = "toolchain" /\ Next /\ UNCHANGED <<including, debugging, expanding, typing, part>>
  \/ part = "including" /\ I!Next /\ UNCHANGED <<vars, debugging, expanding, typing, part>>
  \/ part = "debugging" /\ D!Next /\ UNCHANGED <<vars, including, expanding, typing, part>>
  \/ part = "expanding" /\ P!Next /\ UNCHANGED <<vars, including, debugging, typing, part>>
  \/ part = "typing" /\ T!Next /\ UNCHANGED <<vars, including, debugging, expanding, part>>

MCSpec == MCInit /\ [][MCNext]_<<vars, including, debugging, expanding, typing, part>>

FormsKept == P!FormsKept
===============================================================================
