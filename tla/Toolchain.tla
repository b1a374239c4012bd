------------------------------ MODULE Toolchain -------------------------------
(***************************************************************************)
(* A program on its way through solas and solvm: compiled to a chunk,      *)
(* verified and written to a file, read and verified again, and run.  A    *)
(* twin of the machine then runs the same program with no control message  *)
(* inlined.  A file may also be one that solas did not write, and an       *)
(* @expr region is compiled alone.                                         *)
(***************************************************************************)
EXTENDS Machine, Infix

CONSTANTS
  Programs,  \* scripts, as sequences of expressions
  Regions,   \* tokens of an @expr region
  Codes,     \* code of files from elsewhere
  Methods,   \* and the block such a file has
  MaxSteps   \* bound: instructions of a run

ASSUME ToolchainAssumption == MaxSteps \in Nat

VARIABLES source, file, machine, twin

vars == <<source, file, machine, twin>>

Off == [calls |-> <<>>, seen |-> <<>>, steps |-> 0, ended |-> <<"off">>]
Broken == [Off EXCEPT !.ended = <<"not compiled">>]
Refusal == [Off EXCEPT !.ended = <<"not accepted">>]

Going(m) == m.ended = <<>> /\ m.steps < MaxSteps

\* A file that solas did not write: one name, one block, a slot for a name.
Foreign(code, method) ==
  [Chunk EXCEPT !.code = code, !.lines = [i \in DOMAIN code |-> 1], !.names = <<"true">>,
                !.methods = <<method>>, !.slots = 2]

Script(s) ==
  IF s.kind = "program" THEN {s.program} ELSE {<<x>> : x \in MathDirective(s.tokens)}

Init ==
  /\ \/ \E p \in Programs : source = [kind |-> "program", program |-> p]
     \/ \E r \in Regions : source = [kind |-> "region", tokens |-> r]
     \/ \E c \in Codes, m \in Methods : source = [kind |-> "code", code |-> c, method |-> m]
  /\ file = <<>> /\ machine = Off /\ twin = Off

\* What there is to keep, and to run, of what was compiled.
Output(compiled) == IF compiled.ok THEN Saved(compiled.chunk) ELSE <<>>
Begun(compiled) == IF compiled.ok THEN Start(compiled.chunk) ELSE Broken

Keep(saved) == file' = saved /\ machine' = IF saved = <<>> THEN Broken ELSE Off

\* solas: compiles, and writes what the verifier accepts.
Write ==
  /\ file = <<>> /\ machine = Off
  /\ IF source.kind = "code"
     THEN LET chunk == Foreign(source.code, source.method)
          IN file' = <<chunk.slots>> \o Body(chunk) /\ machine' = Off
     ELSE \/ \E program \in Script(source) : Keep(Output(Compile(program, TRUE)))
          \/ Script(source) = {} /\ Keep(<<>>)
  /\ UNCHANGED <<source, twin>>

\* solvm: reads the file, verifies it, and starts.
Load ==
  /\ file # <<>> /\ machine = Off /\ source.kind # "region"
  /\ machine' = LET loaded == Loaded(file)
                IN IF loaded.read THEN Start(loaded.chunk) ELSE Refusal
  /\ UNCHANGED <<source, file, twin>>

Run ==
  /\ Going(machine)
  /\ machine' = Step(machine)
  /\ UNCHANGED <<source, file, twin>>

StartTwin ==
  /\ source.kind = "program" /\ twin = Off /\ machine # Off /\ ~Going(machine)
  /\ twin' = Begun(Compile(source.program, FALSE))
  /\ UNCHANGED <<source, file, machine>>

RunTwin ==
  /\ Going(twin)
  /\ twin' = Step(twin)
  /\ UNCHANGED <<source, file, machine>>

Next == Write \/ Load \/ Run \/ StartTwin \/ RunTwin

Spec == Init /\ [][Next]_vars

-----------------------------------------------------------------------------
(* Properties.                                                             *)

\* The stack of the frame that runs is as high as the verifier worked out for
\* the instruction it is at, whichever way it came there, and that is one the
\* verifier reached (serialize.c:666).
HeightsAgree ==
  \A m \in {machine, twin} :
    m.ended = <<>> => Heights(Running(m).chunk)[Running(m).ip] = Len(Running(m).stack)

Says(loaded, compiled) == loaded.read /\ loaded.chunk = compiled.chunk

\* What solas compiles is accepted by the verifier, a file says all of the chunk
\* it was written from, and no file that ends early is accepted (serialize.c:170, 556).
WrittenIsRead ==
  (source.kind = "program" /\ twin = Off /\ machine \in {Off, Broken}) =>
    /\ machine = Broken => ~Compile(source.program, TRUE).ok
    /\ file # <<>> =>
         /\ Says(Loaded(file), Compile(source.program, TRUE))
         /\ \A n \in 0 .. Len(file) - 1 : ~Loaded(SubSeq(file, 1, n)).read

\* Inlining is an optimisation: a program does the same assignments and ends the
\* same way, or with the same error, when its control messages are sent as
\* messages (compiler.c:1261).
MeaningPreserved ==
  (twin # Off /\ ~Going(twin)) =>
    /\ IsPrefix(machine.seen, twin.seen) \/ IsPrefix(twin.seen, machine.seen)
    /\ machine.ended # <<>> => IsPrefix(twin.seen, machine.seen)
    /\ twin.ended # <<>> => IsPrefix(machine.seen, twin.seen)
    /\ machine.ended # <<>> /\ twin.ended # <<>> => machine.ended = twin.ended

\* What the notation stands for.
RECURSIVE Spelled(_)
Spelled(x) ==
  LET all(xs) == [i \in DOMAIN xs |-> Spelled(xs[i])] IN
  CASE x.e = "send" -> Send(Spelled(x.to), x.sel, all(x.args))
    [] x.e = "group" -> Group(x.temps, all(x.body))
    [] x.e = "logical" -> Send(Spelled(x.left), x.sel, <<Block(<<>>, <<>>, <<Spelled(x.right)>>)>>)
    [] OTHER -> x

\* The region is notation: its tokens are read as its grammar derives them, and
\* compiled to the code of the messages that the operators stand for, `&` and `|`
\* as and and or with a block (compiler.c:693, 926).
NotationOnly ==
  (source.kind = "region" /\ <<file, machine>> # <<<<>>, Off>>) =>
    LET derived == Derived(source.tokens, Disjunction, 1, Len(source.tokens)) IN
    /\ Cardinality(derived) <= 1
    /\ file # <<>> <=> derived # {}
    /\ \A x \in derived : file = Saved(Compile(<<Spelled(x)>>, TRUE).chunk)

=============================================================================
