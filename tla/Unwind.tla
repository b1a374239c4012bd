-------------------------------- MODULE Unwind --------------------------------
(***************************************************************************)
(* How a run of the machine fails, exits, is stopped, and is put right     *)
(* again on the way out: the flags had_error, exiting and stopped, the     *)
(* four answers of run_frames, the step and memory limits, and the two     *)
(* primitives that intervene, onError and ensure.                          *)
(*                                                                         *)
(* Frames says where the activations are; here a run_frames call is only   *)
(* the C code that waits for it.  Failures are numbered in the order they  *)
(* are raised, an exit's number standing for its status code, so that what *)
(* becomes of each can be followed.  No debugger is attached.              *)
(***************************************************************************)
EXTENDS Integers, Sequences, SequencesExt, FiniteSets

CONSTANTS
  StepLimit,      \* vm->step_limit; 0 lifts it
  Wrap,           \* the step counter's modulus, 2^64
  MemoryLimited,  \* a memory limit is set, and may be met at any allocation
  MaxCalls,       \* bound: run_frames calls in progress at once
  MaxFailures,    \* bound: failures raised in one run
  MaxLate,        \* bound: elements still to render when a failure comes
  MaxSteps        \* bound: instructions of one run, above what a limit allows

ASSUME UnwindAssumption ==
  /\ Wrap \in Nat \ {0, 1}
  /\ StepLimit \in Nat
  /\ MemoryLimited \in BOOLEAN
  /\ MaxCalls \in Nat
  /\ MaxFailures \in Nat
  /\ MaxLate \in Nat
  /\ MaxSteps \in Nat
  /\ StepLimit + MaxLate <= Wrap - 2
  /\ StepLimit + MaxLate < MaxSteps

VARIABLES
  calls,      \* the C code waiting for a run_frames call, outermost first
  vm,         \* had_error, exiting, stopped, exit_code and error_message
  stepsLeft,  \* vm->steps_remaining
  pc,         \* "idle", "dispatch" an instruction, or "answer" to the C caller
  result,     \* what the last run_frames answered, or a failure to call one
  executed,   \* history: instructions this run executed
  raised,     \* history: failures this run raised, the last one's number
  exits,      \* history: those of them that are exits
  handed,     \* history: those given to a handler
  dropped,    \* history: those of a cleanup that ensure threw away
  outranked,  \* history: those a stop took the place of
  late,       \* history: times asString was sent on with the flag up
  ensures,    \* history: ensure sends that began
  cleanups    \* history: ensure sends that called their cleanup

history == <<executed, raised, exits, handed, dropped, outranked, late, ensures, cleanups>>
vars == <<calls, vm, stepsLeft, pc, result, history>>

-----------------------------------------------------------------------------
Failures == 1 .. MaxFailures
NoText == 0         \* an empty error_message
LimitText == -1     \* the message sol_vm_stop writes; otherwise the failure's

Machine == [hadError : BOOLEAN, exiting : BOOLEAN, stopped : BOOLEAN,
            code : Failures \cup {0}, message : Failures \cup {NoText, LimitText}]

\* The caller of run_frames: sol_vm_run; a primitive that calls a block and
\* gives up when it fails; one that renders a value, sending asString to each
\* object in it; onError calling its body, or its handler; ensure calling its
\* body, its cleanup, or its cleanup with a failure set aside.
Kinds == {"run", "plain", "rendering", "guarded", "handler", "ensured", "cleanup", "aside"}

\* The locals prim_block_ensure lifts the failure into.
Saved == [exiting : BOOLEAN, code : Failures \cup {0}, message : Failures \cup {NoText}]
Call == [kind : Kinds, saved : Saved]

\* The failure they hold.
FailureOf(saved) == IF saved.exiting THEN saved.code ELSE saved.message

NothingSaved == [exiting |-> FALSE, code |-> 0, message |-> NoText]
Waiting(kind) == [kind |-> kind, saved |-> NothingSaved]

Results == {"OK", "RUNTIME_ERROR", "EXIT", "STOPPED"}

\* The failure the flags carry, if any: an exit by its code, an error by its text.
InFlight(v) ==
  IF ~v.hadError THEN {} ELSE IF v.exiting THEN {v.code} ELSE {v.message} \ {LimitText}

-----------------------------------------------------------------------------
(* The flags                                                               *)

\* sol_vm_runtime_error: the first error wins.
RuntimeError(v, e) ==
  IF v.hadError THEN v ELSE [v EXCEPT !.hadError = TRUE, !.message = e]

\* prim_system_exit.
Exited(v, e) == [v EXCEPT !.hadError = TRUE, !.exiting = TRUE, !.code = e]

\* sol_vm_stop: the first stop wins, and it outranks what is pending.
Stopped(v) ==
  IF v.stopped THEN v
  ELSE [v EXCEPT !.hadError = TRUE, !.stopped = TRUE, !.exiting = FALSE, !.message = LimitText]

\* An allocation: when it meets the memory limit it still completes.
Allocated(v) == {v} \cup (IF MemoryLimited THEN {Stopped(v)} ELSE {})

\* Mutant of Caught: the flag stays up for the handler.
CaughtInFlight(v) == v

\* prim_block_on_error lowering the flag.
Caught(v) == [v EXCEPT !.hadError = FALSE, !.message = NoText]

\* prim_block_ensure lifting the failure out, and putting it back.
Lifted(v) == [v EXCEPT !.hadError = FALSE, !.exiting = FALSE, !.message = NoText]
SetAside(v) == [kind |-> "aside",
                saved |-> [exiting |-> v.exiting, code |-> v.code, message |-> v.message]]

\* Mutant of PutBack: the cleanup's own failure is kept when there is one.
PutBackUnlessFailed(v, s) ==
  IF v.hadError THEN v
  ELSE [v EXCEPT !.hadError = TRUE, !.exiting = s.exiting, !.code = s.code, !.message = s.message]

PutBack(v, s) ==
  [v EXCEPT !.hadError = TRUE, !.exiting = s.exiting, !.code = s.code, !.message = s.message]

-----------------------------------------------------------------------------
(* The dispatch loop                                                       *)

\* Mutant of AnswerOf: a stop takes precedence over nothing.
AnswerOfError(v) == IF v.exiting THEN "EXIT" ELSE "RUNTIME_ERROR"

\* What run_frames answers when the flag is up at the end of an instruction.
AnswerOf(v) == IF v.exiting THEN "EXIT" ELSE IF v.stopped THEN "STOPPED" ELSE "RUNTIME_ERROR"

\* The end of an instruction, whose flags are v: on to the next, or out.
EndInstruction(v) ==
  /\ vm' = v
  /\ IF v.hadError
     THEN pc' = "answer" /\ result' = AnswerOf(v)
     ELSE pc' = "dispatch" /\ UNCHANGED result

\* The budget's test, passed: the instruction is counted and executes.
Instruction ==
  /\ pc = "dispatch"
  /\ stepsLeft # 0
  /\ executed < MaxSteps
  /\ stepsLeft' = stepsLeft - 1
  /\ executed' = executed + 1

\* A stop, if the flags v are of one, takes the place of what was pending.
Outranks(v) == outranked' = outranked \cup (InFlight(vm) \ InFlight(v))

\* Mutants of StepLimitReached: a counter that stays at zero, the loop going
\* round, and one that is signed.
StepLimitSaturates ==
  /\ pc = "dispatch"
  /\ stepsLeft = 0
  /\ UNCHANGED vars

StepLimitSigned ==
  /\ pc = "dispatch"
  /\ stepsLeft = 0
  /\ stepsLeft' = stepsLeft - 1
  /\ vm' = Stopped(vm)
  /\ pc' = "answer" /\ result' = "STOPPED"
  /\ Outranks(vm')
  /\ UNCHANGED <<calls, executed, raised, exits, handed, dropped, ensures, cleanups, late>>

\* The budget's test, failed: the post-decrement has wrapped the counter.
StepLimitReached ==
  /\ pc = "dispatch"
  /\ stepsLeft = 0
  /\ stepsLeft' = Wrap - 1
  /\ vm' = Stopped(vm)
  /\ pc' = "answer" /\ result' = "STOPPED"
  /\ Outranks(vm')
  /\ UNCHANGED <<calls, executed, raised, exits, handed, dropped, ensures, cleanups, late>>

\* An instruction that succeeds, whatever it allocates.  One begins with the flag
\* up when a primitive met the memory limit before it called a block, or when the
\* renderer went on after a failure: it is the block's last, and if it fails the
\* first error wins.
Work ==
  /\ Instruction
  /\ \E v \in Allocated(vm) : EndInstruction(v) /\ Outranks(v)
  /\ UNCHANGED <<calls, raised, exits, handed, dropped, ensures, cleanups, late>>

\* The instructions below send, and take an operand: none of them is the first
\* of its block, and the flag was down when the one before it ended.
Ready == Instruction /\ ~vm.hadError

\* An instruction that fails.
Fail ==
  /\ Ready
  /\ raised < MaxFailures
  /\ raised' = raised + 1
  /\ EndInstruction(RuntimeError(vm, raised + 1))
  /\ UNCHANGED <<calls, exits, handed, dropped, ensures, cleanups, outranked, late>>

\* system:exit.
Exit ==
  /\ Ready
  /\ raised < MaxFailures
  /\ raised' = raised + 1
  /\ exits' = exits \cup {raised + 1}
  /\ EndInstruction(Exited(vm, raised + 1))
  /\ UNCHANGED <<calls, handed, dropped, ensures, cleanups, outranked, late>>

\* OP_RETURN from the run_frames call's first frame, or OP_HALT, which needs no
\* operand and may come first, whatever the flag.
Return ==
  /\ Instruction
  /\ pc' = "answer" /\ result' = "OK"
  /\ UNCHANGED <<calls, vm, raised, exits, handed, dropped, ensures, cleanups, outranked, late>>

\* A primitive calls a block with flags v: run_frames begins.
Begin(call, v) ==
  /\ vm' = v
  /\ calls' = Append(calls, call)
  /\ pc' = "dispatch" /\ UNCHANGED result

\* do, collect, sort, timeToRun, system:load..., and print, asString and the
\* messages that name a value: something may be allocated before the first call.
CallPlain ==
  /\ Ready
  /\ Len(calls) < MaxCalls
  /\ \E kind \in {"plain", "rendering"}, v \in Allocated(vm) : Begin(Waiting(kind), v)
  /\ UNCHANGED <<raised, exits, handed, dropped, ensures, cleanups, outranked, late>>

\* An object to be rendered cannot be asked: its asString takes arguments, or is
\* not exported, or the depth or the stack is reached.  That is a call that failed.
Unasked ==
  /\ raised < MaxFailures
  /\ raised' = raised + 1
  /\ vm' = RuntimeError(vm, raised + 1)
  /\ pc' = "answer" /\ result' = "RUNTIME_ERROR"

\* The first object is one of those.
FirstRefused ==
  /\ Ready
  /\ Len(calls) < MaxCalls
  /\ Unasked
  /\ calls' = Append(calls, Waiting("rendering"))
  /\ UNCHANGED <<exits, handed, dropped, ensures, cleanups, outranked, late>>

\* prim_block_on_error, up to its body.
CallOnError ==
  /\ Ready
  /\ Len(calls) < MaxCalls
  /\ Begin(Waiting("guarded"), vm)
  /\ UNCHANGED <<raised, exits, handed, dropped, ensures, cleanups, outranked, late>>

\* prim_block_ensure, up to its body.
CallEnsure ==
  /\ Ready
  /\ Len(calls) < MaxCalls
  /\ Begin(Waiting("ensured"), vm)
  /\ ensures' = ensures + 1
  /\ UNCHANGED <<raised, exits, handed, dropped, cleanups, outranked, late>>

-----------------------------------------------------------------------------
(* The C callers, once run_frames has answered                             *)

Answering(kind) == pc = "answer" /\ Last(calls).kind = kind

\* The primitive returns to the instruction that sent it, with flags v.
Resume(v) == calls' = Front(calls) /\ EndInstruction(v)

\* The primitive calls another block in place of the one that answered.
CallNext(call, v) ==
  /\ vm' = v
  /\ calls' = [calls EXCEPT ![Len(calls)] = call]
  /\ pc' = "dispatch" /\ UNCHANGED result

\* The call failed before run_frames: wrong arity, or the depth or the stack.
CallRefused(v) ==
  /\ raised < MaxFailures
  /\ raised' = raised + 1
  /\ Resume(RuntimeError(v, raised + 1))

Quiet == UNCHANGED <<stepsLeft, executed>>    \* C code takes no steps

\* sol_vm_run returns to its host.
RunEnds ==
  /\ Answering("run")
  /\ calls' = <<>>
  /\ pc' = "idle"
  /\ Quiet
  /\ UNCHANGED <<vm, result, raised, exits, handed, dropped, ensures, cleanups, outranked, late>>

\* do and its like test had_error, then call again, finish, or fail over what
\* the block answered.
PlainAnswered ==
  /\ Answering("plain")
  /\ \/ Resume(vm) /\ UNCHANGED raised
     \/ ~vm.hadError /\ CallNext(Waiting("plain"), vm) /\ UNCHANGED raised
     \/ ~vm.hadError /\ CallRefused(vm)
  /\ Quiet /\ UNCHANGED <<exits, handed, dropped, ensures, cleanups, outranked, late>>

\* The renderer does not test it: the next object is sent asString whatever the
\* last one made of it.
RenderNext(v) ==
  /\ v.hadError => late < MaxLate
  /\ late' = IF v.hadError THEN late + 1 ELSE late
  /\ CallNext(Waiting("rendering"), v)

\* The text is put together and something allocated, or there is another object
\* to ask, or the failure is raised that the text is the message of.
RenderingAnswered ==
  /\ Answering("rendering")
  /\ \E v \in Allocated(vm) :
       /\ Outranks(v)
       /\ \/ Resume(v) /\ UNCHANGED <<late, raised>>
          \/ RenderNext(v) /\ UNCHANGED raised
          \/ ~v.hadError /\ CallRefused(v) /\ UNCHANGED late
  /\ Quiet /\ UNCHANGED <<exits, handed, dropped, ensures, cleanups>>

\* The next object cannot be asked.
NextRefused ==
  /\ Answering("rendering")
  /\ ~vm.hadError
  /\ Unasked
  /\ Quiet /\ UNCHANGED <<calls, exits, handed, dropped, ensures, cleanups, outranked, late>>

\* Mutant of LetsPast: an exit looks like any other failure.
LetsPastStops(v) == ~v.hadError \/ v.stopped

\* The three returns of prim_block_on_error after its body.
LetsPast(v) == ~v.hadError \/ v.exiting \/ v.stopped

\* The body did not fail, or not in a way onError may see.
GuardedPasses ==
  /\ Answering("guarded")
  /\ LetsPast(vm)
  /\ Resume(vm)
  /\ Quiet /\ UNCHANGED <<raised, exits, handed, dropped, ensures, cleanups, outranked, late>>

\* The body failed: the error is built, which allocates, the flag is lowered
\* whatever that did, and the handler is called with the error.
GuardedFails ==
  /\ Answering("guarded")
  /\ ~LetsPast(vm)
  /\ handed' = handed \cup InFlight(vm)
  /\ \E v \in Allocated(vm) :
       \/ CallNext(Waiting("handler"), Caught(v)) /\ UNCHANGED raised
       \/ CallRefused(Caught(v))
  /\ Quiet /\ UNCHANGED <<exits, dropped, ensures, cleanups, outranked, late>>

\* The handler's answer, or failure, is onError's.
HandlerAnswered ==
  /\ Answering("handler")
  /\ Resume(vm)
  /\ Quiet /\ UNCHANGED <<raised, exits, handed, dropped, ensures, cleanups, outranked, late>>

\* Mutant of EnsuredStopped: an exit is not set aside either.
EnsuredStoppedOrExiting ==
  /\ Answering("ensured")
  /\ vm.stopped \/ vm.exiting
  /\ Resume(vm)
  /\ Quiet /\ UNCHANGED <<raised, exits, handed, dropped, ensures, cleanups, outranked, late>>

\* The body of an ensure was stopped: the cleanup does not run.
EnsuredStopped ==
  /\ Answering("ensured")
  /\ vm.stopped
  /\ Resume(vm)
  /\ Quiet /\ UNCHANGED <<raised, exits, handed, dropped, ensures, cleanups, outranked, late>>

\* The body finished: the cleanup fails, if it does, on its own account.
EnsuredFinished ==
  /\ Answering("ensured")
  /\ ~vm.stopped /\ ~vm.hadError
  /\ cleanups' = cleanups + 1
  /\ \/ CallNext(Waiting("cleanup"), vm) /\ UNCHANGED raised
     \/ CallRefused(vm)
  /\ Quiet /\ UNCHANGED <<exits, handed, dropped, ensures, outranked, late>>

\* prim_block_ensure returning with the failure saved, after a cleanup that left
\* flags v.
EnsureFails(v, saved) ==
  /\ Resume(PutBack(v, saved))
  /\ dropped' = dropped \cup ((InFlight(v) \cup {FailureOf(saved)}) \ InFlight(PutBack(v, saved)))

\* Mutant of EnsuredFailed: the cleanup of a stopped body runs too.
EnsuredFailedAnyhow ==
  /\ Answering("ensured")
  /\ vm.hadError
  /\ cleanups' = cleanups + 1
  /\ CallNext(SetAside(vm), Lifted(vm))
  /\ Quiet /\ UNCHANGED <<raised, exits, handed, dropped, ensures, outranked, late>>

\* The body failed or is exiting: that is lifted out and the cleanup runs, or
\* is refused, which is forgotten.
EnsuredFailed ==
  /\ Answering("ensured")
  /\ ~vm.stopped /\ vm.hadError
  /\ cleanups' = cleanups + 1
  /\ \/ CallNext(SetAside(vm), Lifted(vm)) /\ UNCHANGED <<raised, dropped>>
     \/ /\ raised < MaxFailures
        /\ raised' = raised + 1
        /\ EnsureFails(RuntimeError(Lifted(vm), raised + 1), SetAside(vm).saved)
  /\ Quiet /\ UNCHANGED <<exits, handed, ensures, outranked, late>>

\* The cleanup of a body that finished has ended.
CleanupAnswered ==
  /\ Answering("cleanup")
  /\ Resume(vm)
  /\ Quiet /\ UNCHANGED <<raised, exits, handed, dropped, ensures, cleanups, outranked, late>>

\* The cleanup has ended, and the body's failure is put back over whatever it
\* made of it.
AsideAnswered ==
  /\ Answering("aside")
  /\ EnsureFails(vm, Last(calls).saved)
  /\ Quiet /\ UNCHANGED <<raised, exits, handed, ensures, cleanups, outranked, late>>

-----------------------------------------------------------------------------
Start0 == IF StepLimit > 0 THEN StepLimit ELSE Wrap - 1

\* The flags sol_vm_run begins with.
Fresh == [vm EXCEPT !.hadError = FALSE, !.exiting = FALSE, !.stopped = FALSE, !.message = NoText]

\* sol_vm_run, up to run_frames: interning the chunk's names allocates.
Start ==
  /\ pc = "idle"
  /\ calls' = <<Waiting("run")>>
  /\ vm' \in Allocated(Fresh)
  /\ stepsLeft' = Start0
  /\ pc' = "dispatch" /\ UNCHANGED result
  /\ executed' = 0 /\ raised' = 0 /\ late' = 0 /\ ensures' = 0 /\ cleanups' = 0
  /\ exits' = {} /\ handed' = {} /\ dropped' = {} /\ outranked' = {}

\* sol_vm_init: no run yet.
Init ==
  /\ calls = <<>>
  /\ vm = [hadError |-> FALSE, exiting |-> FALSE, stopped |-> FALSE, code |-> 0,
           message |-> NoText]
  /\ stepsLeft = Start0
  /\ pc = "idle" /\ result = "OK"
  /\ executed = 0 /\ raised = 0 /\ late = 0 /\ ensures = 0 /\ cleanups = 0
  /\ exits = {} /\ handed = {} /\ dropped = {} /\ outranked = {}

\* The machine at work, on a program that may do any of this.
Proceed ==
  \/ StepLimitReached \/ Work \/ Fail \/ Exit \/ Return
  \/ CallPlain \/ FirstRefused \/ CallOnError \/ CallEnsure
  \/ RunEnds \/ PlainAnswered \/ RenderingAnswered \/ NextRefused
  \/ GuardedPasses \/ GuardedFails \/ HandlerAnswered
  \/ EnsuredStopped \/ EnsuredFinished \/ EnsuredFailed
  \/ CleanupAnswered \/ AsideAnswered

Next == Start \/ Proceed

\* The machine is a loop in one thread of C: it goes on while it can.
Spec == Init /\ [][Next]_vars /\ WF_vars(Proceed)

-----------------------------------------------------------------------------
(* Properties                                                              *)

TypeOK ==
  /\ calls \in Seq(Call)
  /\ vm \in Machine
  /\ stepsLeft \in 0 .. Wrap - 1
  /\ pc \in {"idle", "dispatch", "answer"}
  /\ result \in Results
  /\ executed \in Nat /\ raised \in 0 .. MaxFailures
  /\ exits \subseteq Failures /\ handed \subseteq Failures /\ dropped \subseteq Failures
  /\ outranked \subseteq Failures /\ late \in 0 .. MaxLate
  /\ ensures \in Nat /\ cleanups \in Nat
  /\ (calls = <<>>) <=> (pc = "idle")

\* Once a limit has stopped the machine, the way out is all there is left, though
\* ensure lowers and raises the flag everything on it tests: no failure is raised
\* and no handler, ensure or cleanup begins.  The renderer alone goes on, asking
\* each object that is left, and of what answers one instruction executes.
NoMoreCode ==
  vm.stopped /\ pc # "idle" =>
    /\ UNCHANGED <<raised, handed, ensures, cleanups>>
    /\ pc' = "dispatch" => /\ pc = "answer" /\ Last(calls).kind = "rendering"
                          /\ Len(calls') = Len(calls) /\ Last(calls').kind = "rendering"

StopIsFinal == [][NoMoreCode]_vars

\* Mutant of StepsRun: the distance, in the counter's own arithmetic.
StepsRunWrapped == (Start0 - stepsLeft + Wrap) % Wrap

\* sol_vm_steps_run.
StepsRun == IF stepsLeft > Start0 THEN Start0 ELSE Start0 - stepsLeft

\* A limit of N lets N instructions run, whatever handlers and cleanups do, and
\* one more for each object the renderer asks when the run has failed already.
\* sol_vm_steps_run answers what was executed, those apart that came after a stop,
\* though the counter it reads has wrapped then.
StepsCounted ==
  /\ StepLimit > 0 => executed <= StepLimit + late
  /\ executed - StepsRun \in IF vm.stopped THEN 0 .. late ELSE {0}

Asides == {k \in 1 .. Len(calls) : calls[k].kind = "aside"}

\* No failure is swallowed or reported twice: each is on its way out, set aside
\* while one cleanup runs, given to one handler, thrown away by an ensure, or
\* given up for a stop that came over it -- one of those and not two.  An exit is
\* no error, and no handler is given one.
FailuresAccounted ==
  /\ 1 .. raised = InFlight(vm) \cup {FailureOf(calls[k].saved) : k \in Asides}
                   \cup handed \cup dropped \cup outranked
  /\ raised = Cardinality(InFlight(vm)) + Cardinality(Asides)
              + Cardinality(handed) + Cardinality(dropped) + Cardinality(outranked)
  /\ handed \cap exits = {}
  /\ outranked # {} => vm.stopped

\* What ensure throws away is never the first thing that went wrong.
FirstFailureWins == \A e \in dropped : \E f \in (1 .. raised) \ dropped : f < e

\* Unless a limit stops the run, every ensure calls its cleanup, and once.
CleanupsRun ==
  ~vm.stopped =>
    ensures = cleanups + Cardinality({k \in 1 .. Len(calls) : calls[k].kind = "ensured"})

\* The answer of run_frames and the flags say the same: C callers go by either.
\* Only the renderer, which goes by neither, may be told of success with the flag
\* up, by an object whose asString is a HALT -- where no memory limit, met before
\* the first call, begins other calls with it up.
AnswersAgree ==
  pc = "answer" =>
    \/ result = "OK" /\ vm.hadError /\ Last(calls).kind = "rendering"
    \/ /\ (result = "OK") <=> ~vm.hadError
       /\ (result = "EXIT") <=> (vm.hadError /\ vm.exiting)
       /\ (result = "RUNTIME_ERROR") => ~vm.stopped

\* A step limit bounds every run: it ends, however its program loops.
RunsEnd == (pc # "idle") ~> (pc = "idle")

\* vm.h and docs/REFERENCE.md: "A stop cannot be caught.  onError does not see it."
StopNotCaught ==
  [][Len(calls') > 0 /\ Last(calls').kind = "handler" /\ calls' # calls /\ Len(calls') = Len(calls)
       => ~vm'.stopped]_vars

\* vm.c, of sol_vm_stop: "A stop outranks an error already pending [...] that
\* is the outcome its host has to hear about."
StopIsAnswered ==
  pc = "idle" /\ vm.stopped => result = "STOPPED" /\ vm.message = LimitText
===============================================================================
