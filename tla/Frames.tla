-------------------------------- MODULE Frames --------------------------------
(***************************************************************************)
(* The activation records of one machine: the frame array, the value stack *)
(* the frames carve up, the blocks a program holds on to, and the nesting  *)
(* of the C function run_frames, which primitives re-enter to call a block *)
(* or to run a loaded file.                                                *)
(*                                                                         *)
(* The data on the stack is abstracted to its height.  What is kept is who *)
(* owns which part of the stack, which activation wrote which block, and   *)
(* every way an activation starts or ends: a send, a block called from a   *)
(* primitive, a loaded chunk, RETURN, HALT, an error unwinding to a C      *)
(* caller, an error stopped by onError, and the next run of the machine.   *)
(***************************************************************************)
EXTENDS Integers, Sequences, SequencesExt

CONSTANTS
  Code,          \* every chunk the program has: top-level ones and block bodies
  NoCode,        \* what encloses a top-level chunk
  Encloser,      \* the chunk each body is written in
  Nesting,       \* how many bodies enclose it
  Arity,         \* parameters of each body
  SlotCount,     \* slots its frame reserves: receiver, parameters, locals
  Halts,         \* the chunks with a HALT in them: compiled, the top levels
  FramesMax,     \* SOL_FRAMES_MAX
  StackMax,      \* SOL_STACK_MAX
  MaxOperands,   \* bound: operands one frame has on the stack
  MaxActivations \* bound: activations ever started

\* Bodies are nested in a forest, and a frame has a slot for its receiver and
\* each parameter: what verify_chunk establishes before code is run.  Of HALT
\* it asks nothing but that a chunk ends in it or in RETURN, so any of a loaded
\* file's may have one; the compiler puts it at the end of top levels only.
ASSUME FramesAssumption ==
  /\ NoCode \notin Code
  /\ Encloser \in [Code -> Code \cup {NoCode}]
  /\ Nesting \in [Code -> Nat]
  /\ Arity \in [Code -> Nat]
  /\ SlotCount \in [Code -> Nat]
  /\ Halts \subseteq Code
  /\ \A c \in Code : SlotCount[c] >= Arity[c] + 1
  /\ \A c \in Code : Encloser[c] = NoCode <=> Nesting[c] = 0
  /\ \A c \in Code : Encloser[c] # NoCode => Nesting[c] = Nesting[Encloser[c]] + 1
  /\ FramesMax \in Nat \ {0}
  /\ StackMax \in Nat
  /\ MaxOperands \in Nat
  /\ MaxActivations \in Nat
  /\ \A c \in Code : SlotCount[c] <= StackMax

VARIABLES
  frames,      \* vm->frames: the array keeps what finished activations left in it
  frameCount,  \* vm->frame_count
  stackTop,    \* vm->stack_top, as an index
  nextId,      \* vm->next_frame_id
  blocks,      \* every block made so far; globals keep blocks across runs
  runs,        \* the run_frames calls in progress, outermost first
  hadError,    \* vm->had_error
  born         \* history: activations started since the machine was made

vars == <<frames, frameCount, stackTop, nextId, blocks, runs, hadError, born>>

-----------------------------------------------------------------------------
Index == 0 .. FramesMax - 1
Stack == 0 .. StackMax

\* A SolFrame.  act and homeAct are history: the number of the activation and
\* of the one that wrote the block it runs.  No test of the code reads them.
Frame == [code : Code \cup {NoCode}, id : Nat, slots : Stack,
          home : Index \cup {-1}, homeId : Nat, act : Nat, homeAct : Nat]

\* A SolBlock: its body and the frame that was running when it was made.
Block == [code : Code, home : Index, homeId : Nat, homeAct : Nat]

\* One run_frames call: the frame count and the stack height its C caller
\* keeps to restore, the operands of the send that brought it there, and what
\* the caller is: sol_vm_run, system:load, a primitive that calls a block, or
\* onError calling the block it guards.
Run == [kind : {"run", "chunk", "block", "guard"}, base : Index,
        mark : Stack, drop : Nat]

NoFrame == [code |-> NoCode, id |-> 0, slots |-> 0, home |-> -1, homeId |-> 0,
            act |-> 0, homeAct |-> 0]

TopLevel(c) == Encloser[c] = NoCode

Top == frames[frameCount - 1]
Operands == stackTop - Top.slots - SlotCount[Top.code]

\* An instruction can be dispatched.
Running == runs # <<>> /\ ~hadError

-----------------------------------------------------------------------------
(* The lexical chain                                                       *)

\* Mutants of HomeAlive: the index alone, and the id alone.
HomeAliveByIndex(home, homeId) == home >= 0 /\ home < frameCount
HomeAliveById(home, homeId) == home >= 0 /\ frames[home].id = homeId

\* The test outer_slots makes of one hop.
HomeAlive(home, homeId) ==
  /\ home >= 0
  /\ home < frameCount
  /\ frames[home].id = homeId

\* The frame outer_slots reaches from the running one, -1 when a hop fails.
OuterFrame[d \in Nat] ==
  IF d = 0 THEN frameCount - 1
  ELSE LET i == OuterFrame[d - 1] IN
       IF i >= 0 /\ HomeAlive(frames[i].home, frames[i].homeId) THEN frames[i].home ELSE -1

-----------------------------------------------------------------------------
(* Starting an activation                                                  *)

\* The frame push_frame, sol_vm_call_chunk and sol_vm_run fill in, over a
\* receiver that is already at stack index at.
NewFrame(c, at, home, homeId, homeAct) ==
  [code |-> c, id |-> nextId, slots |-> at, home |-> home, homeId |-> homeId,
   act |-> born, homeAct |-> homeAct]

PlaceFrame(count, f) ==
  /\ frames' = [frames EXCEPT ![count] = f]
  /\ frameCount' = count + 1
  /\ stackTop' = f.slots + SlotCount[f.code]
  /\ nextId' = nextId + 1
  /\ born' = born + 1

\* Mutant of CanPush: a call depth off by one.
CanPushDeeper(c, argc, count, at) ==
  argc = Arity[c] /\ count <= FramesMax /\ at + SlotCount[c] <= StackMax

\* push_frame's three checks: the arity, the call depth, the stack.
CanPush(c, argc, count, at) ==
  /\ argc = Arity[c]
  /\ count < FramesMax
  /\ at + SlotCount[c] <= StackMax

BlockFrame(b, at) == NewFrame(b.code, at, b.home, b.homeId, b.homeAct)

MoreActivations == born < MaxActivations

\* sol_vm_run on a top-level chunk.  The frame array keeps its contents and
\* the ids go on from where the last run left them.
Start(c) ==
  /\ runs = <<>> /\ MoreActivations
  /\ TopLevel(c)
  /\ PlaceFrame(0, NewFrame(c, 0, -1, 0, 0))
  /\ runs' = <<[kind |-> "run", base |-> 0, mark |-> 0, drop |-> 0]>>
  /\ hadError' = FALSE
  /\ UNCHANGED blocks

\* Mutant of SendBlock: the send takes operands that are not there.
SendBlockUnchecked(b, argc) ==
  /\ Running /\ MoreActivations
  /\ LET at == stackTop - argc - 1 IN
       CanPush(b.code, argc, frameCount, at) /\ PlaceFrame(frameCount, BlockFrame(b, at))
  /\ UNCHANGED <<blocks, runs, hadError>>

\* OP_SEND finding a slot that holds a block: the receiver and the arguments
\* are on the stack and become the first slots of the new frame.
SendBlock(b, argc) ==
  /\ Running /\ MoreActivations
  /\ Operands >= argc + 1
  /\ LET at == stackTop - argc - 1 IN
       IF CanPush(b.code, argc, frameCount, at)
       THEN PlaceFrame(frameCount, BlockFrame(b, at)) /\ UNCHANGED hadError
       ELSE /\ hadError' = TRUE
            /\ UNCHANGED <<frames, frameCount, stackTop, nextId, born>>
  /\ UNCHANGED <<blocks, runs>>

\* Mutant of CallBlock: the frame count is read after the frame is pushed.
CallBlockLateBase(kind, b, argc, drop) ==
  /\ Running /\ MoreActivations
  /\ Operands >= drop /\ drop >= 1
  /\ CanPush(b.code, argc, frameCount, stackTop)
  /\ PlaceFrame(frameCount, BlockFrame(b, stackTop))
  /\ runs' = Append(runs, [kind |-> kind, base |-> frameCount + 1,
                           mark |-> stackTop, drop |-> drop])
  /\ UNCHANGED <<blocks, hadError>>

\* OP_SEND reaching a primitive with drop operands, which calls a block
\* through sol_vm_call_block (or sol_vm_send, which lays out the stack alike).
CallBlock(kind, b, argc, drop) ==
  /\ Running /\ MoreActivations
  /\ Operands >= drop /\ drop >= 1
  /\ IF CanPush(b.code, argc, frameCount, stackTop)
     THEN /\ PlaceFrame(frameCount, BlockFrame(b, stackTop))
          /\ runs' = Append(runs, [kind |-> kind, base |-> frameCount,
                                   mark |-> stackTop, drop |-> drop])
          /\ UNCHANGED hadError
     ELSE /\ hadError' = TRUE
          /\ stackTop' = stackTop - drop
          /\ UNCHANGED <<frames, frameCount, nextId, born, runs>>
  /\ UNCHANGED blocks

\* system:load and system:run reaching sol_vm_call_chunk: a guest's top level
\* runs above the host program's frames.
CallChunk(c, drop) ==
  /\ Running /\ MoreActivations
  /\ Operands >= drop /\ drop >= 1
  /\ TopLevel(c)
  /\ IF frameCount < FramesMax /\ stackTop + SlotCount[c] <= StackMax
     THEN /\ PlaceFrame(frameCount, NewFrame(c, stackTop, -1, 0, 0))
          /\ runs' = Append(runs, [kind |-> "chunk", base |-> frameCount,
                                   mark |-> stackTop, drop |-> drop])
          /\ UNCHANGED hadError
     ELSE /\ hadError' = TRUE
          /\ stackTop' = stackTop - drop
          /\ UNCHANGED <<frames, frameCount, nextId, born, runs>>
  /\ UNCHANGED blocks

\* onError: the guarded body b is called, and the handler h in its place when
\* push_frame refuses b.
CallGuarded(b, h) ==
  IF CanPush(b.code, 0, frameCount, stackTop)
  THEN CallBlock("guard", b, 0, 2)
  ELSE CallBlock("block", h, 1, 2)

-----------------------------------------------------------------------------
(* Instructions that stay in their frame                                   *)

\* sol_vm_push, as OP_CONST, OP_LOCAL and their like use it.
PushValue ==
  /\ Running
  /\ Operands < MaxOperands
  /\ IF stackTop = StackMax
     THEN hadError' = TRUE /\ UNCHANGED stackTop
     ELSE stackTop' = stackTop + 1 /\ UNCHANGED hadError
  /\ UNCHANGED <<frames, frameCount, nextId, blocks, runs, born>>

\* OP_POP.
PopValue ==
  /\ Running
  /\ Operands > 0
  /\ stackTop' = stackTop - 1
  /\ UNCHANGED <<frames, frameCount, nextId, blocks, runs, hadError, born>>

\* OP_BLOCK: the block remembers the frame creating it, by index and by id.
MakeBlock(c) ==
  /\ Running
  /\ Operands < MaxOperands
  /\ Encloser[c] = Top.code
  /\ blocks' = blocks \cup {[code |-> c, home |-> frameCount - 1,
                             homeId |-> Top.id, homeAct |-> Top.act]}
  /\ IF stackTop = StackMax
     THEN hadError' = TRUE /\ UNCHANGED stackTop
     ELSE stackTop' = stackTop + 1 /\ UNCHANGED hadError
  /\ UNCHANGED <<frames, frameCount, nextId, runs, born>>

\* OP_OUTER and OP_SET_OUTER at a verified depth, when the chain is broken:
\* the reach itself is OuterFrame, and a successful one is a PushValue.
OuterIsGone ==
  /\ Running
  /\ \E d \in 1 .. Nesting[Top.code] : OuterFrame[d] = -1
  /\ hadError' = TRUE
  /\ UNCHANGED <<frames, frameCount, stackTop, nextId, blocks, runs, born>>

\* Any other instruction that fails: sol_vm_runtime_error.
Fail ==
  /\ Running
  /\ hadError' = TRUE
  /\ UNCHANGED <<frames, frameCount, stackTop, nextId, blocks, runs, born>>

-----------------------------------------------------------------------------
(* Ending an activation                                                    *)

\* The innermost run_frames answered and its C caller brought the stack down to
\* height: the primitive drops its operands and the reply takes their place.
Finished(height) ==
  /\ frameCount' = Last(runs).base
  /\ stackTop' = height - Last(runs).drop + 1
  /\ runs' = Front(runs)

\* Mutant of Return: the base is compared before the frame count comes down.
ReturnLate ==
  /\ Running
  /\ Operands >= 1
  /\ IF frameCount = Last(runs).base
     THEN Finished(Top.slots)
     ELSE /\ frameCount' = frameCount - 1
          /\ stackTop' = Top.slots + 1
          /\ UNCHANGED runs
  /\ UNCHANGED <<frames, nextId, blocks, hadError, born>>

\* OP_RETURN: the activation's part of the stack goes, the reply takes the
\* receiver's place, and run_frames ends when its first frame returned.  The C
\* caller then takes the reply: sol_vm_call_block pops it and does not put the
\* height back itself, and sol_vm_run leaves it where it is.
Return ==
  /\ Running
  /\ Operands >= 1
  /\ IF frameCount - 1 = Last(runs).base /\ Last(runs).kind # "run"
     THEN Finished(Top.slots)
     ELSE /\ frameCount' = frameCount - 1
          /\ stackTop' = Top.slots + 1
          /\ runs' = IF frameCount = 1 THEN <<>> ELSE runs
  /\ UNCHANGED <<frames, nextId, blocks, hadError, born>>

\* Mutant of Halt: the called frame and its slots stay behind.
HaltInPlace ==
  /\ Running
  /\ Top.code \in Halts
  /\ runs' = Front(runs)
  /\ UNCHANGED <<frames, frameCount, stackTop, nextId, blocks, hadError, born>>

\* OP_HALT: run_frames answers SOL_OK from wherever it stands, in the frame it
\* was called for or deeper.  sol_vm_run leaves everything standing, and
\* sol_vm_call_chunk puts everything back.  sol_vm_call_block drops the frames,
\* takes the topmost value for the reply and leaves the rest of the stack where
\* it is; sol_vm_send (the second height) puts that back too.
Halt ==
  /\ Running
  /\ Top.code \in Halts
  /\ CASE Last(runs).kind = "run" ->
            runs' = <<>> /\ UNCHANGED <<frameCount, stackTop>>
       [] Last(runs).kind = "chunk" -> Finished(Last(runs).mark)
       [] OTHER -> \E height \in {stackTop - 1, Last(runs).mark} : Finished(height)
  /\ UNCHANGED <<frames, nextId, blocks, hadError, born>>

\* run_frames answers a failure to its C caller.  sol_vm_run empties the
\* machine; the others put the frames and the stack back as they were and the
\* primitive's send, which pushes nothing, ends the run outside it the same way.
Unwind ==
  /\ runs # <<>> /\ hadError
  /\ frameCount' = Last(runs).base
  /\ stackTop' = Last(runs).mark - Last(runs).drop
  /\ runs' = Front(runs)
  /\ UNCHANGED <<frames, nextId, blocks, hadError, born>>

\* prim_block_on_error: the guarded block failed, so the flag goes down and
\* the handler, a block h, is called with the error in the body's place.
Catch(h) ==
  /\ runs # <<>> /\ hadError /\ MoreActivations
  /\ Last(runs).kind = "guard"
  /\ LET r == Last(runs) IN
       IF CanPush(h.code, 1, r.base, r.mark)
       THEN /\ PlaceFrame(r.base, BlockFrame(h, r.mark))
            /\ runs' = [runs EXCEPT ![Len(runs)].kind = "block"]
            /\ hadError' = FALSE
       ELSE /\ frameCount' = r.base
            /\ stackTop' = r.mark - r.drop
            /\ runs' = Front(runs)
            /\ UNCHANGED <<frames, nextId, hadError, born>>
  /\ UNCHANGED blocks

-----------------------------------------------------------------------------
Init ==
  /\ frames = [i \in Index |-> NoFrame]
  /\ frameCount = 0
  /\ stackTop = 0
  /\ nextId = 1
  /\ blocks = {}
  /\ runs = <<>>
  /\ hadError = FALSE
  /\ born = 0

Argc == {0, 1}     \* arguments a send is tried with
Drops == {1, 2}    \* operands of the sends that reach the primitives

Next ==
  \/ \E c \in Code : Start(c)
  \/ \E b \in blocks, argc \in Argc : SendBlock(b, argc)
  \/ \E b \in blocks, argc \in Argc : CallBlock("block", b, argc, 1)
  \/ \E b, h \in blocks : CallGuarded(b, h)
  \/ \E c \in Code, drop \in Drops : CallChunk(c, drop)
  \/ PushValue
  \/ PopValue
  \/ \E c \in Code : MakeBlock(c)
  \/ OuterIsGone
  \/ Fail
  \/ Return
  \/ Halt
  \/ Unwind
  \/ \E h \in blocks : Catch(h)

Spec == Init /\ [][Next]_vars

-----------------------------------------------------------------------------
(* Properties                                                              *)

Live == 0 .. frameCount - 1     \* indices of the activations in progress

TypeOK ==
  /\ frames \in [Index -> Frame]
  /\ frameCount \in 0 .. FramesMax
  /\ stackTop \in Stack
  /\ nextId \in Nat \ {0}
  /\ blocks \subseteq Block
  /\ runs \in Seq(Run)
  /\ hadError \in BOOLEAN
  /\ born \in Nat
  /\ runs # <<>> => frameCount > 0
  /\ \A i \in Live : frames[i].code \in Code

\* No activation's slots reach into the next one's, and the operands of the
\* running one lie above its slots: what makes OP_LOCAL, OP_RETURN's reset of
\* the stack and a send's receiver the activation's own.  push_frame computes
\* the slots from the stack top and never compares two frames.
ActivationsApart ==
  runs # <<>> =>
    \A i \in Live :
      frames[i].slots + SlotCount[frames[i].code]
        <= IF i = frameCount - 1 THEN stackTop ELSE frames[i + 1].slots

\* The C calls of run_frames nest as the frames do: each began at a frame of
\* its own, above the one it was called from, and the outermost is sol_vm_run.
RunsNested ==
  \A k \in 1 .. Len(runs) :
    /\ (runs[k].kind = "run") <=> (k = 1)
    /\ runs[k].base < frameCount
    /\ \A j \in 1 .. k - 1 : runs[j].base < runs[k].base
    /\ frames[runs[k].base].slots = runs[k].mark

\* A hop of outer_slots, from a running activation or from a block that may be
\* called next, succeeds exactly while the activation that wrote the block is
\* in progress, and reaches that activation and no other -- one whose chunk
\* has the slots the verifier counted -- however often its place in the frame
\* array has been used again, in this run or a later one.
ReachesItsWriter(code, home, homeId, homeAct) ==
  /\ HomeAlive(home, homeId) <=> \E j \in Live : frames[j].act = homeAct
  /\ HomeAlive(home, homeId) =>
       frames[home].act = homeAct /\ frames[home].code = Encloser[code]

LexicalReach ==
  /\ \A b \in blocks : ReachesItsWriter(b.code, b.home, b.homeId, b.homeAct)
  /\ \A i \in Live : LET f == frames[i] IN
       ~TopLevel(f.code) => ReachesItsWriter(f.code, f.home, f.homeId, f.homeAct)

\* Following the chain goes down the frame array, so outer_slots never follows
\* it round, and a depth the verifier allowed never runs out of the chain's
\* end while its hops succeed: it lands on a frame of that static depth.
ChainDescends ==
  runs # <<>> =>
    \A d \in 0 .. Nesting[Top.code] :
      OuterFrame[d] # -1 =>
        /\ Nesting[frames[OuterFrame[d]].code] = Nesting[Top.code] - d
        /\ d > 0 => OuterFrame[d] < OuterFrame[d - 1]

\* While a run_frames call lasts, nothing it does disturbs the activations it
\* was called from: they are where they were when it answers, so the C local
\* `frame` of the run outside stays good.
KeepsCallers ==
  runs # <<>> /\ Len(runs') >= Len(runs) =>
    /\ frameCount' > Last(runs).base
    /\ \A i \in 0 .. Last(runs).base - 1 : frames'[i] = frames[i]

CallersKept == [][KeepsCallers]_vars

\* A primitive that called a block or loaded a chunk leaves its caller with
\* the frames it had, and with one reply in place of the send's operands and
\* none of the caller's own taken.  There is nothing above that reply either --
\* however many frames deep the call ended -- except after a block whose code
\* holds a HALT, which no compiled block does and the verifier lets through.
Balances ==
  ~hadError /\ ~hadError' /\ Len(runs') = Len(runs) - 1 /\ runs' # <<>> =>
    LET r == Last(runs) IN
      /\ frameCount' = r.base
      /\ stackTop' >= r.mark - r.drop + 1
      /\ Top.code \notin Halts \/ r.kind = "chunk" => stackTop' = r.mark - r.drop + 1

CallsBalanced == [][Balances]_vars
===============================================================================
