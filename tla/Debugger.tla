------------------------------- MODULE Debugger -------------------------------
(***************************************************************************)
(* solid: a program offers its debugger a stop wherever it comes to another*)
(* line or another frame, and the debugger takes those that the last       *)
(* command asked for, which it tells apart by lines and by how many frames *)
(* there are.                                                              *)
(*                                                                         *)
(* A program is what happens to its frames: the line of the next           *)
(* instruction of each, and what entered it -- a message, a primitive that *)
(* calls blocks in a row, onError or ensure, or one of these two for its   *)
(* handler or its cleanup.                                                 *)
(***************************************************************************)
EXTENDS Integers, Sequences, FiniteSets, SequencesExt

CONSTANTS
  Line,       \* lines of the program
  MaxDepth,   \* SOL_FRAMES_MAX
  MaxEntered  \* bound: frames entered

VARIABLES
  stack,    \* the frames, innermost last
  entered,  \* frames entered so far: their ids
  last,     \* vm->debug_last_line and vm->debug_last_frame_id
  solid,    \* the debugger
  breaks,   \* lines with a breakpoint
  doing,    \* what goes on: an "offer", a "prompt", an instruction to "execute", one that
            \* is "failing" at the prompt, a "fail" or an "exit" that unwinds, or "over"
  asked,    \* history: where the last command to go on was given
  came      \* history: how the innermost frame came to its line

vars == <<stack, entered, last, solid, breaks, doing, asked, came>>

Modes == {"step", "next", "finish", "continue"}
Entries == {"message", "loop", "guarded", "ensured"}

Top == Last(stack)
Depth == Len(stack)
Place == [line |-> Top.line, id |-> Top.id]

\* after: what a cleanup goes on with.
Frame(by, line, after) == [id |-> entered + 1, by |-> by, line |-> line, after |-> after]

Init ==
  /\ \E l \in Line : stack = <<[id |-> 1, by |-> "run", line |-> l, after |-> "answer"]>>
  /\ entered = 1
  /\ last = [line |-> -1, id |-> 0]
  /\ solid = [mode |-> "step", depth |-> 0, line |-> 0, last_offer_depth |-> -1, quitting |-> FALSE]
  /\ breaks = {}
  /\ doing = "offer"
  /\ asked = [line |-> 0, id |-> 0, depth |-> 0]
  /\ came = "new"

-----------------------------------------------------------------------------
(* The offers of the machine, and which of them are taken.                 *)

\* Mutant of Moved: by the number of frames and not by which it is.
MovedByDepth == Top.line # last.line \/ Depth # solid.last_offer_depth

Moved == Place # last

\* A return comes back to a line that was arrived at before.
Returning == solid.last_offer_depth > Depth

\* Mutant of Wanted: a return to the line that next was asked on is a stop.
WantedOnReturn ==
  \/ solid.mode = "step"
  \/ (solid.mode = "next" /\ Depth <= solid.depth)
  \/ (solid.mode = "finish" /\ Depth < solid.depth)

Wanted ==
  \/ solid.mode = "step"
  \/ (solid.mode = "next" /\ (Depth < solid.depth \/ (Depth = solid.depth /\ Top.line # solid.line)))
  \/ (solid.mode = "finish" /\ Depth < solid.depth)

Offer ==
  /\ doing = "offer"
  /\ last' = Place
  /\ came' = "here"
  /\ IF Moved
     THEN /\ solid' = [solid EXCEPT !.last_offer_depth = Depth]
          /\ doing' = IF (~Returning /\ Top.line \in breaks) \/ Wanted THEN "prompt" ELSE "execute"
     ELSE doing' = "execute" /\ UNCHANGED solid
  /\ UNCHANGED <<stack, entered, breaks, asked>>

-----------------------------------------------------------------------------
(* What the person at the prompt may ask for.                              *)

\* Once quitting, every command to go on is an exit.
GoOn(mode) ==
  /\ doing = "prompt"
  /\ solid' = [solid EXCEPT !.mode = mode,
                            !.depth = IF mode \in {"next", "finish"} THEN Depth ELSE @,
                            !.line = IF mode = "next" THEN Top.line ELSE @]
  /\ asked' = [line |-> Top.line, id |-> Top.id, depth |-> Depth]
  /\ doing' = IF solid.quitting THEN "exit" ELSE "execute"
  /\ UNCHANGED <<stack, entered, last, breaks, came>>

\* quit, or the end of the input.
Quit ==
  /\ doing = "prompt"
  /\ solid' = [solid EXCEPT !.quitting = TRUE]
  /\ doing' = "exit"
  /\ UNCHANGED <<stack, entered, last, breaks, asked, came>>

Break(l) ==
  /\ doing \in {"prompt", "failing"}
  /\ breaks' = breaks \cup {l}
  /\ UNCHANGED <<stack, entered, last, solid, doing, asked, came>>

Delete(l) ==
  /\ doing \in {"prompt", "failing"} /\ l \in breaks
  /\ breaks' = breaks \ {l}
  /\ UNCHANGED <<stack, entered, last, solid, doing, asked, came>>

\* Anything that would go on, quit too, lets the failure unwind.
LetFall ==
  /\ doing = "failing"
  /\ doing' = "fail"
  /\ UNCHANGED <<stack, entered, last, solid, breaks, asked, came>>

-----------------------------------------------------------------------------
(* The program.                                                            *)

Enter(under, by, line, after, how) ==
  /\ entered < MaxEntered
  /\ stack' = Append(under, Frame(by, line, after))
  /\ entered' = entered + 1
  /\ came' = how
  /\ doing' = "offer"

\* An instruction, and the next of the frame is on line l.
Along(l) ==
  /\ doing = "execute"
  /\ stack' = [stack EXCEPT ![Depth].line = l]
  /\ came' = IF l = Top.line THEN "here" ELSE "along"
  /\ doing' = "offer"
  /\ UNCHANGED <<entered, last, solid, breaks, asked>>

\* The same, of an instruction that enters a frame.
Call(l, by, into) ==
  /\ doing = "execute" /\ Depth < MaxDepth
  /\ Enter([stack EXCEPT ![Depth].line = l], by, into, "answer", "new")
  /\ UNCHANGED <<last, solid, breaks, asked>>

\* The end of a frame, and what the primitive that entered it does next.
Return ==
  /\ doing = "execute"
  /\ \/ (Top.by = "loop" /\ \E l \in Line : Enter(Front(stack), "loop", l, "answer", "new"))
     \/ (Top.by = "ensured" /\ \E l \in Line : Enter(Front(stack), "cleanup", l, "answer", "new"))
     \/ /\ Top.by # "ensured"
        /\ stack' = Front(stack)
        /\ doing' = IF Top.after # "answer" THEN Top.after
                    ELSE IF stack' = <<>> THEN "over" ELSE "offer"
        /\ came' = "back"
        /\ UNCHANGED entered
  /\ UNCHANGED <<last, solid, breaks, asked>>

\* A failure is offered where it happens, unless its debugger has quit.
Fail ==
  /\ doing = "execute"
  /\ doing' = IF solid.quitting THEN "fail" ELSE "failing"
  /\ UNCHANGED <<stack, entered, last, solid, breaks, asked, came>>

Exit ==
  /\ doing = "execute"
  /\ doing' = "exit"
  /\ UNCHANGED <<stack, entered, last, solid, breaks, asked, came>>

\* One frame out of a failure or an exit.  The handler takes a failure; a cleanup
\* runs for both, and what it was to go on with outranks what went wrong in it.
Unwind ==
  /\ doing \in {"fail", "exit"}
  /\ \/ /\ Top.by = "guarded" /\ doing = "fail"
        /\ \E l \in Line : Enter(Front(stack), "handler", l, "answer", "caught")
     \/ /\ Top.by = "ensured"
        /\ \E l \in Line : Enter(Front(stack), "cleanup", l, doing, "caught")
     \/ /\ Top.by # "ensured" /\ ~(Top.by = "guarded" /\ doing = "fail")
        /\ stack' = Front(stack)
        /\ doing' = IF Depth = 1 THEN "over" ELSE IF Top.after # "answer" THEN Top.after ELSE doing
        /\ UNCHANGED <<entered, came>>
  /\ UNCHANGED <<last, solid, breaks, asked>>

Program ==
  \/ Return \/ Fail \/ Exit \/ Unwind
  \/ \E l \in Line : Along(l)
  \/ \E l, into \in Line, by \in Entries : Call(l, by, into)

Next ==
  \/ Offer \/ Quit \/ LetFall \/ Program
  \/ \E mode \in Modes : GoOn(mode)
  \/ \E l \in Line : Break(l) \/ Delete(l)

Spec == Init /\ [][Next]_vars

-----------------------------------------------------------------------------
(* Properties.                                                             *)

Waiting == {stack[i].id : i \in 1 .. Depth - 1}

\* A stop is at a breakpoint that was come to and not back to, or what the last
\* command asked for, which for next and finish is not inside anything that the
\* frame they were given in has called.
CalledFor ==
  \/ (Top.line \in breaks /\ came # "back")
  \/ solid.mode = "step"
  \/ /\ solid.mode \in {"next", "finish"}
     /\ asked.id \notin Waiting
     /\ (asked.id = Top.id => (solid.mode = "next" /\ asked.line # Top.line))

\* Nothing runs without a stop that the last command was to stop before: another
\* place at all, another line of the frame or anything once it and its callers'
\* place among the frames is gone, and in every mode a breakpoint come to.  (One
\* that a call returns to, or that a failure unwinds to, may be passed.)
NothingPassed ==
  LET there == asked.id = Top.id /\ asked.line = Top.line IN
  /\ solid.mode = "step" => there
  /\ solid.mode = "next" => (Depth >= asked.depth /\ (asked.id = Top.id => there))
  /\ solid.mode = "finish" => Depth >= asked.depth
  /\ (Top.line \in breaks /\ came \in {"new", "along"}) => there

\* solid stops where it was asked to and nowhere else, though it goes by depths and
\* frames come and go at one depth: calls, blocks called in a row, handlers and
\* cleanups (debugger.c:482, vm.c:898).
StopsWhereAsked ==
  [][doing = "offer" => /\ (doing' = "prompt" => CalledFor)
                        /\ (doing' = "execute" => NothingPassed)]_vars

===============================================================================
