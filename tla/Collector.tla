------------------------------ MODULE Collector ------------------------------
(***************************************************************************)
(* The heap of one machine and its collector: allocation, marking from the *)
(* roots, the weak symbol table, sweeping, and what a program and a        *)
(* primitive do to the graph of cells between two allocations.             *)
(*                                                                         *)
(* When a collection happens is abstracted: any allocation may bring one.  *)
(* Where it happens is kept: before the new cell is made, while the        *)
(* primitive that asked for it holds other cells in C locals.  Primitives  *)
(* are one pattern of the source: a result made first and kept as a        *)
(* temporary root while blocks are called and pieces are allocated.        *)
(***************************************************************************)
EXTENDS Integers, Sequences, FiniteSets, SequencesExt

CONSTANTS
  Cell,        \* addresses a cell can have
  Root,        \* vm->root, standing for the class objects too
  None,        \* no cell
  Name,        \* spellings of symbols
  StackMax,    \* bound: cells on the value stack
  TempsMax,    \* SOL_GC_MAX_TEMPS
  MaxCalls,    \* bound: primitives in progress
  MaxKept,     \* bound: cells an extension retains
  MaxHandles   \* bound: foreign resources ever wrapped

ASSUME CollectorAssumption ==
  /\ IsFiniteSet(Cell)
  /\ Root \in Cell
  /\ None \notin Cell
  /\ {"free", "plain", "foreign"} \cap Name = {}
  /\ StackMax \in Nat /\ TempsMax \in Nat /\ MaxCalls \in Nat
  /\ MaxKept \in Nat /\ MaxHandles \in Nat

VARIABLES
  what,      \* what each address holds: nothing, a cell with edges, a
             \* foreign cell, or the symbol of a spelling
  refs,      \* the cells each cell points at, what blacken follows
  handle,    \* the resource a foreign cell owns, 0 for none
  releases,  \* how often each resource has been released
  table,     \* vm->symbols
  stack,     \* the cells on the value stack
  temps,     \* vm->temps
  kept,      \* the cells in vm->retained
  calls,     \* the primitives in progress, innermost last
  phase,     \* "run", "mark", "sweep", or "ended"
  marked,    \* the cells whose mark bit is set
  gray,      \* vm->gray
  request    \* the allocation in progress

graph == <<what, refs, handle, releases, table>>
program == <<stack, temps, kept, calls>>
collection == <<marked, gray>>
vars == <<what, refs, handle, releases, table, stack, temps, kept, calls,
          phase, marked, gray, request>>

-----------------------------------------------------------------------------
Kind == {"plain", "foreign"} \cup Name

\* An allocation: what is made, and where the code that asked for it puts it:
\* on the stack, in the local that holds a primitive's result, or in the
\* result itself.
Request == [make : Kind, to : {"stack", "result", "piece"}]
NoRequest == [make |-> "free", to |-> "stack"]

\* A primitive in progress: its receiver is at stack index base, result is
\* its C local, and inBlock says that a block it called is running.
Call == [base : Nat, result : Cell \cup {None}, inBlock : BOOLEAN]

heap == {c \in Cell : what[c] # "free"}
Symbols == {c \in Cell : what[c] \in Name}

Top == stack[Len(stack)]
Current == calls[Len(calls)]
Base == IF calls = <<>> THEN 0 ELSE Current.base

\* The program runs: an instruction of it, or of a block a primitive called.
Running == phase = "run" /\ request = NoRequest /\ (calls # <<>> => Current.inBlock)

\* The primitive itself runs.
InPrimitive == phase = "run" /\ request = NoRequest /\ calls # <<>> /\ ~Current.inBlock

\* Mutant of Roots: the temporary roots are not marked.
RootsSansTemps == ToSet(stack) \cup kept \cup {Root}

\* What mark_roots marks.
Roots == ToSet(stack) \cup ToSet(temps) \cup kept \cup {Root}

-----------------------------------------------------------------------------
Init ==
  /\ what = [c \in Cell |-> IF c = Root THEN "plain" ELSE "free"]
  /\ refs = [c \in Cell |-> {}]
  /\ handle = [c \in Cell |-> 0]
  /\ releases = <<>>
  /\ table = {}
  /\ stack = <<>>
  /\ temps = <<>>
  /\ kept = {}
  /\ calls = <<>>
  /\ phase = "run"
  /\ marked = {}
  /\ gray = {}
  /\ request = NoRequest

-----------------------------------------------------------------------------
(* Instructions                                                            *)

Push(c) ==
  /\ Running
  /\ Len(stack) < StackMax
  /\ stack' = Append(stack, c)
  /\ UNCHANGED <<graph, temps, kept, calls, phase, collection, request>>

PushGlobal == Push(Root)

Load == stack # <<>> /\ \E c \in refs[Top] : Push(c)

Pop ==
  /\ Running
  /\ Len(stack) > Base
  /\ stack' = Front(stack)
  /\ UNCHANGED <<graph, temps, kept, calls, phase, collection, request>>

\* A slot or an element is set, or loses what it held.
Store ==
  /\ Running
  /\ Len(stack) > Base + 1
  /\ LET a == stack[Len(stack) - 1] IN
       /\ what[a] = "plain"
       /\ refs' = [refs EXCEPT ![a] = @ \cup {Top}]
  /\ stack' = Front(stack)
  /\ UNCHANGED <<what, handle, releases, table, temps, kept, calls, phase, collection, request>>

Forget ==
  /\ Running
  /\ stack # <<>>
  /\ \E c \in refs[Top] : refs' = [refs EXCEPT ![Top] = @ \ {c}]
  /\ UNCHANGED <<what, handle, releases, table, program, phase, collection, request>>

\* An extension retains the value it is given, or stops retaining one.
Retain ==
  /\ Running
  /\ stack # <<>>
  /\ Cardinality(kept) < MaxKept
  /\ kept' = kept \cup {Top}
  /\ UNCHANGED <<graph, stack, temps, calls, phase, collection, request>>

Unretain ==
  /\ Running
  /\ \E c \in kept : kept' = kept \ {c}
  /\ UNCHANGED <<graph, stack, temps, calls, phase, collection, request>>

\* Mutant of Released: the handle is left in the cell.
ReleasedKeepingHandle(cells) ==
  /\ handle' = handle
  /\ releases' = [h \in DOMAIN releases |->
                    releases[h] + Cardinality({c \in cells : handle[c] = h})]

\* sol_foreign_release on each of a set of cells: the handle is cleared, and
\* the resource released, unless that has been done.
Released(cells) ==
  /\ handle' = [c \in Cell |-> IF c \in cells THEN 0 ELSE handle[c]]
  /\ releases' = [h \in DOMAIN releases |->
                    releases[h] + Cardinality({c \in cells : handle[c] = h})]

\* A primitive of an extension gives a resource back in its own time.
GiveBack ==
  /\ Running
  /\ stack # <<>>
  /\ what[Top] = "foreign"
  /\ Released({Top})
  /\ UNCHANGED <<what, refs, table, program, phase, collection, request>>

-----------------------------------------------------------------------------
(* Allocation                                                              *)

\* A cell is asked for: sol_gc_maybe_collect comes first.
Ask(make, to) ==
  /\ request' = [make |-> make, to |-> to]
  /\ \/ phase' = phase /\ UNCHANGED collection
     \/ phase' = "mark" /\ marked' = Roots /\ gray' = Roots

New ==
  /\ Running
  /\ Len(stack) < StackMax
  /\ \/ Ask("plain", "stack")
     \/ Len(releases) < MaxHandles /\ Ask("foreign", "stack")
  /\ UNCHANGED <<graph, program>>

\* sol_symbol_intern finds the symbol in the table, or asks for a new one.
Intern(n) ==
  /\ Running
  /\ Len(stack) < StackMax
  /\ LET found == {c \in table : what[c] = n} IN
       \/ /\ found # {}
          /\ \E c \in found : stack' = Append(stack, c)
          /\ UNCHANGED <<phase, collection, request>>
       \/ /\ found = {}
          /\ Ask(n, "stack")
          /\ UNCHANGED stack
  /\ UNCHANGED <<graph, temps, kept, calls>>

\* The new cell goes where the code that asked for it puts it, and a new
\* symbol into the table.
Place(c) ==
  CASE request.to = "stack" ->
         /\ stack' = Append(stack, c)
         /\ refs' = [refs EXCEPT ![c] = {}]
         /\ UNCHANGED <<temps, calls>>
    [] request.to = "result" ->
         /\ calls' = [calls EXCEPT ![Len(calls)].result = c]
         /\ temps' = Append(temps, c)
         /\ refs' = [refs EXCEPT ![c] = {}]
         /\ UNCHANGED stack
    [] request.to = "piece" ->
         /\ refs' = [refs EXCEPT ![c] = {}, ![Current.result] = @ \cup {c}]
         /\ UNCHANGED <<stack, temps, calls>>

Make ==
  /\ phase = "run"
  /\ request # NoRequest
  /\ ~(request.to = "result" /\ Len(temps) = TempsMax)
  /\ \E c \in Cell :
       /\ what[c] = "free"
       /\ what' = [what EXCEPT ![c] = request.make]
       /\ Place(c)
       /\ IF request.make = "foreign"
          THEN /\ handle' = [handle EXCEPT ![c] = Len(releases) + 1]
               /\ releases' = Append(releases, 0)
          ELSE UNCHANGED <<handle, releases>>
       /\ table' = IF request.make \in Name THEN table \cup {c} ELSE table
  /\ request' = NoRequest
  /\ UNCHANGED <<kept, phase, collection>>

\* sol_gc_push_temp ends the process when the stack of temporary roots is
\* full, and an allocator ends it when malloc answers nothing: here, when no
\* address is free.
Exit ==
  /\ phase = "run"
  /\ request # NoRequest
  /\ \/ request.to = "result" /\ Len(temps) = TempsMax
     \/ \A c \in Cell : what[c] # "free"
  /\ phase' = "ended"
  /\ UNCHANGED <<graph, program, collection, request>>

-----------------------------------------------------------------------------
(* The collector                                                           *)

\* Mutant of Edges: a cell's edges are followed only if it has none to itself.
EdgesUnlessCyclic(c) == IF c \in refs[c] THEN {} ELSE refs[c]

\* What blacken follows.
Edges(c) == refs[c]

\* Mutant of Blacken: a cell joins the worklist each time it is reached.
BlackenEachTime ==
  /\ phase = "mark"
  /\ \E c \in gray :
       /\ marked' = marked \cup Edges(c)
       /\ gray' = (gray \ {c}) \cup Edges(c)
  /\ UNCHANGED <<graph, program, phase, request>>

\* One cell leaves the worklist, and the cells it points at join it the first
\* time each is reached.
Blacken ==
  /\ phase = "mark"
  /\ \E c \in gray :
       /\ marked' = marked \cup Edges(c)
       /\ gray' = (gray \ {c}) \cup (Edges(c) \ marked)
  /\ UNCHANGED <<graph, program, phase, request>>

Marked ==
  /\ phase = "mark"
  /\ gray = {}
  /\ phase' = "sweep"
  /\ UNCHANGED <<graph, program, collection, request>>

\* Mutant of Pruned: the table keeps what it holds.
NotPruned == table

\* What sol_gc_prune_symbols leaves in the table.
Pruned == table \cap marked

\* The table is pruned, and every cell that is not marked is freed, a foreign
\* one after its resource has been released.
Sweep ==
  /\ phase = "sweep"
  /\ table' = Pruned
  /\ LET dead == heap \ marked IN
       /\ what' = [c \in Cell |-> IF c \in dead THEN "free" ELSE what[c]]
       /\ refs' = [c \in Cell |-> IF c \in dead THEN {} ELSE refs[c]]
       /\ Released(dead)
  /\ marked' = {}
  /\ phase' = "run"
  /\ UNCHANGED <<program, gray, request>>

\* sol_gc_free_all: every cell is freed, whatever its reachability.
FreeAll ==
  /\ phase = "run"
  /\ calls = <<>>
  /\ request = NoRequest
  /\ what' = [c \in Cell |-> "free"]
  /\ refs' = [c \in Cell |-> {}]
  /\ Released(heap)
  /\ table' = {}
  /\ stack' = <<>>
  /\ kept' = {}
  /\ phase' = "ended"
  /\ UNCHANGED <<temps, calls, collection, request>>

-----------------------------------------------------------------------------
(* A primitive that builds a result                                        *)

StartPrimitive ==
  /\ Running
  /\ Len(calls) < MaxCalls
  /\ Len(stack) > Base
  /\ calls' = Append(calls, [base |-> Len(stack), result |-> None, inBlock |-> FALSE])
  /\ Ask("plain", "result")
  /\ UNCHANGED <<graph, stack, temps, kept>>

\* The block is called with an element of the receiver, read just before.
CallBlock ==
  /\ InPrimitive
  /\ Len(stack) < StackMax
  /\ \E c \in refs[stack[Current.base]] : stack' = Append(stack, c)
  /\ calls' = [calls EXCEPT ![Len(calls)].inBlock = TRUE]
  /\ UNCHANGED <<graph, temps, kept, phase, collection, request>>

\* What the block answers is added to the result; nothing allocates between.
BlockAnswers ==
  /\ Running
  /\ calls # <<>>
  /\ Len(stack) > Base
  /\ refs' = [refs EXCEPT ![Current.result] = @ \cup {Top}]
  /\ stack' = SubSeq(stack, 1, Base)
  /\ calls' = [calls EXCEPT ![Len(calls)].inBlock = FALSE]
  /\ UNCHANGED <<what, handle, releases, table, temps, kept, phase, collection, request>>

\* Mutant of BlockFails: the early return leaves the root behind.
BlockFailsRooted ==
  /\ Running
  /\ calls # <<>>
  /\ stack' = SubSeq(stack, 1, Base - 1)
  /\ calls' = Front(calls)
  /\ UNCHANGED <<graph, temps, kept, phase, collection, request>>

\* The block fails: the primitive drops its root and answers nil.
BlockFails ==
  /\ Running
  /\ calls # <<>>
  /\ temps' = Front(temps)
  /\ stack' = SubSeq(stack, 1, Base - 1)
  /\ calls' = Front(calls)
  /\ UNCHANGED <<graph, kept, phase, collection, request>>

\* A piece of the result is allocated, and stored before the next one.
AddPiece ==
  /\ InPrimitive
  /\ Ask("plain", "piece")
  /\ UNCHANGED <<graph, program>>

\* The root is dropped and the result takes
\* the receiver's place on the stack; nothing allocates between.
EndPrimitive ==
  /\ InPrimitive
  /\ temps' = Front(temps)
  /\ stack' = Append(SubSeq(stack, 1, Base - 1), Current.result)
  /\ calls' = Front(calls)
  /\ UNCHANGED <<graph, kept, phase, collection, request>>

-----------------------------------------------------------------------------
Instruction ==
  \/ PushGlobal \/ Load \/ Pop \/ Store \/ Forget \/ Retain \/ Unretain
  \/ GiveBack \/ New \/ (\E n \in Name : Intern(n))

Primitive ==
  StartPrimitive \/ CallBlock \/ BlockAnswers \/ BlockFails \/ AddPiece \/ EndPrimitive

Collection == Blacken \/ Marked \/ Sweep

Next == Instruction \/ Primitive \/ Make \/ Exit \/ Collection \/ FreeAll

Spec == Init /\ [][Next]_vars

\* A collection that has begun goes on: it is one C call that waits for nothing.
FairSpec == Spec /\ WF_vars(Collection)

-----------------------------------------------------------------------------
(* Properties                                                              *)

\* Every variable has its type.
TypeOK ==
  /\ what \in [Cell -> {"free"} \cup Kind]
  /\ refs \in [Cell -> SUBSET Cell]
  /\ releases \in Seq(Nat)
  /\ handle \in [Cell -> 0 .. Len(releases)]
  /\ table \subseteq Cell
  /\ stack \in Seq(Cell)
  /\ temps \in Seq(Cell)
  /\ kept \subseteq Cell
  /\ calls \in Seq(Call)
  /\ phase \in {"run", "mark", "sweep", "ended"}
  /\ marked \subseteq Cell
  /\ gray \subseteq Cell
  /\ request \in Request \cup {NoRequest}

\* The cells held in C locals by primitives in progress.
Locals == {calls[i].result : i \in DOMAIN calls} \ {None}

\* No root, no local of a primitive and no cell points at freed memory, at
\* any moment of a collection or between two.
NothingDangles ==
  phase # "ended" =>
    /\ Roots \cup Locals \subseteq heap
    /\ \A c \in heap : refs[c] \subseteq heap

\* The temporary roots are the results of the primitives in progress, of
\* which the innermost may have none yet: every way out of a primitive drops
\* the root it pushed.
Made == IF calls # <<>> /\ Current.result = None THEN Len(calls) - 1 ELSE Len(calls)

TempsBalanced == temps = [i \in 1 .. Made |-> calls[i].result]

\* The cells that can be reached from a set.
Closed(s) == \A c \in s : refs[c] \subseteq s
Reachable(from) == {c \in Cell : \A s \in SUBSET Cell : (from \subseteq s /\ Closed(s)) => c \in s}

\* A collection frees every cell that nothing reaches, and only those.
FreesExactlyGarbage ==
  [][phase = "sweep" => heap' = Reachable(Roots)]_vars

\* A spelling has one symbol: two are never live at once, and the one that is
\* live is the one interning finds, so symbols may be compared by address.
SymbolsUnique ==
  phase # "ended" =>
    /\ table = Symbols
    /\ \A c, d \in table : what[c] = what[d] => c = d

\* A resource is released exactly once, when its cell is freed or when an
\* extension gives it back, whichever comes first.
ReleasedOnce ==
  \A h \in DOMAIN releases :
    releases[h] = IF \E c \in Cell : handle[c] = h THEN 0 ELSE 1

\* A collection ends.
CollectionEnds == phase = "mark" ~> phase = "run"
===============================================================================
