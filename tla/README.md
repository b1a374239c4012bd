# Solveig: a verification development

Solveig is a small language of objects and messages: a compiler (`solas`), a
bytecode machine (`solvm`, the library `solum`), an interactive shell (`solis`),
a debugger (`solid`) and a macro front end (`parasol`), all in C, one thread
each. This directory holds TLA+ modules of them, the configurations TLC checks
those with, and proofs TLAPS checks. Paths below are relative to the
repository; `vm.c`, `object.c`, `gc.c`, `builtins.c`, `extend.c` and the like
are files of `solum/src/`.

To check a run: `tlc -config Unwind.cfg MCUnwind.tla`. To check a proof:
`tlapm UnwindProof.tla`. `PROJECT.json` lists the runs, the mutants that show
each property can fail, the lines of source each definition stands for, the
hazards, the findings and the theorems.

## The system

| component | state | operations | hard behaviour | what makes it correct |
|---|---|---|---|---|
| frames, value stack, blocks (`vm.c`) | `frames[]` (never cleared), `frame_count`, the value stack, `next_frame_id`; a block's `home_frame` and `home_id` | sends, `OP_BLOCK`, `OP_OUTER`, `OP_RETURN`, `OP_HALT`, `sol_vm_call_block`, `sol_vm_call_chunk` | `run_frames` is re-entered by primitives, and unwinds frame by frame to a C caller; a block outlives its home and the slot is used again | activations hold disjoint parts of the stack; a block reaches the activation that wrote it or fails; a call leaves its caller as it was |
| failures, exits, stops (`vm.c`, `builtins.c`, `value.c`) | `had_error`, `exiting`, `stopped`, the message, `steps_remaining` | `sol_vm_runtime_error`, `system:exit`, `sol_vm_stop`, `onError`, `ensure`, every primitive that calls a block, and the renderer | failures raised while one is in flight, inside handlers and cleanups; limits met anywhere; a renderer that goes on | no failure lost or reported twice; a cleanup runs once; after a stop no handler or cleanup begins; what runs past a limit is bounded |
| collector (`gc.c`, `object.c`) | the list of cells, the mark bits, the worklist, eight temporary roots, the weak symbol table | allocation of nine kinds of cell, `sol_gc_collect`, `sol_gc_free_all` | any allocation may collect while C locals hold cells; cycles; a resource released early, then swept | frees what nothing reaches and nothing else; symbols unique; a resource released once |
| retained registry (`extend.c`) | slots with a generation, a free list through them | retain, retained, release | stale, repeated and invented tokens; reuse; wrap | a token stands for its value until released, then for nothing |
| dictionaries (`object.c`, `builtins.c`) | seats, `count`, `used` | put, at, remove, size, do, keysAndValuesDo | tombstones, rebuilds in the middle of a walk | the map it claims to be; room for a probe to stop |
| slots, prototypes, the slot index (`object.c`) | a list of slots, an index beside a long one | define, lookup | the index is rebuilt and may fail to be | the index answers what the list does |
| export boundaries (`object.c`, `vm.c`, `builtins.c`) | a list per object, a bit per slot | exports, sends, binds, slots, slotAt | boundaries drawn after slots and after descendants | from outside an object is its export list |
| interned names, cached globals, loading (`vm.c`, `bytecode.c`) | per chunk: `interned`, `global_slots`, `interned_for`; per machine: names, `loaded` | intern a chunk, find and bind a global, `system:load` | a chunk run by one machine after another at the same address; loads that reach themselves | a cache is never another machine's; a file runs once |
| verifier and `.sob` files (`serialize.c`) | none between calls | read, verify, write | jumps, loops, every way into an instruction | accepted code never underflows, and what is written is what is read |
| standard input (`stdin.c`) | one window for the process, the terminal mode | `held`, `take`, `fill`, `waiting`, `forget` | two machines and the shell share it; raw mode around one key | no byte lost or seen twice; the mode restored |
| compiler (`solas/src`) | scopes, captured names, chunk under construction, the files included | lex, parse, emit, `@expr`, `@include` | inlining of control messages, captures against frames at run time, files that include one another | what it emits verifies, and means what the messages mean |
| shell (`solis/src`) | line, cursor, history, scan of an unfinished submission | keys, history, join lines | escape sequences, history while editing | the text edited is the text submitted |
| debugger (`solid/src`) | mode, depth, last offer, breakpoints | step, next, finish, break, quit | blocks run frames of their own between two offers | it stops where it was asked to |
| parasol (`parasol/src`) | forms declared, files used, names taken, the tree | `@use`, `@syntax`, uses of forms, expansion, renaming | several forms under one word, dialects that collide, templates whose names meet those of where they land | a use is the form it is spelled like, and every name means what it meant where it was written |
| other programs (`builtins.c`) | descriptors, a pipe, a child | `system:run`, `system:capture` | the child and what it leaves behind run beside the program, through a pipe that fills | streams go where they were asked to; nobody waits for ever; no descriptor is left |
| arrays (`builtins.c`) | elements and a count | `do`, `collect`, `select`, `inject`, `sorted`, ranges | a block changes the array that is being walked | a walk stays inside; a sort answers a permutation |
| net, embedding, commands | sockets, options | I/O | none of their own | they call the components above |

The parts meet in `struct SolVM` (`solum/include/solum/vm.h`). A primitive is a
C function called by `run_frames`; it may call a block, which runs `run_frames`
again on the same stack and frame array. A failure is a flag every loop tests.
An allocation may run the collector, which reads the stack, the frames, the
globals, the temporary roots and the retained slots. No two threads share a
machine: what interleaves is program, primitive and collector, at every call and
every allocation; the host's next run after a failure; what is typed; and the
programs it starts.

## The modules

| module | models | extends or uses |
|---|---|---|
| `Frames`, `MCFrames`, `FramesProof` | the activation records | |
| `Unwind`, `MCUnwind`, `UnwindProof` | failures, exits, stops, limits, `onError`, `ensure` | |
| `Registry` | what `extend.h` promises of retained values | |
| `Retained`, `MCRetained` | the slot map that keeps the promise | implements `Registry` |
| `Collector`, `MCCollector`, `CollectorProof` | heap, roots, collector, symbol table, foreign resources | |
| `Loading`, `LoadingProof` | machines that come and go, chunks they share, files they load | |
| `Terminal` | standard input: the window, its readers, raw mode, the prompt | |
| `History` | the lines of the shell, its arrow keys and its file | |
| `Children` | `system:run` and `system:capture` | |
| `Dictionary` | what a dictionary and a walk of it promise | |
| `Dict` | the open-addressed table and the walk | implements `Dictionary` |
| `Objects` | slots, their index, prototypes, export boundaries | |
| `Arrays` | walks, folds, sorts and counted loops, and blocks that change the array | |
| `Bytecode` | chunks, files, the verifier | |
| `Compiler` | what `solas` emits for a program | extends `Bytecode` |
| `Machine` | what `solum` does with it | extends `Compiler` |
| `Infix` | the `@expr` region | extends `Compiler` |
| `Toolchain`, `MCToolchain` | a program from source to the end of its run | extends `Machine`, `Infix` |
| `Include` | `@include` | |
| `Debugger` | `solid` and the hook it hangs on | |
| `Dialect` | parasol's header and the uses of its forms | |
| `Expand`, `MCForms` | parasol's expansion, and modules for it | extends `Dialect` |
| `Hosts`, `MCHosts`, `HostsProof` | what is around a running program | extends `Retained`; `Unwind`, `Loading`, `History`, `Children` |
| `Containers`, `MCContainers`, `ContainersProof` | what a program keeps values in | extends `Dict`; `Objects`, `Arrays` |
| `Tools`, `MCTools`, `ToolsProof` | the tools around a program | `Include`, `Debugger`, `Terminal`; the run adds `MCToolchain`, `Expand` |
| `Iteration` | lemmas about taking a step over and over, for the proofs | |

`MCHosts`, `MCContainers` and `MCTools` put several components in one run. Those
components share no state, so a behaviour of such a run moves one of them (`part`)
and leaves the others in an initial state; it is a union of state spaces and not a
product. `Hosts`, `Containers` and `Tools` hold the instances and the assumptions on
their constants, which TLC evaluates, and their proof modules prove of the instances
what the runs check of them.

### Frames

A frame keeps its code, its identity, where its slots begin on the value stack
and its home; the stack is its height. `frames` is an array that keeps what
finished activations left in it, as the C array does: that is what makes a stale
home dangerous. `runs` is the C stack of `run_frames` calls: each entry is a
caller (`sol_vm_run`, `sol_vm_call_chunk`, a primitive's `sol_vm_call_block`, or
`onError`) with the frame count and stack height it has in its locals. The history
variable `act` in frames and blocks, never read by an action, says which
activation really wrote a block; `LexicalReach` compares it with what
`outer_slots` finds by index and identity. Code is any forest of bodies with
arities and slot counts, as the verifier leaves it. `Halts` are the chunks with an
`OP_HALT` in them: `solas` puts one at the end of top levels only, but the verifier
accepts one at the end of any chunk, and the run has one in a block too. `run_frames`
answers success from wherever it is met, any number of frames deep; of its callers
`sol_vm_call_chunk` and `sol_vm_send` put frames and stack back, `sol_vm_run` neither,
and `sol_vm_call_block` drops the frames, takes the topmost value for the reply and
leaves what is under it (`Halt`). A guarded body that `push_frame` refuses goes to the
handler like one that failed (`CallGuarded`). Instructions that only move
operands are `PushValue` and `PopValue`; `MaxOperands` is the height the
verifier would have computed. An error can happen at any instruction (`Fail`)
and unwinds one C caller at a time (`Unwind`, `Catch`). A call that the renderer makes
after a failure is not here but in `Unwind`: one instruction, and `sol_vm_send` puts
frames and stack back.

### Unwind

`calls` is again the C stack, now with what each caller will do with the answer: give up
(`plain`), handle (`guarded`, `handler`), clean up (`ensured`, `cleanup`, `aside`, the
last one holding the failure `prim_block_ensure` lifted out), or go on regardless
(`rendering`). `vm` is the record of flags. Failures are numbered as they are raised so
that their fate can be stated: in flight, set aside, handed to a handler, dropped by an
`ensure`, or outranked by a stop. The renderer (`render`, for `print`, `asString` and
messages that show a value) sends `asString` to one object after another and never tests
the flag: after a failure or a stop each object still to come is asked as well
(`RenderNext`), one instruction of its block executes and the loop then leaves. An
object that cannot be asked is a failed call to the renderer (`FirstRefused`,
`NextRefused`). `late` counts the objects asked with the flag up; `MaxLate` bounds how
many are left in what is being rendered. The step counter is a number modulo `Wrap` that
is decremented after the test, as `vm.c:885` does it. Any allocation may meet the memory
limit when `MemoryLimited`; allocation happens when names are interned (`Start`), in
instructions (`Work`), in a primitive before its first call (`CallPlain`), between two
objects and at the end of a rendering (`RenderingAnswered`), and in `error_from` before
a handler is called (`GuardedFails`).

### Registry and Retained

`Registry` has a set of held tokens, a set of spent ones, and the last reply.
`Retained` has the array, the free list, and generations modulo `Wrap`; the
refinement maps the tokens of slots in use to held ones. The tokens presented
range over every index and generation, so stale and invented ones are included.

### Collector

Cells are addresses with a set of edges. `request` splits an allocation in two:
it is asked for, a collection may run, and then the cell is made and put on the
stack, in a primitive's C local, or in the primitive's result. A primitive
(`Call`) is the pattern of `collect`, `select`, `sorted`, `split`, `files_in` and
the rest: result made first and pushed as a temporary root, blocks called with
the program running inside them, pieces allocated, root dropped on every way
out. Marking is one cell at a time from the worklist; the sweep is one step, as
no program code runs in it. When a collection happens (thresholds, limits,
foreign pressure) is nondeterministic: the properties hold wherever it happens.
Classes are the root; code cells and the accounting of bytes are left out, and
what a memory limit does to the run is in `Unwind`.

### Dictionary and Dict

`Dictionary` is a function from keys to values, a count of entries under keys
that equal nothing (a NaN can be put, is counted and is never found again), and
for each walk the keys still due. `Dict` is the table: linear probing over
`Hash`, tombstones reused by the next put on their way, a rebuild at twice the
size when `used + 1` exceeds three quarters. Which keys share a seat is the
constant `Hash`. Keys that are equal are one constant (0.0 and -0.0).

### Objects

An object is its prototype, its list of slots, the places of those its index
holds, and the array its boundary is drawn with, which other objects may share
and any holder may add to (`AddToList`). A slot keeps whether it is exported,
settled when it is made or when its object draws the line, and, as history,
whether who wrote it last was inside. `New` with a dictionary takes a step per
name (`FillSlot`), since the object exists between two of them. Whether `calloc`
gives an index its memory is a choice (`Got`) wherever the index would grow.
`Self` is who sends: nobody, or an object. Delegates (`via`) are left out.

### Arrays

One primitive at a time is in progress; a step goes from one answer of its block
to the next call of it. Between two steps the block may add, take or replace an
element, or fail. A sort is the calls of `merge_sort` in progress, each with its half,
its two indices and what it does next, and the array it sorts holds places of the
array that was sent `sorted`; its comparison is honest (by `Rank`, with equal elements)
or answers anything. Between two questions it goes step by step (`SortShort`,
`SortLeft`, `SortRight`, `MergeRest`, `MergeEnds`), and nothing else happens (`Waits`).
The store keeps `Stale` past the count, so a read beyond it is seen. A counted
loop runs over a range of `Elem`, whose ends are where the next addition would
overflow.

### Bytecode, Compiler, Machine, Infix, Toolchain

A chunk is code cells, an operand one cell whatever its width, with the tables
beside it. `Heights` is the verifier's propagation of stack heights over
successors, `Verify` its checks, `Saved` and `Loaded` the file with its runs of
lines and nested blocks, read with its refusals. `Compile` takes a program as a
tree of expressions: `solas` makes no trees, but what it emits for an expression
depends on the expression, the scopes around it and the chunk's tables only, and
those are its arguments. `Compile(program, FALSE)` sends every control message.
`Machine` is a function from a machine to the next: one instruction, a primitive
that waits for its block, a failure that ends the run. `Infix` is the recursive
descent of `@expr`, one operator per C function, from tokens to the same trees.
`Toolchain` compiles, saves, loads and runs a program and, after it, its twin
without inlining; it also loads code nobody compiled, and compiles regions alone.
These five modules use RECURSIVE operators and none has a theorem. Left out: the
texts of tokens and numbers, 16-bit limits of operands and of jumps, several of
the primitives a program may send, `onError` in a `Machine` program (a failure
ends its run), and objects other than classes as receivers. `OP_HALT` ends the
run wherever it stands; the verifier accepts it at the end of a block too.

### Include

A path is a directory and a name; several may lead to one file. `IncludeFile`
resolves beside the includer and then along the search path, and refuses, skips
or enters. `Noted` is what the compiler keeps of a global so as to warn that two
files claim it. The `.` behind an include has been read when the include is refused,
and `synchronise` then skips to the next one: the statement behind it is passed over
(`Failed(2)`). Anything else that does not parse fails before its `.` and loses only
itself. `emitted`, `warnings` and `errors` are history.

### Loading

`Run` is `sol_vm_run`: the chunk is interned for the machine at an address, and its
cached slots are dropped when that is another machine than before. A slot and a copy of
a name are known by the serial of the machine they belong to. Chunks are found by the
machine they were loaded for and the file, and so go with it; the host's own, and that
of a block in it, are nobody's. A text is a sequence of statements: bind or read a
global, load a file, or try to. `began` counts how often a machine ran a file; `shut`
marks one remembered though no frame was left for it. `Recompile` mends a file that did
not verify, at any time.

### Terminal, History, Children

`Terminal`: a byte is its place in what was typed. The driver gives whole lines,
or what there is in raw mode and from a pipe; the window takes a read, its readers
take from the window, `NewMachine` forgets it and the prompt flushes the driver on
entering and leaving raw mode. `taken` and `lost` are history: together with what
is held they must be what was typed.

`History`: the array of entries trimmed at `Limit`, the arrows' place in it, the
line set aside; the file written and trimmed when the shell ends, unless it has
nothing to write, and read with a fixed buffer when it starts: of a line longer than
the buffer the last piece is read, which is empty if the line fills it exactly. `own`
and `entered` are history: the line as it is being typed, and every line of the file,
as it could be read, and of the session, before empty ones and repeats are left out.
Which of them are entries, and in which place, is worked out in the properties
(`Remembered`, `Place`).

`Children`: a process is its table of descriptors. Opening takes the least
number, as POSIX has it; `dup2` of a number onto itself does nothing; close-on-exec
descriptors go at `Exec`. The child may start another program that outlives it
(`Spawn`) and keeps its descriptors. A pipe holds `PipeHolds` writes and a write
to a full one waits; one without readers kills. Only what goes to the pipe is
followed, one call at a time. What the operating system does is marked external.

### Debugger

A program is its frames: the line of the next instruction of each and what
entered it (a message, a primitive that calls blocks in a row, `onError`, `ensure`,
and the handler or cleanup of those). It goes along to any line, calls, returns,
fails and unwinds. The hook offers a stop when line or frame identity changed;
`solid` takes it by mode, depth and breakpoints. `asked` and `came` are history.
The lines are symmetric. What `solid` displays is left out, and so is the file of
a breakpoint.

### Dialect and Expand

A module is a header, a sequence of directives in each file, and statements, trees
in which a word and what follows it is not yet told to be the use of a form. `Read`
is the recursive descent over such a tree: `Narrow` follows every form under the
word at once, as `pattern_use` does, and what cannot be read becomes `Bad`. `using`
is the chain of files being read. A directive with an error in it is passed over
and the module goes no further than its reading. `Expand` takes one statement at a
time: arguments first, then the template with its binders renamed, then what that
contains. A name is a sequence, and t__1 is t and 1, so that one a program has
written meets one that was made. `Protect` finds the locals that have to give way
and `Rename` renames one of them, in any order. The reference `Plain` puts templates
in and renames nothing; there a name belongs to the place it was written in and is
resolved among the binders of that place only, and `NamesKept` compares what it
means with what its final spelling means. `Made` works a sequence out when it is
built, which TLC does not do by itself. Operators (their templates are forms like
others), layout and the printing of the result are left out.

## What the runs check

| run | bounds | states | shows |
|---|---|---|---|
| `frames` | 3 frames, stack 8, 5 activations; a body in a body and a loaded file, with a HALT in each | 2.3 M | activations, homes, nested runs |
| `unwind` | step limit 9, 4 C calls, 3 failures, 2 objects to go | 583 k | failures, exits, stops under a step limit |
| `hosts` | five parts, below | 723 k | what is around a program |
| `containers` | three parts, below | 277 k | dictionaries, objects, arrays |
| `tools` | five parts, below | 1.9 M | programs through the toolchain, includes, forms, the debugger, standard input |
| `collector` | 4 cells, 2 roots, 1 primitive, 1 resource, a symbol | 2.1 M | exactness, by symmetry |
| `collector_nested` | 3 cells, 3 primitives for 2 roots, 2 resources, 1 retained | 1.5 M | rooting, release, end of collections |
| `unwind_caught`, `unwind_outranked`, `retained_wrap`, `shared_chunk`, `inlining` | small | | counterexamples, see Findings |

*Frames.* Three frames are enough for a home, a block inside it, and a reuse of
either's place by another activation; five activations let an identity be used,
dropped, and its place taken twice; the depth limit and the stack limit are both
reached. `ActivationsApart`, `RunsNested`, `LexicalReach`, `ChainDescends`,
`CallersKept` and `CallsBalanced` say what the comments of `outer_slots`,
`sol_vm_call_block` and `OP_HALT` rely on. `CallsBalanced` is exact but for a block
that ends by a HALT, of which it says that frames are put back and nothing of the
caller's is taken. The machine may stop between runs
(`CHECK_DEADLOCK FALSE`): the host need not run it again.

*Unwind.* Four C callers nest an `ensure` in a handler in an `ensure`; three failures
are one in flight, one set aside and one dropped; two objects still to be rendered are
one after which the flag is seen and one more. The step limit is larger than the number
of instructions a nest of that depth needs to begin. `FailuresAccounted` is the ledger:
every failure is in one place, only a stop outranks, and no exit is ever handed to a
handler. `CleanupsRun` counts cleanups against `ensure` sends. `StopIsFinal` says that
after a stop no failure is raised and no handler, `ensure` or cleanup begins, and that
only a renderer goes on. By `StepsCounted` a limit of N lets N instructions run and one
for each object asked too late, and the host's count is of those before the stop.
`AnswersAgree` leaves out what a renderer is answered by an object whose `asString` is a
HALT. `RunsEnd` is that a step limit ends every run; the objects left in a value being
rendered are finitely many, which is what `MaxLate` stands for. The one fairness
assumption, `WF_vars(Proceed)`, is that the thread goes on executing; whether the host
starts another run is not assumed.

*Hosts.* `Retained`: with three retains a slot is released and used again while
another is free; the run stays below `Wrap`, the violation run goes above it.
`Unwind` again, now with a memory limit that any allocation may meet, 8
steps and two objects to go: the ledger still holds, with a failure given up for the
stop its rendering met, and `StopIsFinal` is not asked, by the first
finding. `Loading`: two addresses and three machines, so that one is freed and
another made where it was; two files, three paths, two frames, so that a load
finds no frame; programs that try, load again and read a global before it is
there. `History`: a limit of two and three lines entered, over any number of
sessions; one of the texts is longer than the buffer, and one fills it: these come
back in their session, and in the next one as the last piece and not at all.
`HistoryKept` compares what the arrows reach, and what the file holds, with every line
that was entered. `Children`: every request
about one stream and about two, some about three; a pipe that holds one write and
three writes, by the child and by what it leaves behind. The host need not go
on (`CHECK_DEADLOCK FALSE`).

*Containers.* `Dict`: two keys go to the last seat and so wrap to the first, where
the third, equal to nothing, goes; seven puts and removes crowd the table of eight
with tombstones. `CountsExact` contains the reason probes stop. `KeepsPromise`
covers the walk as well: it ends because its keys due only shrink. `Objects`: a
prototype and one made from it, two names, four slots, an index from the first
slot on with two seats, so that every slot may grow it and be refused; an object
with two slots of one name has to be answered the newest. `Arrays`: arrays that
begin with up to four elements and grow to three, of three integers two of which
sort alike, and two changes; `AnswersHold` is about what is answered and, until
then, about the walk in progress (`WalksKeepInside`).

*Tools.* `Toolchain`: every control message with bodies that are empty, read,
assign or end in a number, in four places each inside three kinds of frame, run
for 60 instructions at most; every region of three operands and two operators, and
every short string of tokens; every chunk of three instructions and a halt, jumps
of any length among them. `HeightsAgree` compares the height the verifier settled
with the one of the machine at each instruction of each run. `WrittenIsRead` also
says that no proper prefix of a file is accepted. `MeaningPreserved` compares the
assignments of a program and of its twin, in order, and how they end. `Include`:
two directories, two names, three files, with the depth limit at 1 and out of
reach. `Debugger`: two lines, three frames deep, four frames entered; every
stop taken has to be called for, and every one passed not. `Expand`: a module
with two files to use and one that is not there, files that use one another, and
forms of both shapes, that collide, that may not stand together, that use one
another and that bind and reach for the same name t; uses of them in frames that
bind t, t__1 or u, with names, blocks and other uses for arguments. `Terminal`:
four bytes, a window of two, newlines anywhere, a terminal or a pipe. Programs end,
and nobody need type (`CHECK_DEADLOCK FALSE`).

*Collector.* `FreesExactlyGarbage` compares what a sweep frees with reachability
defined as the least closed set, over every graph four cells can form. `Exit` is
the end of the process when a ninth root is pushed or memory is out, after which
nothing happens (`CHECK_DEADLOCK FALSE`). Symmetry is over addresses other than
the root, and is left out of the run with a liveness property.
`WF_vars(Collection)` says only that the loop of `sol_gc_collect` goes on.

## What is proved

For every value of the constants, in the modules named `...Proof`:

* **Frames** (assuming `FramesAssumption`, which is what `verify_chunk`
  establishes): `TypeOK`, `ActivationsApart`, `RunsNested`, `LexicalReach`,
  `CallersKept`, `CallsBalanced` and `ChainDescends`, whatever chunks hold a HALT. The
inductive invariant `Inv` adds
  to the first ones that activations in progress have ascending identities below
  `nextId` (`Ordered`), that every home held by a block or a frame, stale or not, was
  written by an activation no younger than that identity (`BlockWriters`,
  `FrameWriters`), and that each `run_frames` entry stands on a frame (`RunsPlaced`).
  `LexicalReach` is not inductive: without the order of identities a reused frame could
  be given an old one. `ChainDescends` needs one fact more, `Older`: a frame's home was
  an earlier activation than its own. With it every hop that finds its home goes to a
  lower frame; the hops are then followed by number, up to the depth the code has.
* **Unwind**: `TypeOK`, `CleanupsRun`, `FailuresAccounted` and `FirstFailureWins`
  always; `StopIsFinal`, `StepsCounted` and `AnswersAgree` under `~MemoryLimited` (and a
  positive limit for `StepsCounted`). `Flags` ties the flags to the kinds of waiting
  callers: while the machine is stopped no caller is running a handler or a cleanup it
  could come back to, and an instruction begins with the flag up only for a renderer.
  `Budget` ties the counter to what was executed, before a stop and after it, and to
  `late`. `CleanupsRun` counts the callers that wait for a body before and after each
  step. Of the ledger, `Books` says of sets what `FailuresAccounted` says of numbers,
  and that what is on its way out is later than all that is set aside; `Ascending`, that
  an inner ensure holds a later failure than an outer one. What a stop outranks is
  booked where what a handler was given is, and by `Superseded` only a stop does that.
  From these, putting back what was set aside throws away only what came after it, and
  no two ensures hold one failure, so that sets can be counted. `ExitsApart` follows the
  exits, through the ensures that hold them, so that none becomes an error.
* **Retained** (in `HostsProof`): `TypeOK` and `FreeListExact` always; `KeepsPromise`,
  the refinement of `Registry`, and `NeverAnswersNone` under `MaxRetains < Wrap`, beyond
  which the code breaks both. `Fresh` says that a generation only grows, so a token
  that was answered is never answered again. `Threaded` says that links lead through
  released slots and no two to the same; that alone leaves room for a ring of released
  slots that the first one does not lead to, so `FreeListExact` is proved from `Listed`:
  there is a number of hops in which the links lead from the first released slot past
  every one of them, once, to the end (`Lists`). A release adds a hop in front and a
  retain drops it.
* **Collector**: `NothingDangles`, `TempsBalanced`, `SymbolsUnique`,
  `FreesExactlyGarbage`, `ReleasedOnce`. `Shape` ties primitives to roots and stack;
  `Sound` says that what roots reach is allocated and that, while marking, what a marked
  cell that is not grey points at is marked; `Unique` is about the table. `Owners`, for
  `ReleasedOnce`, is that a resource belongs to one cell and a free address to none:
  without it a sweep might give one back twice.
* **Dict** (in `ContainersProof`): `CountsExact`, and `KeepsPromise`, the refinement of
  `Dictionary` by the table and its walks, for every `Hash`. `Well` says that no key is
  in two seats and that the probe for each key comes to its seat before it meets an
  empty one (`Way`); `Sized`, that the seats are a multiple of four, so that three
  quarters of them is a number and one is always left empty (`Room`): a probe for a key
  that is not there ends. A seat filled, emptied or reused keeps `Way` for every other
  key; a rebuild is followed seat by seat of the old table (`Moved`). `Says` relates
  a table to the contents of `Dictionary`, and what a walk still has to come to is the
  same on both sides.
* **Objects** (in `ContainersProof`): `IndexAgrees`, `SurfaceAgrees` and
  `OutsidersKeepOff`, under `ObjectsAssumption`. `ObjectsInv` says of every object that
  its index has room and leads first to the newest slot of a name (`Indexed`), that
  prototypes are older than what is made from them (`Linked`), that every slot was
  judged by the boundary in force over its object unless that moved under it (`Judged`),
  and that what a `New` in progress has still to bind is not bound yet (`StillToBind`):
  without it a second slot of a name could come to be on one list.
* **Arrays** (in `ContainersProof`): `AnswersHold`, under `ArraysAssumption`, for any
  elements and any ranks of them. A sort is followed call by call: `Calls` places each
  call within a half of the one under it, `Stayed` says that nothing has left its half
  and that what is still to be sorted has not moved, which is what makes the sort
  stable, `SortedSoFar` which halves are in order, and `Copied` that scratch holds what
  was merged, each place once, in order, and before what remains. The last two are for
  an honest comparison; without one the places are still each there once (`Places`).
  A walk has as many answers as elements given or one fewer, and `select` one element
  more than it will keep, until its block has answered (`Pending`); a loop is at the
  last integer given, or a step further (`LoopRest`).
* **Children** (in `HostsProof`): `ChildrenServed`, its four parts. `Place` says what
  the program has open at each place of the call: its own streams, the files of the
  options taken so far, the ends of the pipe. It is kept by every option that is taken
  or refused and holds of the child's copy until it has put its streams in their places.
  `Processes` ties what a process may do to what it has open; `Flow` says that what was
  written is in the answer or in the pipe, in order, and that at the end no process can
  write. That nobody waits for ever is the part `NoneForever` of the property, which
  speaks of what can go on in each state and not of fairness.
* **History** (in `HostsProof`): `HistoryKept`. `HInv` is that the arrows are at an
  entry or at the line being typed (`Arrows`) and that the array holds, in order, those
  of the lines entered that are entries: a line counts if it is not empty and differs
  from the last that counts, which is what `Remembered` says of it without going through
  the array (`Recalls`). What `Loaded` makes of a file has been read one line at a time,
  so both are followed line by line.
* **Loading**: `LoadedOnce`, and `NamesOwn` under `~HostAsks`, both under
  `LoadingAssumption`, which says what texts and files are made of. `LInv` adds to
  `LoadedOnce` the types and that what runs is a chunk of a machine that is there.
  `NamesOwn` needs four facts more: serials are not used again (`Serials`), one machine
  runs at a time (`Alone`), an activation's chunk is resolved for its machine (`Owned`),
  and a slot kept in any chunk, running or not, is of the machine it is resolved for and
  of a global this one has, as long as it is there (`SlotsKept`); the last is what a
  machine at a freed one's address would break.
* **Terminal** (in `ToolsProof`): `InputShared`, under `TerminalAssumption`, that the
  window has a size. `ReadInv` adds the types and `LineOpen`, that a line not yet ended
  holds no newline and only bytes that were typed. `InOrder` speaks of what was taken,
  what is held and what the terminal has as one sequence; `Parts` says it of the three,
  each in order and after the ones before it, which is what a fill, a read and a loss
  each keep.
* **Include** (in `ToolsProof`): `IncludesKept`, under `IncludeAssumption`: a layout
  says of every path an include may stand for what is there, and a text is a sequence
  of statements. `Including` says that no file is being compiled twice (`Opens`); that of
  a file being compiled exactly the statements before its next one have been emitted, and
  of a file that is through all of them, but for those behind refused includes, of which
  none has been (`Emitted`, `PassedOver`); that a statement that includes and
  is behind the next one has brought its file in (`Asked`); that a failure recorded is
  one of a file still open or of the whole (`Ends`); and that the compiler's note of a
  global leads to the file that claimed it last (`Bound`). The last is what a takeover
  is judged by, and needs that a file open under another path than the one noted is
  another file.
* **Debugger** (in `ToolsProof`): `StopsWhereAsked`, an action property, with no
  assumption. `solid` goes by depths and the identities of frames, and forgets the
  frames; so `DInv` says where they are. Frames have identities of their own
  (`Frames`); if the frame of the last offer, or of the last order, is still there
  it is at the depth that was noted (`Offered`, `Ordered`); how a place was come to
  agrees with what the hook compares (`Came`); and while the frame of the last offer is
  there, the order has not been met since it was given (`Passed`).
* **Hosts**: `LoadedOnce`, `NamesOwn` and `FailuresAccounted` of the
  instances in `Hosts`. `HostsProof` instantiates the proof modules with the same
  variables and shows that the two instances of each component have the same initial
  states and steps.

`HostsAssumption` and `ToolsAssumption` gather what their parts assume of their
constants; `DictAssumption`, `ObjectsAssumption` and `ArraysAssumption` are those of
the containers. TLC evaluates each of them with the constants of the runs. The types
of the first four are proved and so are not asked of TLC again.

What iterates is proved without induction over data: a set of numbers with 0 in it that has
the next of each of its members has them all (`AllNumbers`), a step that can always be
taken gives the function of its iterations (`Iterated`, `IteratedByIndex`), and the
recursive functions of the models are those. These lemmas are in `Iteration`.

Only model-checked: what reaches a RECURSIVE operator, from which no theorem may be
proved here, which is the toolchain and parasol (`HeightsAgree`, `WrittenIsRead`,
`MeaningPreserved`, `NotationOnly`, `FormsKept`); and the two liveness properties: TLAPS
does not do liveness under fairness, nor `ENABLED`.

## Findings

With a run:

1. **A memory limit can be caught** (`unwind_caught`). `prim_block_on_error`
   tests `stopped`, then builds the error object, which allocates; a stop met
   there is lowered with the flag and the handler runs. The reference
   (`docs/REFERENCE.md:4541`) says a stop cannot be caught.
2. **A stop can be outranked** (`unwind_outranked`). `prim_block_ensure` puts a
   failure back over a step limit its cleanup reached, and the host hears of the
   failure. The comment of `sol_vm_stop` (`vm.c:362`) says otherwise.
3. **A retain can answer the empty token** (`retained_wrap`): the generation of
   slot 0 comes round to zero after 2^32 uses, though `extend.h:249` says it
   never does.
4. **Inlining can be noticed** (`inlining`). A block made in an inlined branch
   has the enclosing frame for its home and outlives the branch; the temporaries
   of a group in an inlined loop keep what the last pass left. `compiler.c:1268`
   says an optimisation must not change what the program means. The passing run
   leaves these two shapes out.
5. **A shared chunk can speak another machine's names** (`shared_chunk`): after a
   second machine has run it, a block of it that the host reaches on the first
   one, by sending a message, finds the second one's names and slots.
   `docs/embedding.md:67` says a host does nothing to arrange this. In the
   passing run the host asks nothing between runs (`HostAsks`).

Read in the code while modelling, and modelled as the code has it (each is quoted
in `PROJECT.json` with what it contradicts): a renderer that goes on after a stop, past
the limit; the statement that a refused `@include` takes with it; a minus before a
literal in `@expr`;
a file remembered though no frame was left to run it, and a file that loads itself
which does nothing; the flag `in_dictionary_key`, read before it is set; a slot
reached through `via` past its ancestor's boundary; a boundary drawn after the
slots of a descendant; the live list `exports` answers; an index that could not
grow; five places where `solid` stops, goes on or leaves otherwise than its page
says; the tail of a long history line; the streams of a child when the
program was started without its own; and of `parasol`, a template's global that is
renamed with a local of the same name, a form that cannot be used beside a longer
one, the earlier of two patterns alike winning though the later is said to, a module
that declares a form twice around a `@use`. Three limits of `parasol` were read and are
beyond what small headers reach: a name of 254 characters, 256 forms in a chain, 32
forms under a word. `vm.h:58` says a generation is bumped on
every release, and it is bumped on every retain. The comment above the test of
`argc` in `OP_SEND` says the verifier computes no stack heights; it does.

## What is not modelled, and the plan

* The net extension: I/O over sockets.
* Of `parasol`: operators and their precedence, tokens and layout, the search for a
  file that is used (`@include`'s is in `Include`), what is printed and its source
  map, the wording of errors.
* Primitives that call no block and start no program: arithmetic, strings, files,
  time. They are pure functions and I/O with unit tests of their own.
* The text of tokens, numbers and messages; the bytes of a `.sob` number; 16-bit
  operands.
* Editing inside a line of the shell, completion, and the join of lines into one
  submission; `keyWaiting`; an end of input at a terminal that is not the last.
* Delegates; foreign values' own code; the accounting of memory.
* The libraries and programs written in Sol.

Worth doing next: the join of lines of `solis` beside `Terminal`; the verifier of
`Bytecode` with its recursive operators made functions, so that `HeightsAgree` can be
proved.
