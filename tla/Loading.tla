------------------------------- MODULE Loading --------------------------------
(***************************************************************************)
(* Machines that come and go in one process and run one chunk in turn, and *)
(* the files that a program loads while it runs.                           *)
(*                                                                         *)
(* A chunk keeps what a machine has made of its names: its copy of each,   *)
(* and the slot of each global once found.  Both are known here by the     *)
(* serial of the machine they belong to.  A text is a sequence of          *)
(* statements: a global bound or read, a file loaded, or tried, which is a *)
(* load under onError.  The host runs one machine at a time.  Between two  *)
(* runs it may ask a machine for what the chunk left there, an answer in   *)
(* text (embed.h): that sends asString, and so runs a block of the chunk.  *)
(***************************************************************************)
EXTENDS Integers, Sequences, SequencesExt

CONSTANTS
  Address,     \* where a host keeps machines
  Global,      \* names
  Real,        \* realpath: the file each path leads to
  Unusable,    \* what a file holds that does not load, or does not verify
  Programs,    \* texts of the host's chunk to choose from
  Block,       \* the text of its block
  HostAsks,    \* whether the host asks a machine once another has run the chunk
  Texts,       \* what files may hold: functions to a text, or Unusable
  MaxFrames,   \* SOL_FRAMES_MAX
  MaxMachines  \* bound: machines made

File == {Real[p] : p \in DOMAIN Real}

\* What texts are made of, and files of texts: what the compiler leaves.
Line == [s : {"bind", "read"}, g : Global] \cup [s : {"load", "try"}, path : DOMAIN Real]
Text == Seq(Line)
LoadingAssumption ==
  /\ Programs \subseteq Text /\ Block \in Text
  /\ Texts \subseteq [File -> Text \cup {Unusable}]

VARIABLES
  disk,    \* what each file holds
  machines,      \* the machine at each address, or Gone
  chunks,  \* the host's chunk, that of its block, and those of files: by machine and file
  frames,  \* the activations of the machine that runs, innermost last
  serial   \* the next machine's

vars == <<disk, machines, chunks, frames, serial>>

Gone == [id |-> 0]
NoSlot == 0

\* began and shut are history: how often each file ran, and those met at the limit of frames.
Machine(id) ==
  [id |-> id, bound |-> {}, ran |-> FALSE, loaded |-> {}, began |-> [f \in File |-> 0], shut |-> {}]

Chunk(text) == [text |-> text, interned_for |-> 0, slot |-> [g \in Global |-> NoSlot]]

HostChunk == <<0, "chunk">>
HostBlock == <<0, "block">>

Init ==
  /\ disk \in Texts
  /\ machines = [a \in Address |-> Gone]
  /\ chunks \in {[c \in {HostChunk, HostBlock} |-> IF c = HostChunk THEN Chunk(p) ELSE Chunk(Block)] :
                   p \in Programs}
  /\ frames = <<>>
  /\ serial = 1

-----------------------------------------------------------------------------
(* What the host does.                                                     *)

\* Mutant of Interned: a chunk is resolved for the first machine to run it only.
InternedOnce(chunk, a) ==
  IF chunk.interned_for # 0 THEN chunk
  ELSE [chunk EXCEPT !.interned_for = machines[a].id, !.slot = [g \in Global |-> NoSlot]]

\* The names of a chunk are resolved again for a machine that is not the last to run it.
Interned(chunk, a) ==
  IF chunk.interned_for = machines[a].id THEN chunk
  ELSE [chunk EXCEPT !.interned_for = machines[a].id, !.slot = [g \in Global |-> NoSlot]]

Frame(a, c) == [at |-> a, chunk |-> c, next |-> 1]

NewMachine(a) ==
  /\ frames = <<>> /\ machines[a] = Gone /\ serial <= MaxMachines
  /\ machines' = [machines EXCEPT ![a] = Machine(serial)]
  /\ serial' = serial + 1
  /\ UNCHANGED <<disk, chunks, frames>>

\* The code of the files it loaded goes with the machine.
FreeMachine(a) ==
  /\ frames = <<>> /\ machines[a] # Gone
  /\ machines' = [machines EXCEPT ![a] = Gone]
  /\ chunks' = [c \in {c \in DOMAIN chunks : c[1] # machines[a].id} |-> chunks[c]]
  /\ UNCHANGED <<disk, frames, serial>>

Run(a) ==
  /\ frames = <<>> /\ machines[a] # Gone
  /\ chunks' = [chunks EXCEPT ![HostChunk] = Interned(@, a), ![HostBlock] = Interned(@, a)]
  /\ machines' = [machines EXCEPT ![a].ran = TRUE]
  /\ frames' = <<Frame(a, HostChunk)>>
  /\ UNCHANGED <<disk, serial>>

\* A send from outside any run resolves no names.
Ask(a) ==
  /\ frames = <<>> /\ machines[a] # Gone /\ machines[a].ran
  /\ HostAsks \/ chunks[HostBlock].interned_for = machines[a].id
  /\ frames' = <<Frame(a, HostBlock)>>
  /\ UNCHANGED <<disk, machines, chunks, serial>>

\* A file that could not be used is compiled again, at any time.
Recompile(f, text) ==
  /\ disk[f] = Unusable
  /\ disk' = [disk EXCEPT ![f] = text]
  /\ UNCHANGED <<machines, chunks, frames, serial>>

-----------------------------------------------------------------------------
(* What a program does.                                                    *)

Top == Last(frames)
Code(i) == chunks[frames[i].chunk]
Current(i) == Code(i).text[frames[i].next]
Statement == Current(Len(frames))
Ready == frames # <<>> /\ Top.next <= Len(Code(Len(frames)).text)
This == machines[Top.at]

Past == [frames EXCEPT ![Len(frames)].next = @ + 1]

Trying(i) == Current(i).s = "try"

\* A failure unwinds to the nearest file that tried, or ends the run.
Unwinds ==
  \/ (\A i \in DOMAIN frames : ~Trying(i)) /\ frames' = <<>>
  \/ \E i \in DOMAIN frames :
       /\ Trying(i) /\ \A j \in i + 1 .. Len(frames) : ~Trying(j)
       /\ frames' = [SubSeq(frames, 1, i) EXCEPT ![i].next = @ + 1]

\* Whether the running chunk's copy of a name means that name to this machine.
Resolved == Code(Len(frames)).interned_for = This.id

\* Where a global was found is kept; that it was not there is not.
Read ==
  /\ Ready /\ Statement.s = "read"
  /\ LET slot == Code(Len(frames)).slot[Statement.g]
         found == Resolved /\ Statement.g \in This.bound IN
     IF slot # NoSlot THEN frames' = Past /\ UNCHANGED chunks
     ELSE IF found
     THEN frames' = Past /\ chunks' = [chunks EXCEPT ![Top.chunk].slot[Statement.g] = This.id]
     ELSE Unwinds /\ UNCHANGED chunks
  /\ UNCHANGED <<disk, machines, serial>>

\* A top level may make the global it assigns.
Bind ==
  /\ Ready /\ Statement.s = "bind"
  /\ IF Code(Len(frames)).slot[Statement.g] # NoSlot THEN UNCHANGED <<chunks, machines>>
     ELSE /\ chunks' = [chunks EXCEPT ![Top.chunk].slot[Statement.g] = This.id]
          /\ machines' = [machines EXCEPT ![Top.at].bound = @ \cup {Statement.g}]
  /\ frames' = Past
  /\ UNCHANGED <<disk, serial>>

\* Mutant of Remembered: a file is remembered when it has run.
RememberedLater(f) == This

Remembered(f) == [This EXCEPT !.loaded = @ \cup {f}]

Known(f) ==
  /\ f \in This.loaded
  /\ frames' = Past
  /\ UNCHANGED <<machines, chunks>>

Refused(f) ==
  /\ f \notin This.loaded /\ disk[f] = Unusable
  /\ Unwinds
  /\ UNCHANGED <<machines, chunks>>

\* Written down, and then there is no frame to run it in.
TooDeep(f) ==
  /\ f \notin This.loaded /\ disk[f] # Unusable /\ Len(frames) = MaxFrames
  /\ machines' = [machines EXCEPT ![Top.at] = [Remembered(f) EXCEPT !.shut = @ \cup {f}]]
  /\ Unwinds
  /\ UNCHANGED chunks

LoadFile(f) ==
  /\ f \notin This.loaded /\ disk[f] # Unusable /\ Len(frames) < MaxFrames
  /\ machines' = [machines EXCEPT ![Top.at] = [Remembered(f) EXCEPT !.began[f] = @ + 1]]
  /\ LET c == <<This.id, f>> IN
     /\ chunks' = [d \in DOMAIN chunks \cup {c} |->
                     IF d = c THEN [Chunk(disk[f]) EXCEPT !.interned_for = This.id] ELSE chunks[d]]
     /\ frames' = Append(frames, Frame(Top.at, c))

Load ==
  /\ Ready /\ Statement.s \in {"load", "try"}
  /\ LET f == Real[Statement.path] IN Known(f) \/ Refused(f) \/ TooDeep(f) \/ LoadFile(f)
  /\ UNCHANGED <<disk, serial>>

\* The end of a text: the load that asked for it has answered, or the run is over.
Finish ==
  /\ frames # <<>> /\ ~Ready
  /\ frames' = IF Len(frames) = 1 THEN <<>> ELSE [Front(frames) EXCEPT ![Len(frames) - 1].next = @ + 1]
  /\ UNCHANGED <<disk, machines, chunks, serial>>

Step == Read \/ Bind \/ Load \/ Finish

Next ==
  \/ \E a \in Address : NewMachine(a) \/ FreeMachine(a) \/ Run(a) \/ Ask(a)
  \/ \E f \in File, texts \in Texts : texts[f] # Unusable /\ Recompile(f, texts[f])
  \/ Step

Spec == Init /\ [][Next]_vars

-----------------------------------------------------------------------------
(* Properties.                                                             *)

\* What a chunk that runs keeps is of the machine that runs it and of no other,
\* though that one may be at the address of one before it: its names, and slots
\* of globals that the machine has (bytecode.h:144, 184).
NamesOwn ==
  \A i \in DOMAIN frames :
    /\ Code(i).interned_for = machines[frames[i].at].id
    /\ \A g \in Global : Code(i).slot[g] # NoSlot =>
         Code(i).slot[g] = machines[frames[i].at].id /\ g \in machines[frames[i].at].bound

\* A machine runs a file once at most, whatever paths and cycles lead to it and
\* though it fails; and answers that it is there only of one that began, or that
\* found no frame to run in (builtins.c:4998).
LoadedOnce ==
  \A a \in {a \in Address : machines[a] # Gone} : \A f \in File :
    /\ machines[a].began[f] <= 1
    /\ f \in machines[a].loaded <=> machines[a].began[f] = 1 \/ f \in machines[a].shut

===============================================================================
