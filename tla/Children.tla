------------------------------- MODULE Children -------------------------------
(***************************************************************************)
(* Another program run by system:run or system:capture: where its streams  *)
(* go, the descriptors that this takes, the fork, and for capture the pipe *)
(* that its output comes back through while it runs, and what it leaves    *)
(* behind in the background too.                                           *)
(*                                                                         *)
(* A process is its descriptors, each open on one of the program's own     *)
(* streams, a file, the null device or an end of the pipe, and whether it  *)
(* waits in a write.  Only what is written to the pipe is followed.        *)
(***************************************************************************)
EXTENDS Integers, Sequences, FiniteSets, Functions

CONSTANTS
  Path,       \* files
  Requests,   \* sequences of a stream's name and what it is to be
  Standings,  \* which of its three streams the program may have
  PipeHolds,  \* how much a pipe holds
  MaxWritten  \* bound: writes to the pipe

\* A file is named by a path and none of the manners is one, an option is a pair, a
\* program has some of its three streams, and a pipe holds something.
ChildrenAssumption ==
  /\ Path \cap {"share", "discard", "merge"} = {}
  /\ \A options \in Requests : options \in Seq(STRING \X STRING)
  /\ \A streams \in Standings : streams \subseteq 0 .. 2
  /\ PipeHolds \in Nat \ {0} /\ MaxWritten \in Nat

VARIABLES
  standing,     \* the streams the program has
  descriptors,  \* its open descriptors
  request,      \* the call
  step,         \* where it is; "done" is after it
  processes,    \* the child, and one that it leaves in the background
  pipe,         \* what was written to the pipe and not read
  output,       \* what was read
  status,       \* of the child, once it is gone
  short,        \* whether memory was refused for the output
  written       \* history: writes to the pipe

vars == <<standing, descriptors, request, step, processes, pipe, output, status, short, written>>

Stream == {"stdin", "stdout", "stderr"}
Number == [stdin |-> 0, stdout |-> 1, stderr |-> 2]
Manners == {"share", "discard", "merge"}

Own(n) == [to |-> <<"own", n>>, cloexec |-> FALSE]
Unset == [fd |-> -1, merge |-> FALSE, opened |-> FALSE, named |-> FALSE]

Lowest(table) ==
  CHOOSE n \in 0 .. Cardinality(DOMAIN table) :
    n \notin DOMAIN table /\ \A m \in 0 .. n - 1 : m \in DOMAIN table

Opening(table, n, to, cloexec) ==
  [m \in DOMAIN table \cup {n} |-> IF m = n THEN [to |-> to, cloexec |-> cloexec] ELSE table[m]]
Closing(table, ns) == Restrict(table, DOMAIN table \ ns)

Init ==
  /\ standing \in Standings
  /\ descriptors = [n \in standing |-> Own(n)]
  /\ request = [message |-> "none"] /\ step = "idle"
  /\ processes = <<>>
  /\ pipe = <<>> /\ output = <<>>
  /\ status = -1 /\ short = FALSE /\ written = 0

-----------------------------------------------------------------------------
(* The streams, before there is a child.                                   *)

Call(message, options) ==
  /\ step = "idle"
  /\ request' = [message |-> message, asked |-> options, left |-> options, ends |-> <<>>,
                 streams |-> [s \in Stream |-> Unset]]
  /\ step' = "streams"
  /\ UNCHANGED <<standing, descriptors, processes, pipe, output, status, short, written>>

Capturing == request.message = "capture"
Opened == {request.streams[s].fd : s \in {s \in Stream : request.streams[s].opened}}

\* close_streams, and what else there is.
Refuse(ends) ==
  /\ descriptors' = Closing(descriptors, Opened \cup ends)
  /\ step' = "done"
  /\ UNCHANGED <<standing, request, processes, pipe, output, status, short, written>>

Opens(value) == value \in Path \cup {"discard"}

Wrong(name, value) ==
  \/ (name \in Stream => request.streams[name].named)   \* no such stream, or twice
  \/ (Capturing /\ name = "stdout")
  \/ (value = "merge" /\ name # "stderr")
  \/ value \notin Manners \cup Path

\* One stream of the array.  Whatever is to be opened may not be.
StreamValue ==
  /\ step = "streams" /\ request.left # <<>>
  /\ LET name == Head(request.left)[1]
         value == Head(request.left)[2]
         fd == IF Opens(value) THEN Lowest(descriptors) ELSE -1 IN
     \/ (Wrong(name, value) \/ Opens(value)) /\ Refuse({})
     \/ /\ ~Wrong(name, value)
        /\ request' = [request EXCEPT !.left = Tail(@), !.streams[name] =
                         [fd |-> fd, merge |-> value = "merge", opened |-> Opens(value), named |-> TRUE]]
        /\ descriptors' = IF Opens(value) THEN Opening(descriptors, fd, <<"file", value>>, TRUE)
                          ELSE descriptors
        /\ UNCHANGED <<standing, step, processes, pipe, output, status, short, written>>

Pipe ==
  /\ step = "streams" /\ request.left = <<>> /\ Capturing /\ request.ends = <<>>
  /\ LET r == Lowest(descriptors)
         reading == Opening(descriptors, r, <<"pipe", "read">>, FALSE)
         w == Lowest(reading) IN
     \/ Refuse({})
     \/ /\ request' = [request EXCEPT !.ends = <<r, w>>]
        /\ descriptors' = Opening(reading, w, <<"pipe", "write">>, FALSE)
        /\ UNCHANGED <<standing, step, processes, pipe, output, status, short, written>>

Fork ==
  /\ step = "streams" /\ request.left = <<>> /\ (Capturing => request.ends # <<>>)
  /\ \/ Refuse(Range(request.ends))
     \/ /\ processes' = <<[table |-> descriptors, state |-> "new"]>>
        /\ step' = "forked"
        /\ UNCHANGED <<standing, descriptors, request, pipe, output, status, short, written>>

-----------------------------------------------------------------------------
(* The child, and what it leaves in the background.                        *)

Dup2(table, from, to) ==
  IF from \notin DOMAIN table \/ from = to THEN table
  ELSE Opening(table, to, table[from].to, FALSE)

\* Mutant of ChildStreams: stderr follows stdout before stdout moves.
ChildStreamsMergedFirst(table, in, out, err) ==
  Dup2(Dup2(Dup2(table, in.fd, 0), IF err.merge THEN 1 ELSE err.fd, 2), out.fd, 1)

ChildStreams(table, in, out, err) ==
  Dup2(Dup2(Dup2(table, in.fd, 0), out.fd, 1), IF err.merge THEN 1 ELSE err.fd, 2)

\* What the child has when it becomes the other program.
ChildTable(table) ==
  LET streams == request.streams IN
  IF ~Capturing THEN ChildStreams(table, streams.stdin, streams.stdout, streams.stderr)
  ELSE LET w == request.ends[2]
           piped == ChildStreams(Closing(table, {request.ends[1]}),
                                 streams.stdin, [Unset EXCEPT !.fd = w], streams.stderr)
       IN IF w > 2 THEN Closing(piped, {w}) ELSE piped

Gone(k, code) ==
  /\ processes' = [processes EXCEPT ![k] = [table |-> Closing(@.table, DOMAIN @.table), state |-> "gone"]]
  /\ status' = IF k = 1 THEN code ELSE status

ToPipe(k) == \E n \in DOMAIN processes[k].table : processes[k].table[n].to = <<"pipe", "write">>

Exec ==
  /\ processes # <<>> /\ processes[1].state = "new"
  /\ \/ Gone(1, 127)
     \/ /\ processes' = [processes EXCEPT ![1] =
             LET table == ChildTable(@.table)
             IN [table |-> Closing(table, {n \in DOMAIN table : table[n].cloexec}), state |-> "runs"]]
        /\ UNCHANGED status
  /\ UNCHANGED <<standing, descriptors, request, step, pipe, output, short, written>>

Spawn ==
  /\ Len(processes) = 1 /\ processes[1].state = "runs"
  /\ processes' = Append(processes, processes[1])
  /\ UNCHANGED <<standing, descriptors, request, step, pipe, output, status, short, written>>

BeginWrite(k) ==
  /\ processes[k].state = "runs" /\ ToPipe(k) /\ written < MaxWritten
  /\ processes' = [processes EXCEPT ![k].state = "writes"]
  /\ UNCHANGED <<standing, descriptors, request, step, pipe, output, status, short, written>>

Readers == {n \in DOMAIN descriptors : descriptors[n].to = <<"pipe", "read">>}
Writers == {k \in DOMAIN processes : ToPipe(k)}
Blocked(k) == processes[k].state = "writes" /\ Readers # {} /\ Len(pipe) >= PipeHolds

\* A write waits while the pipe is full, and one that nobody will read is the end.
EndWrite(k) ==
  /\ processes[k].state = "writes" /\ ~Blocked(k)
  /\ IF Readers = {} THEN Gone(k, 128 + 13) /\ UNCHANGED <<pipe, written>>
     ELSE /\ written' = written + 1
          /\ pipe' = Append(pipe, written')
          /\ processes' = [processes EXCEPT ![k].state = "runs"]
          /\ UNCHANGED status
  /\ UNCHANGED <<standing, descriptors, request, step, output, short>>

\* It ends, or is killed while it does anything at all.
Exit(k, code) ==
  /\ processes[k].state \in {"runs", "writes"}
  /\ code = 0 => processes[k].state = "runs"
  /\ Gone(k, code)
  /\ UNCHANGED <<standing, descriptors, request, step, pipe, output, short, written>>

-----------------------------------------------------------------------------
(* The program, once there is a child.                                     *)

CloseOurs ==
  /\ step = "forked"
  /\ descriptors' = Closing(descriptors, Opened \cup IF Capturing THEN {request.ends[2]} ELSE {})
  /\ step' = IF Capturing THEN "read" ELSE "wait"
  /\ UNCHANGED <<standing, request, processes, pipe, output, status, short, written>>

StopReading ==
  /\ descriptors' = Closing(descriptors, {request.ends[1]})
  /\ step' = "wait"

Ended == pipe = <<>> /\ Writers = {}

\* To the end, before waiting; or until there is no memory for more.
Read ==
  /\ step = "read"
  /\ \/ /\ pipe # <<>>
        /\ output' = output \o pipe /\ pipe' = <<>>
        /\ UNCHANGED <<descriptors, step, short>>
     \/ Ended /\ StopReading /\ UNCHANGED <<output, pipe, short>>
     \/ short' = TRUE /\ StopReading /\ UNCHANGED <<output, pipe>>
  /\ UNCHANGED <<standing, request, processes, status, written>>

Wait ==
  /\ step = "wait" /\ status # -1
  /\ step' = "done"
  /\ UNCHANGED <<standing, descriptors, request, processes, pipe, output, status, short, written>>

Next ==
  \/ \E message \in {"run", "capture"}, options \in Requests : Call(message, options)
  \/ StreamValue \/ Pipe \/ Fork
  \/ Exec \/ Spawn \/ \E k \in DOMAIN processes : BeginWrite(k) \/ EndWrite(k) \/ Exit(k, 0) \/ Exit(k, 128 + 9)
  \/ CloseOurs \/ Read \/ Wait

Spec == Init /\ [][Next]_vars

-----------------------------------------------------------------------------
(* Properties.                                                             *)

\* A call leaves no descriptor behind, answered or refused, and closes none.
DescriptorsKept == step \in {"idle", "done"} => descriptors = [n \in standing |-> Own(n)]

\* What a stream is to be: what was asked of it, once, else the pipe for what
\* capture keeps, else the program's own.
Asked(name) ==
  {request.asked[i][2] : i \in {i \in DOMAIN request.asked : request.asked[i][1] = name}}

Goes(name) ==
  IF Capturing /\ name = "stdout" THEN <<"pipe", "write">>
  ELSE IF Asked(name) \subseteq {"share"} THEN <<"own", Number[name]>>
  ELSE <<"file", CHOOSE value \in Asked(name) : TRUE>>

\* The other program has its three streams where they were asked to go, stderr
\* where stdout now is if it is merged, and nothing else is open in it.
StreamsGo ==
  (standing = 0 .. 2 /\ processes # <<>> /\ processes[1].state \in {"runs", "writes"}) =>
    LET table == processes[1].table IN
    /\ DOMAIN table = 0 .. 2
    /\ table[0].to = Goes("stdin") /\ table[1].to = Goes("stdout")
    /\ table[2].to = IF Asked("stderr") = {"merge"} THEN table[1].to ELSE Goes("stderr")

\* All that was written is in the answer, in order, and nobody is left who could
\* write more, unless there was no memory for it.
OutputWhole == (step = "done" /\ status # -1 /\ ~short) => (output = [i \in 1 .. written |-> i] /\ Writers = {})

\* The program and the ones it ran never all wait for one another.
NoneForever ==
  \/ step = "read" /\ (pipe # <<>> \/ Ended)
  \/ step = "wait" /\ status # -1
  \/ step \notin {"read", "wait"}
  \/ \E k \in DOMAIN processes : processes[k].state # "gone" /\ ~Blocked(k)

\* A child's streams go where they were asked to, all of what it writes comes back,
\* and the call ends with every descriptor as it was (builtins.c:5597, 5840).
ChildrenServed == DescriptorsKept /\ StreamsGo /\ OutputWhole /\ NoneForever

===============================================================================
