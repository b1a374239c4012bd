------------------------------- MODULE History --------------------------------
(***************************************************************************)
(* The lines entered at the prompt of solis: kept for the arrow keys of    *)
(* its line editor, written to a file at the end of a session, and read by *)
(* the next one.                                                           *)
(***************************************************************************)
EXTENDS Integers, Sequences, FiniteSets

CONSTANTS
  Entry,       \* what may be typed on a line
  Empty,       \* an empty line
  LastPiece,   \* of lines longer than the buffer the file is read with, the
               \* end that the last piece of each is
  Limit,       \* SOLIS_HISTORY_MAX
  MaxEntered   \* bound: lines entered

Closed == "closed"

\* What a line may be, as it is typed or as it is read again.
Text == Entry \cup {Empty} \cup {LastPiece[entry] : entry \in DOMAIN LastPiece}

\* Closed is no line.
HistoryAssumption == Closed \notin Text /\ Limit \in Nat

VARIABLES
  history,  \* the lines entered, oldest first
  file,     \* the lines of the file
  line,     \* what is being edited; Closed between sessions
  arrow,    \* where the arrows are: below the oldest, 0, to the line being typed
  pending,  \* the line being typed, while it is away from
  own,      \* history variable: the line being typed, as it was last on the screen
  entered   \* history variable: the lines of the file as they could be read when this
            \* session began, and every line entered since

vars == <<history, file, line, arrow, pending, own, entered>>

Bottom == Len(history)

Init ==
  /\ history = <<>> /\ file = <<>>
  /\ line = Closed /\ arrow = 0 /\ pending = Empty
  /\ own = Empty /\ entered = <<>>

-----------------------------------------------------------------------------
\* The same line twice running is one entry, and an empty one is none.
Added(items, entry) ==
  IF entry = Empty \/ (items # <<>> /\ items[Len(items)] = entry) THEN items
  ELSE Append(items, entry)

\* A line of the file comes in pieces of the size of the buffer.  Those that do not
\* end it are dropped, and the one that does is an entry.
Piece(entry) == IF entry \in DOMAIN LastPiece THEN LastPiece[entry] ELSE entry

Read[n \in 0 .. Len(file)] == IF n = 0 THEN <<>> ELSE Added(Read[n - 1], Piece(file[n]))
Loaded == Read[Len(file)]

\* A new line, after an entry or not.
Fresh(items) ==
  /\ history' = items
  /\ line' = Empty
  /\ arrow' = Len(items)
  /\ pending' = Empty
  /\ own' = Empty

Start ==
  /\ line = Closed
  /\ Fresh(Loaded)
  /\ entered' = [i \in DOMAIN file |-> Piece(file[i])]
  /\ UNCHANGED file

\* Any key that changes the line.
Edit(text) ==
  /\ line # Closed /\ text # line
  /\ line' = text
  /\ own' = IF arrow = Bottom THEN text ELSE own
  /\ UNCHANGED <<history, file, arrow, pending, entered>>

\* Mutant of Kept: what is on the screen is kept at every step.
KeptAlways == line

\* Stepping off the line being typed keeps it.
Kept == IF arrow = Bottom THEN line ELSE pending

Arrow(to) ==
  /\ line # Closed /\ history # <<>>
  /\ pending' = Kept
  /\ arrow' = to
  /\ line' = IF to = Bottom THEN pending' ELSE history[to + 1]
  /\ UNCHANGED <<history, file, own, entered>>

Up == Arrow(IF arrow > 0 THEN arrow - 1 ELSE 0)
Down == Arrow(IF arrow < Bottom THEN arrow + 1 ELSE arrow)

Return ==
  /\ line # Closed /\ Len(entered) < MaxEntered
  /\ Fresh(Added(history, line))
  /\ entered' = Append(entered, line)
  /\ UNCHANGED file

Trimmed == SubSeq(history, (IF Bottom > Limit THEN Bottom - Limit ELSE 0) + 1, Bottom)

Closing == history' = <<>> /\ line' = Closed /\ arrow' = 0 /\ pending' = Empty /\ own' = Empty

\* ctrl-d on an empty line, or system:exit.  A file is not written over by nothing.
End ==
  /\ line # Closed
  /\ file' = IF history = <<>> THEN file ELSE Trimmed
  /\ Closing
  /\ entered' = IF history = <<>> THEN file ELSE entered

\* The process is killed, or interrupted: nothing is written.
Kill ==
  /\ line # Closed
  /\ Closing
  /\ entered' = file
  /\ UNCHANGED file

Next == Start \/ Up \/ Down \/ Return \/ End \/ Kill \/ \E text \in Entry \cup {Empty} : Edit(text)

Spec == Init /\ [][Next]_vars

-----------------------------------------------------------------------------
(* Properties.                                                             *)

\* On the bottom line is what was typed there, however far the arrows have been and
\* whatever was edited on the way.
LineComesBack == line # Closed /\ arrow = Bottom => line = own

\* Those of a sequence of lines that are entries: that are not empty and do not repeat
\* the one before, empty ones aside.
Remembered(lines) ==
  {i \in DOMAIN lines :
     /\ lines[i] # Empty
     /\ \A j \in 1 .. i - 1 : lines[j] = lines[i] =>
          \E k \in j + 1 .. i - 1 : lines[k] \notin {Empty, lines[i]}}

\* Which entry a line is.
Place(lines, i) == Cardinality({j \in Remembered(lines) : j <= i})

\* What the arrows reach is every line entered, in order, above what the session
\* before left in the file.
EntriesKept ==
  line # Closed =>
    /\ Bottom = Cardinality(Remembered(entered))
    /\ \A i \in Remembered(entered) : history[Place(entered, i)] = entered[i]

\* Between sessions the file holds the last entries of the last session that had any
\* and was ended, as many as there are and as it may hold.
FileKept ==
  line = Closed =>
    LET cut == Cardinality(Remembered(entered)) - Len(file) IN
    /\ cut >= 0 /\ Len(file) <= Limit /\ (cut = 0 \/ Len(file) = Limit)
    /\ \A i \in Remembered(entered) : Place(entered, i) > cut => file[Place(entered, i) - cut] = entered[i]

\* A line that is entered can be come back to, as it was typed, in its session, and
\* in the next if that one was ended, was one of the last lines, and fits the buffer
\* the file is read with: of a longer line only the last piece is there, and is an
\* entry of its own (line.c:65-79, 330, REFERENCE.md:175).
HistoryKept == LineComesBack /\ EntriesKept /\ FileKept

===============================================================================
