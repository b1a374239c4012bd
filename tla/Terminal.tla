------------------------------- MODULE Terminal -------------------------------
(***************************************************************************)
(* Standard input: one window of bytes read ahead, from which the messages *)
(* readKey, readLine and readUpTo of any machine take, and the prompt of   *)
(* solis too, which edits a line at a terminal and reads one as readLine   *)
(* does where there is none.                                               *)
(*                                                                         *)
(* A byte is known by its place in what was typed, and is a newline or is  *)
(* not.  A terminal in its ordinary mode gives out whole lines; in raw     *)
(* mode, and from a pipe, a read takes what is there.                      *)
(***************************************************************************)
EXTENDS Integers, Sequences, FiniteSets, SequencesExt

CONSTANTS
  Capacity,   \* SOL_STDIN_CAPACITY
  MaxTyped    \* bound: bytes typed

TerminalAssumption == Capacity \in Nat

VARIABLES
  terminal,   \* whether standard input is one
  typed,      \* how many bytes were typed
  newlines,   \* which of them are newlines
  driver,     \* the bytes typed that nothing has read
  hungup,     \* nothing more will be typed
  window,     \* the bytes read ahead
  raw,        \* the mode of the terminal
  reader,     \* the read in progress
  taken,      \* history: the bytes that reads have taken, in order
  lost        \* history: the bytes that a new machine forgot or the prompt flushed

vars == <<terminal, typed, newlines, driver, hungup, window, raw, reader, taken, lost>>

Idle == [by |-> "none", line |-> <<>>, done |-> FALSE]
Reader(by) == [Idle EXCEPT !.by = by]
Lines == {"readLine", "prompt"}

Init ==
  /\ terminal \in BOOLEAN
  /\ typed = 0 /\ newlines = {}
  /\ driver = <<>> /\ window = <<>>
  /\ hungup = FALSE /\ raw = FALSE
  /\ reader = Idle
  /\ taken = <<>> /\ lost = {}

-----------------------------------------------------------------------------
(* Outside.                                                                *)

Type(newline) ==
  /\ ~hungup /\ typed < MaxTyped
  /\ typed' = typed + 1
  /\ driver' = Append(driver, typed')
  /\ newlines' = IF newline THEN newlines \cup {typed'} ELSE newlines
  /\ UNCHANGED <<terminal, hungup, window, raw, reader, taken, lost>>

HangUp ==
  /\ ~hungup /\ hungup' = TRUE
  /\ UNCHANGED <<terminal, typed, newlines, driver, window, raw, reader, taken, lost>>

\* A host makes a machine, which forgets what was read ahead.
NewMachine ==
  /\ reader = Idle
  /\ lost' = lost \cup Range(window)
  /\ window' = <<>>
  /\ UNCHANGED <<terminal, typed, newlines, driver, hungup, raw, reader, taken>>

-----------------------------------------------------------------------------
(* The window.                                                             *)

\* Up to the first newline of a sequence of bytes, or all of it.
ThroughNewline(bytes) ==
  LET ends == {i \in DOMAIN bytes : bytes[i] \in newlines} IN
  IF ends = {} THEN bytes ELSE SubSeq(bytes, 1, CHOOSE i \in ends : \A j \in ends : i <= j)

\* What a read gives out in a mode: <<>> is that it waits, unless there is no more.
Readable(mode) ==
  LET there == IF terminal /\ ~mode /\ (\A i \in DOMAIN driver : driver[i] \notin newlines) /\ ~hungup
               THEN <<>>
               ELSE IF terminal /\ ~mode THEN ThroughNewline(driver) ELSE driver
  IN SubSeq(there, 1, IF Len(there) < Capacity THEN Len(there) ELSE Capacity)

\* A fill of an empty window in a mode; it stays empty at the end of the input.
Fill(mode) ==
  /\ window = <<>>
  /\ Readable(mode) # <<>> \/ (hungup /\ driver = <<>>)
  /\ window' = Readable(mode)
  /\ driver' = SubSeq(driver, Len(window') + 1, Len(driver))

\* Takes count bytes of the window.
Take(count) ==
  /\ taken' = taken \o SubSeq(window, 1, count)
  /\ window' = SubSeq(window, count + 1, Len(window))

-----------------------------------------------------------------------------
(* The readers.                                                            *)

\* The prompt at a terminal holds raw mode for a line, and flushes on both sides.
Flushed(mode) ==
  /\ lost' = lost \cup Range(driver)
  /\ driver' = <<>>
  /\ raw' = mode

Begin(by) ==
  /\ reader = Idle
  /\ reader' = Reader(by)
  /\ IF by = "prompt" /\ terminal THEN Flushed(TRUE)
     ELSE UNCHANGED <<driver, lost, raw>>
  /\ UNCHANGED <<terminal, typed, newlines, hungup, window, taken>>

\* A read waits here until there is something, or there is no more.  readKey reads
\* raw, for the length of the read; the others in the mode there is.
Fetch ==
  /\ reader # Idle /\ ~reader.done
  /\ Fill(terminal /\ (raw \/ reader.by = "readKey"))
  /\ reader' = IF window' = <<>> THEN [reader EXCEPT !.done = TRUE] ELSE reader
  /\ UNCHANGED <<terminal, typed, newlines, hungup, raw, taken, lost>>

\* Mutant of Part: a reader of lines takes all that is held.
PartWhole == window

\* What a reader takes of the window at a time; the editor takes a byte.
Part ==
  IF reader.by = "readKey" \/ (reader.by = "prompt" /\ terminal) THEN <<Head(window)>>
  ELSE IF reader.by \in Lines THEN ThroughNewline(window)
  ELSE window

\* A reader of lines goes on until it has a newline; readUpTo may want fewer bytes
\* than are held.
Consume(count) ==
  /\ reader # Idle /\ ~reader.done /\ window # <<>>
  /\ count = Len(Part) \/ (reader.by = "readUpTo" /\ count \in 1 .. Len(Part))
  /\ Take(count)
  /\ reader' = [reader EXCEPT !.line = @ \o SubSeq(Part, 1, count),
                              !.done = reader.by \notin Lines \/ Part[count] \in newlines]
  /\ UNCHANGED <<terminal, typed, newlines, driver, hungup, raw, lost>>

\* The answer.  What the prompt leaves in the terminal's driver is flushed again.
Answer ==
  /\ reader.done
  /\ reader' = Idle
  /\ IF reader.by = "prompt" /\ terminal THEN Flushed(FALSE) ELSE UNCHANGED <<driver, lost, raw>>
  /\ UNCHANGED <<terminal, typed, newlines, hungup, window, taken>>

Next ==
  \/ \E newline \in BOOLEAN : Type(newline)
  \/ HangUp \/ NewMachine \/ Fetch \/ Answer
  \/ \E by \in {"readKey", "readLine", "readUpTo", "prompt"} : Begin(by)
  \/ \E count \in 1 .. Capacity : Consume(count)

Spec == Init /\ [][Next]_vars

-----------------------------------------------------------------------------
(* Properties.                                                             *)

\* No byte is taken twice, out of its order, or dropped, whoever reads it.
InOrder ==
  LET all == taken \o window \o driver IN
  /\ \A i, j \in DOMAIN all : i < j => all[i] < all[j]
  /\ Range(all) \cap lost = {}
  /\ Range(all) \cup lost = 1 .. typed

\* A line is answered whole and alone: what was left of one by another reader, up
\* to its newline, unless the input ends first.
LinesAlone ==
  (reader.done /\ reader.by \in Lines) =>
    /\ \A i \in 1 .. Len(reader.line) - 1 : reader.line[i] \notin newlines
    /\ Last(<<0>> \o reader.line) \in newlines \/ (hungup /\ driver = <<>>)

\* Bytes read ahead are found by the next reader whichever it is, in order and once,
\* and only a new machine and the prompt's own flushes lose any; and no program runs
\* with the terminal left raw (stdin.c:15, stdin.h, REFERENCE.md:1632).
InputShared ==
  /\ InOrder /\ LinesAlone
  /\ raw => terminal /\ reader.by = "prompt"

===============================================================================
