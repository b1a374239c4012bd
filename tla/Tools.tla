--------------------------------- MODULE Tools ---------------------------------
(***************************************************************************)
(* The tools around a program, which share nothing here: solas where it    *)
(* includes files, solid, and the standard input that solis prompts at and *)
(* programs read.                                                          *)
(***************************************************************************)
EXTENDS Integers

CONSTANTS
  Global, Options, Environment, Shipped, Missing, Layouts, Texts, Main, Limits,   \* of Include
  Line, MaxDepth, MaxEntered,                                                     \* of Debugger
  Capacity, MaxTyped                                                              \* of Terminal

VARIABLES
  at, text, limit, reading, included, bound, ended, emitted, warnings, errors,    \* of Include
  stack, entered, last, solid, breaks, doing, asked, came,                        \* of Debugger
  terminal, typed, newlines, driver, hungup, window, raw, reader, taken, lost     \* of Terminal

I == INSTANCE Include
D == INSTANCE Debugger
T == INSTANCE Terminal

\* What they take for granted: of paths and of texts, and of the window.
ASSUME ToolsAssumption == I!IncludeAssumption /\ T!TerminalAssumption

-----------------------------------------------------------------------------
(* The properties of each, which say there what they are about.            *)

IncludesKept == I!IncludesKept
StopsWhereAsked == D!StopsWhereAsked
InputShared == T!InputShared

===============================================================================
