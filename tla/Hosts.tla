--------------------------------- MODULE Hosts ---------------------------------
(***************************************************************************)
(* What is around a running program: values kept for extensions, failures  *)
(* and limits, the machines of a host and the files they load, the lines   *)
(* of the shell, and other programs.  They share nothing here.             *)
(***************************************************************************)
EXTENDS Retained

CONSTANTS
  StepLimit, StepWrap, MemoryLimited, MaxCalls, MaxFailures, MaxLate,
  MaxSteps,                                                                  \* of Unwind
  Address, Global, Real, Unusable, Programs, Block, HostAsks, Texts,
  MaxFrames, MaxMachines,                                                    \* of Loading
  Entry, Empty, LastPiece, Limit, MaxEntered,                                \* of History
  Path, Requests, Standings, PipeHolds, MaxWritten                           \* of Children

VARIABLES
  calls, vm, stepsLeft, pc, result, executed, raised, exits, handed, dropped, outranked,
  late, ensures, cleanups,                                                   \* of Unwind
  disk, machines, chunks, frames, serial,                                    \* of Loading
  history, file, line, arrow, pending, own, entered,                         \* of History
  standing, descriptors, request, step, processes, pipe, output, status, short,
  written                                                                    \* of Children

M == INSTANCE Unwind WITH Wrap <- StepWrap
L == INSTANCE Loading
H == INSTANCE History
C == INSTANCE Children

\* What each of them takes for granted.
ASSUME HostsAssumption ==
  /\ M!UnwindAssumption /\ L!LoadingAssumption
  /\ H!HistoryAssumption /\ C!ChildrenAssumption

-----------------------------------------------------------------------------
(* The properties of each, which say there what they are about.            *)

FailuresAccounted == M!FailuresAccounted
NamesOwn == L!NamesOwn
LoadedOnce == L!LoadedOnce
HistoryKept == H!HistoryKept
ChildrenServed == C!ChildrenServed

===============================================================================
