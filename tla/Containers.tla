------------------------------ MODULE Containers ------------------------------
(***************************************************************************)
(* The values a program keeps others in: dictionaries, objects of slots,   *)
(* and arrays.  They share nothing.                                        *)
(***************************************************************************)
EXTENDS Dict

CONSTANTS
  Name, List, None, Threshold, MinSeats, MaxObjects, MaxSlots, CallocFails,   \* of Objects
  Elem, Rank, Starts, Stale, MaxLength, MaxChanges                            \* of Arrays

VARIABLES
  objects, array, filling, settled,   \* of Objects
  items, running, ended, changes      \* of Arrays

O == INSTANCE Objects
A == INSTANCE Arrays

\* An index begins with 16 seats, and nil is no object and no array.
ASSUME ObjectsAssumption == O!ObjectsAssumption

\* Elements are integers, and can be told from what lies past the end of an array.
ASSUME ArraysAssumption == A!ArraysAssumption

\* The properties of each, which say there what they are about.
IndexAgrees == O!IndexAgrees
SurfaceAgrees == O!SurfaceAgrees
OutsidersKeepOff == O!OutsidersKeepOff
AnswersHold == A!AnswersHold

===============================================================================
