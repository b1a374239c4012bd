----------------------------- MODULE MCContainers -----------------------------
(* What a program keeps its values in, in one run: objects, dictionaries and *)
(* arrays.  They share nothing here, so a behaviour moves one of the three.  *)
EXTENDS Containers, TLC

CONSTANTS
  a, b, nan,   \* keys
  x, y, l1     \* two names, and a list that several objects may draw

VARIABLES part   \* what moves

Renamed == Permutations(Name)

\* Dict: a and b are sent to the last seat, so the second of them wraps to the
\* first, where nan is sent.
MCHash == a :> 7 @@ b :> 7 @@ nan :> 8

\* Arrays: integers from -1 to 1, of which 0 and 1 sort alike.
MCElem == -1 .. 1
MCRank == [e \in MCElem |-> IF e = -1 THEN 0 ELSE 1]
MCStarts ==
  {<<>>, <<1>>, <<0, 1>>, <<1, 0>>, <<1, -1>>, <<-1, 1, 1>>, <<1, 0, -1>>, <<0, 1, 0, -1>>}

slots == <<objects, array, filling, settled>>
arrays == <<items, running, ended, changes>>

MCInit ==
  /\ Init /\ O!Init /\ A!Init
  /\ part \in {"dict", "objects", "arrays"}
  /\ part # "arrays" => items = <<>>
  /\ part # "objects" => array = [l \in List |-> {}]

MCNext ==
  \/ part = "dict" /\ Next /\ UNCHANGED <<slots, arrays, part>>
  \/ part = "objects" /\ O!Next /\ UNCHANGED <<vars, arrays, part>>
  \/ part = "arrays" /\ A!Next /\ UNCHANGED <<vars, slots, part>>

MCSpec == MCInit /\ [][MCNext]_<<vars, slots, arrays, part>>
===============================================================================
