------------------------------ MODULE Dictionary ------------------------------
(***************************************************************************)
(* What a dictionary promises a program: keys with one value each, and a   *)
(* walk (do, keysAndValuesDo) over the keys it had when the walk began,    *)
(* while the block it calls goes on changing the dictionary.  The keys in  *)
(* Nan equal nothing, themselves included: such an entry can be put, is    *)
(* counted, and is never found again.                                      *)
(***************************************************************************)
EXTENDS Naturals, FiniteSets

CONSTANTS Key, Nan, Value

VARIABLES
  contents,  \* the value under each key
  strays,    \* how many entries have been put under a key of Nan
  due,       \* for each walk in progress, the keys whose turn may come
  reply      \* what the last message answered

vars == <<contents, strays, due, reply>>

NoReply == [message |-> "none", found |-> {}]

Init ==
  /\ contents = [k \in {} |-> {}]
  /\ strays = 0
  /\ due = << >>
  /\ reply = NoReply

\* A message answers the value it found, if it found one.
Found(message, k) ==
  [message |-> message, found |-> IF k \in DOMAIN contents THEN {contents[k]} ELSE {}]

Put(k, v) ==
  /\ IF k \in Nan
     THEN strays' = strays + 1 /\ UNCHANGED contents
     ELSE /\ contents' = [l \in DOMAIN contents \cup {k} |-> IF l = k THEN v ELSE contents[l]]
          /\ UNCHANGED strays
  /\ reply' = [message |-> "atPut", found |-> {v}]
  /\ UNCHANGED due

At(k) == reply' = Found("at", k) /\ UNCHANGED <<contents, strays, due>>

Remove(k) ==
  /\ reply' = Found("remove", k)
  /\ contents' = [l \in DOMAIN contents \ {k} |-> contents[l]]
  /\ UNCHANGED <<strays, due>>

Size ==
  /\ reply' = [message |-> "size", found |-> {Cardinality(DOMAIN contents) + strays}]
  /\ UNCHANGED <<contents, strays, due>>

\* A walk begins with the keys that are there.
Walk ==
  /\ due' = [i \in 1 .. Cardinality(DOMAIN due) + 1 |->
               IF i \in DOMAIN due THEN due[i] ELSE DOMAIN contents]
  /\ reply' = NoReply
  /\ UNCHANGED <<contents, strays>>

Innermost == Cardinality(DOMAIN due)

\* The walk calls its block with a key that is due and still there, and its
\* value now.  A key that had been removed when its turn came has lost it.
Visit ==
  /\ due # << >>
  /\ \E k \in due[Innermost] \cap DOMAIN contents,
        lost \in SUBSET (due[Innermost] \ DOMAIN contents) :
       /\ due' = [due EXCEPT ![Innermost] = @ \ ({k} \cup lost)]
       /\ reply' = [message |-> "visit", found |-> {<<k, contents[k]>>}]
  /\ UNCHANGED <<contents, strays>>

\* A walk ends when no key that is due is still there.
WalkEnds ==
  /\ due # << >>
  /\ due[Innermost] \cap DOMAIN contents = {}
  /\ due' = [i \in 1 .. Innermost - 1 |-> due[i]]
  /\ reply' = NoReply
  /\ UNCHANGED <<contents, strays>>

\* The block fails, and the walk with it.
WalkFails ==
  /\ due # << >>
  /\ due' = [i \in 1 .. Innermost - 1 |-> due[i]]
  /\ reply' = NoReply
  /\ UNCHANGED <<contents, strays>>

Next ==
  \/ \E k \in Key : At(k) \/ Remove(k) \/ \E v \in Value : Put(k, v)
  \/ Size \/ Walk \/ Visit \/ WalkEnds \/ WalkFails

Spec == Init /\ [][Next]_vars
===============================================================================
