--------------------------------- MODULE Dict ---------------------------------
(***************************************************************************)
(* A SolDict: open addressing with linear probing, tombstones for what has *)
(* been removed, and a table rebuilt at twice its size when three quarters *)
(* of its seats are not empty; and the walk of do and keysAndValuesDo,     *)
(* whose block may change the table between two keys.  It implements       *)
(* Dictionary.                                                             *)
(***************************************************************************)
EXTENDS Integers, Sequences, SequencesExt, FiniteSets, FiniteSetsExt

CONSTANTS
  Key,          \* values that may be keys
  Nan,          \* the keys that equal nothing
  Value,
  Nil,          \* what a tombstone holds
  Hash,         \* hash_key
  MinCapacity,  \* 8: seats of the first table
  MaxCapacity,  \* bound: seats of the largest table
  MaxStrays,    \* bound: entries under keys of Nan
  MaxWalks      \* bound: walks in progress

\* A quarter of the first table is a number of seats, and so is a quarter of
\* every table that doubles it.
ASSUME DictAssumption ==
  /\ Nan \subseteq Key
  /\ Hash \in [Key -> Nat]
  /\ MinCapacity \in Nat \ {0} /\ MinCapacity % 4 = 0
  /\ MaxCapacity \in Nat /\ MaxStrays \in Nat /\ MaxWalks \in Nat

VARIABLES
  entries,  \* the seats, numbered from 0
  count,    \* live entries
  used,     \* live entries and tombstones
  walks,    \* the snapshot each walk in progress has still to go through
  reply     \* what the last message answered

vars == <<entries, count, used, walks, reply>>

-----------------------------------------------------------------------------
Empty == [state |-> "empty", key |-> Nil, value |-> Nil]
Gone == [state |-> "gone", key |-> Nil, value |-> Nil]
Live(k, v) == [state |-> "live", key |-> k, value |-> v]

Capacity(table) == Cardinality(DOMAIN table)
capacity == Capacity(entries)

\* sol_value_equals on keys.
Equals(k, l) == k = l /\ k \notin Nan

\* Where the probe for k looks after n steps, and whether it stops there.
Probe(table, k, n) == (Hash[k] + n) % Capacity(table)
StopsAt(table, k, n) ==
  LET seat == table[Probe(table, k, n)] IN
  seat.state = "empty" \/ (seat.state = "live" /\ Equals(seat.key, k))

\* How far the probe for k goes.
Steps(table, k) == Min({n \in 0 .. Capacity(table) - 1 : StopsAt(table, k, n)})

\* Mutant of FindEntry: a probe stops at a tombstone.
FindEntryToTombstone(table, k) ==
  Probe(table, k, Min({n \in 0 .. Capacity(table) - 1 :
                         StopsAt(table, k, n) \/ table[Probe(table, k, n)].state = "gone"}))

\* The seat of k, or the one to put it in: the first tombstone on the way.
FindEntry(table, k) ==
  LET last == Steps(table, k)
      gone == {n \in 0 .. last - 1 : table[Probe(table, k, n)].state = "gone"} IN
  IF table[Probe(table, k, last)].state = "live" \/ gone = {}
  THEN Probe(table, k, last)
  ELSE Probe(table, k, Min(gone))

\* A table with one seat of the old one moved to it.
Placed(table, e) ==
  IF e.state = "live" THEN [table EXCEPT ![FindEntry(table, e.key)] = e] ELSE table

\* The new table when the first n seats of the old one have been moved to it,
\* and when all have: the tombstones are left behind.
NewCapacity == IF capacity < MinCapacity THEN MinCapacity ELSE 2 * capacity
Rebuilt[n \in 0 .. capacity] ==
  IF n = 0 THEN [i \in 0 .. NewCapacity - 1 |-> Empty]
           ELSE Placed(Rebuilt[n - 1], entries[n - 1])
Grown == Rebuilt[capacity]

\* What sol_dict_get finds.
Lookup(k) ==
  IF count = 0 THEN {}
  ELSE LET e == entries[FindEntry(entries, k)] IN IF e.state = "live" THEN {e.value} ELSE {}

Seats(state) == {i \in DOMAIN entries : entries[i].state = state}

\* Entries that cannot be found again.
Strays == {i \in Seats("live") : entries[i].key \in Nan}

Answer(message, found) == reply' = [message |-> message, found |-> found]

-----------------------------------------------------------------------------
Init ==
  /\ entries = [i \in {} |-> Empty]
  /\ count = 0
  /\ used = 0
  /\ walks = <<>>
  /\ reply = [message |-> "none", found |-> {}]

\* Mutant of Crowded: tombstones are not counted.
CrowdedByLive == count + 1 > capacity - capacity \div 4

\* A table is rebuilt before it is more than three quarters full, tombstones
\* included.
Crowded == used + 1 > capacity - capacity \div 4

Put(k, v) ==
  /\ Crowded => NewCapacity <= MaxCapacity
  /\ k \in Nan => Cardinality(Strays) < MaxStrays
  /\ LET table == IF Crowded THEN Grown ELSE entries
         full == IF Crowded THEN count ELSE used
         seat == FindEntry(table, k)
         was == table[seat].state IN
       /\ entries' = [table EXCEPT ![seat] = Live(k, v)]
       /\ count' = IF was = "live" THEN count ELSE count + 1
       /\ used' = IF was = "empty" THEN full + 1 ELSE full
  /\ Answer("atPut", {v})
  /\ UNCHANGED walks

At(k) == Answer("at", Lookup(k)) /\ UNCHANGED <<entries, count, used, walks>>

\* What a removed entry leaves in its seat.
Removed == Gone

RemoveKey(k) ==
  /\ Answer("remove", Lookup(k))
  /\ IF Lookup(k) # {}
     THEN /\ entries' = [entries EXCEPT ![FindEntry(entries, k)] = Removed]
          /\ count' = count - 1
     ELSE UNCHANGED <<entries, count>>
  /\ UNCHANGED <<used, walks>>

Size == Answer("size", {count}) /\ UNCHANGED <<entries, count, used, walks>>

-----------------------------------------------------------------------------
(* Walking                                                                 *)

\* dict_contents: the keys, in the order of the table.
KeysUpTo[n \in 0 .. capacity] ==
  IF n = 0 THEN <<>>
  ELSE IF entries[n - 1].state = "live" THEN Append(KeysUpTo[n - 1], entries[n - 1].key)
  ELSE KeysUpTo[n - 1]
Keys == KeysUpTo[capacity]

Walk ==
  /\ Len(walks) < MaxWalks
  /\ walks' = Append(walks, Keys)
  /\ Answer("none", {})
  /\ UNCHANGED <<entries, count, used>>

\* The part of a snapshot from the first key that is still there.
Ahead(list) ==
  LET there == {i \in DOMAIN list : Lookup(list[i]) # {}} IN
  IF there = {} THEN <<>> ELSE SubSeq(list, Min(there), Len(list))

\* The block has returned, or is called for the first time: the walk skips
\* the keys that are gone and calls it with the next, or ends.
WalkOn ==
  /\ walks # <<>>
  /\ LET rest == Ahead(Last(walks)) IN
       IF rest = <<>>
       THEN walks' = Front(walks) /\ Answer("none", {})
       ELSE /\ walks' = Front(walks) \o <<Tail(rest)>>
            /\ Answer("visit", {<<Head(rest), v>> : v \in Lookup(Head(rest))})
  /\ UNCHANGED <<entries, count, used>>

\* The block failed.
WalkFails ==
  /\ walks # <<>>
  /\ walks' = Front(walks)
  /\ Answer("none", {})
  /\ UNCHANGED <<entries, count, used>>

Next ==
  \/ \E k \in Key : At(k) \/ RemoveKey(k) \/ \E v \in Value : Put(k, v)
  \/ Size \/ Walk \/ WalkOn \/ WalkFails

Spec == Init /\ [][Next]_vars

-----------------------------------------------------------------------------
(* Properties                                                              *)

\* The two counters are what they count, and a quarter of the seats are
\* empty: a probe for a key that is not there has somewhere to stop.
CountsExact ==
  /\ count = Cardinality(Seats("live"))
  /\ used = count + Cardinality(Seats("gone"))
  /\ 4 * (capacity - used) >= capacity

\* What the table says of each key that can be found, and the keys each walk
\* may still come to.
Contents == [k \in {entries[i].key : i \in Seats("live")} \ Nan |->
               (CHOOSE e \in {entries[i] : i \in Seats("live")} : e.key = k).value]
Due == [i \in DOMAIN walks |-> ToSet(walks[i]) \ Nan]

Promise == INSTANCE Dictionary WITH
  contents <- Contents, strays <- Cardinality(Strays), due <- Due

\* The table keeps the promise of a dictionary, whatever collides, whatever
\* has been removed, and whatever is changed in the middle of a walk: a key is
\* found wherever probing left it, a walk meets each key it began with at most
\* once and only while it is there, none that came later, and so it ends.
KeepsPromise == Promise!Spec
===============================================================================
