------------------------------- MODULE Retained -------------------------------
(***************************************************************************)
(* The slot map behind sol_extension_retain: an array that never shrinks,  *)
(* a free list threaded through the released slots, and a generation in    *)
(* each slot that a token has to match.  It implements Registry as long as *)
(* no generation wraps.                                                    *)
(***************************************************************************)
EXTENDS Integers, FiniteSets

CONSTANTS
  Value,      \* what an extension may retain
  Nil,        \* what a released slot is made to hold
  Wrap,       \* 2^32: a generation is a uint32_t
  MaxRetains  \* bound: calls of sol_extension_retain

ASSUME RetainedAssumption == Wrap \in Nat \ {0} /\ MaxRetains \in Nat

VARIABLES
  count,      \* vm->retained_count
  slots,      \* vm->retained
  free,       \* vm->retained_free
  reply,      \* the last call and what it answered
  open,       \* sol_gc_free_all has not been called
  answered,   \* history: the tokens answered so far
  retains     \* history: how many calls of sol_extension_retain

vars == <<count, slots, free, reply, open, answered, retains>>

-----------------------------------------------------------------------------
\* A SolRetainedSlot.
Slot == [value : Value \cup {Nil}, generation : 0 .. Wrap - 1,
         inUse : BOOLEAN, nextFree : Int]

\* A token is an index and a generation; the index may be out of range.
Token == [index : 0 .. MaxRetains, generation : 0 .. Wrap - 1]
None == [index |-> 0, generation |-> 0]

Index == 0 .. count - 1

\* Mutants of Names: the generation alone, and the index alone.
NamesByGeneration(t) ==
  t # None /\ t.index < count /\ slots[t.index].generation = t.generation
NamesByIndex(t) == t # None /\ t.index < count /\ slots[t.index].inUse

\* The test retained_slot makes.
Names(t) ==
  /\ t # None
  /\ t.index < count
  /\ slots[t.index].inUse
  /\ slots[t.index].generation = t.generation

\* What the tokens in force stand for, and the ones that no longer are.
Held == [t \in {u \in Token : Names(u)} |-> slots[t.index].value]
Spent == {t \in answered : ~Names(t)}

Ledger == INSTANCE Registry WITH held <- Held, spent <- Spent

-----------------------------------------------------------------------------
Init ==
  /\ count = 0
  /\ slots = [i \in {} |-> Nil]
  /\ free = -1
  /\ reply = Ledger!NoReply
  /\ open = TRUE
  /\ answered = {}
  /\ retains = 0

\* Slot i is put to use, for a value v: its generation goes up by one.
Use(i, old, v) ==
  LET gen == (old.generation + 1) % Wrap
      t == [index |-> i, generation |-> gen] IN
  /\ slots' = [j \in Index \cup {i} |->
                 IF j = i THEN [old EXCEPT !.value = v, !.inUse = TRUE, !.generation = gen]
                          ELSE slots[j]]
  /\ reply' = Ledger!Found("retain", t, v)
  /\ answered' = answered \cup {t}
  /\ retains' = retains + 1

\* A slot past the end of the array, which grows; indices stay as they are.
NewSlot == [value |-> Nil, generation |-> 0, inUse |-> FALSE, nextFree |-> -1]

Retain(v) ==
  /\ open
  /\ retains < MaxRetains
  /\ IF free # -1
     THEN /\ Use(free, slots[free], v)
          /\ free' = slots[free].nextFree
          /\ UNCHANGED count
     ELSE /\ Use(count, NewSlot, v)
          /\ count' = count + 1
          /\ UNCHANGED free
  /\ UNCHANGED open

RetainedValue(t) ==
  /\ open
  /\ reply' = IF Names(t) THEN Ledger!Found("retained", t, slots[t.index].value)
                          ELSE Ledger!Missing("retained", t)
  /\ UNCHANGED <<count, slots, free, open, answered, retains>>

\* Mutant of Unlinked: the released slot starts a new list.
UnlinkedAlone(s) == [s EXCEPT !.value = Nil, !.inUse = FALSE, !.nextFree = -1]

\* The slot release clears and links in front of the free list.
Unlinked(s) == [s EXCEPT !.value = Nil, !.inUse = FALSE, !.nextFree = free]

Release(t) ==
  /\ open
  /\ IF Names(t)
     THEN /\ reply' = Ledger!Found("release", t, slots[t.index].value)
          /\ slots' = [slots EXCEPT ![t.index] = Unlinked(slots[t.index])]
          /\ free' = t.index
     ELSE /\ reply' = Ledger!Missing("release", t)
          /\ UNCHANGED <<slots, free>>
  /\ UNCHANGED <<count, open, answered, retains>>

\* Mutant of Free: the list still starts at a slot of the array that is gone.
FreeKeepsList ==
  /\ open
  /\ open' = FALSE
  /\ count' = 0
  /\ slots' = [i \in {} |-> Nil]
  /\ UNCHANGED <<free, reply, answered, retains>>

\* sol_gc_free_all frees the array.
Free ==
  /\ open
  /\ open' = FALSE
  /\ count' = 0
  /\ slots' = [i \in {} |-> Nil]
  /\ free' = -1
  /\ UNCHANGED <<reply, answered, retains>>

Next ==
  \/ \E v \in Value : Retain(v)
  \/ \E t \in Token : RetainedValue(t) \/ Release(t)
  \/ Free

Spec == Init /\ [][Next]_vars

-----------------------------------------------------------------------------
(* Properties                                                              *)

\* Every field has its type.
TypeOK ==
  /\ count \in Nat
  /\ slots \in [Index -> Slot]
  /\ free \in Index \cup {-1}
  /\ open \in BOOLEAN
  /\ answered \subseteq Token
  /\ retains \in 0 .. MaxRetains

\* The calls keep the promise of extend.h: what a token stands for, that one
\* is never answered twice and that a released one stands for nothing.
KeepsPromise == Ledger!Spec

\* The slots on the free list, in the order they will be handed out.
FreeAt[n \in Nat] == IF n = 0 THEN free
                     ELSE IF FreeAt[n - 1] = -1 THEN -1 ELSE slots[FreeAt[n - 1]].nextFree

Unused == {i \in Index : ~slots[i].inUse}

\* The free list holds every released slot once and nothing else, and ends:
\* no slot is lost to it, and none is handed out while it is in use.
FreeListExact ==
  /\ {FreeAt[n] : n \in 0 .. Cardinality(Unused) - 1} = Unused
  /\ FreeAt[Cardinality(Unused)] = -1

\* extend.h says that retain never answers SOL_RETAINED_NONE.
NeverAnswersNone == reply.call = "retain" => reply.token # None
===============================================================================
