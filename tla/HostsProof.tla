------------------------------ MODULE HostsProof ------------------------------
(***************************************************************************)
(* What is proved of the parts of Hosts.                                   *)
(*                                                                         *)
(* The slot map implements Registry, for any number of slots, as long as   *)
(* fewer values are retained than a generation can count; its free list    *)
(* loses no slot however many are.                                         *)
(*                                                                         *)
(* A program started gets the streams it was asked to have, and what has   *)
(* it open is closed again; a line typed can be come back to.              *)
(***************************************************************************)
EXTENDS Hosts, Iteration, FiniteSetTheorems, SequenceTheorems, TLAPS

\* A released slot links to a released slot or ends the list, no two link to
\* the same one, and none links to the first: taking the first leaves a list.
Threaded ==
  /\ free # -1 => ~slots[free].inUse
  /\ \A i \in Index : ~slots[i].inUse =>
       /\ slots[i].nextFree \in Index \cup {-1}
       /\ slots[i].nextFree # -1 => /\ ~slots[slots[i].nextFree].inUse
                                    /\ slots[i].nextFree # free
       /\ \A j \in Index : (~slots[j].inUse /\ i # j /\ slots[i].nextFree # -1)
                             => slots[i].nextFree # slots[j].nextFree

\* There are at most as many slots as retains, and a generation counts some
\* of them; the token of a slot in use has been answered.
Counted ==
  /\ count <= retains
  /\ \A i \in Index : slots[i].generation <= retains
  /\ \A i \in Index : slots[i].inUse =>
       [index |-> i, generation |-> slots[i].generation] \in answered
  /\ ~open => count = 0

\* As long as no generation wraps: they start at 1, and a slot's is at least
\* that of every token answered for it.
Fresh ==
  /\ \A i \in Index : slots[i].generation >= 1
  /\ \A t \in answered : t.generation >= 1
  /\ open => \A t \in answered : t.index < count /\ t.generation <= slots[t.index].generation

IInv == TypeOK /\ Threaded /\ Counted

-----------------------------------------------------------------------------
\* What adding one to a generation gives: a generation, and the next one
\* when it does not wrap.
LEMMA NextGeneration ==
  ASSUME NEW g \in 0 .. Wrap - 1
  PROVE  /\ (g + 1) % Wrap \in 0 .. Wrap - 1
         /\ (g + 1) % Wrap <= g + 1
         /\ g + 1 < Wrap => (g + 1) % Wrap = g + 1
<1>1. Wrap \in Nat /\ Wrap > 0
  BY RetainedAssumption
<1>2. CASE g + 1 < Wrap
  BY <1>1, <1>2
<1>3. CASE g + 1 = Wrap
  BY <1>1, <1>3
<1> QED BY <1>1, <1>2, <1>3

-----------------------------------------------------------------------------
(* The invariant                                                           *)

\* Retain puts one slot to use: the first released one, or one past the end.
LEMMA RetainUses ==
  ASSUME IInv, NEW v \in Value, Retain(v)
  PROVE  \E i \in 0 .. count : \E g \in 0 .. Wrap - 1 : \E s \in Slot :
           /\ s.value = v /\ s.inUse /\ s.generation = g
           /\ g <= retains + 1
           /\ i \in Index => /\ ~slots[i].inUse
                             /\ i = free
                             /\ free' = slots[i].nextFree
                             /\ count' = count
                             /\ g = (slots[i].generation + 1) % Wrap
           /\ i \notin Index => /\ i = count
                                /\ count' = count + 1
                                /\ free = -1
                                /\ free' = -1
                                /\ g = 1 % Wrap
           /\ slots' = [j \in Index \cup {i} |-> IF j = i THEN s ELSE slots[j]]
           /\ answered' = answered \cup {[index |-> i, generation |-> g]}
           /\ reply' = Ledger!Found("retain", [index |-> i, generation |-> g], v)
<1> DEFINE i == IF free # -1 THEN free ELSE count
           old == IF free # -1 THEN slots[free] ELSE NewSlot
           g == (old.generation + 1) % Wrap
           s == [old EXCEPT !.value = v, !.inUse = TRUE, !.generation = g]
<1>1. i \in 0 .. count /\ (i \in Index <=> free # -1)
  BY DEF IInv, TypeOK, Index
<1>2. old \in Slot
  <2>1. Wrap \in Nat /\ Wrap > 0
    BY RetainedAssumption
  <2>2. NewSlot \in Slot
    BY <2>1 DEF NewSlot, Slot
  <2> QED BY <2>2 DEF IInv, TypeOK
<1>3. /\ g \in 0 .. Wrap - 1 /\ g <= old.generation + 1
  <2>1. old.generation \in 0 .. Wrap - 1
    BY <1>2 DEF Slot
  <2> QED BY <2>1, NextGeneration
<1>4. g <= retains + 1
  <2>1. old.generation <= retains
    BY DEF IInv, TypeOK, Counted, NewSlot
  <2>2. old.generation \in Int /\ retains \in Int
    BY <1>2 DEF Slot, IInv, TypeOK
  <2>3. g \in Int /\ g <= old.generation + 1
    BY <1>3
  <2> QED BY <2>1, <2>2, <2>3
<1>5. s \in Slot /\ s.value = v /\ s.inUse /\ s.generation = g
  BY <1>2, <1>3 DEF Slot
<1>6. Use(i, old, v) /\ count' = (IF free # -1 THEN count ELSE count + 1)
                     /\ free' = (IF free # -1 THEN slots[free].nextFree ELSE free)
  BY DEF Retain
<1>7. free # -1 => ~slots[free].inUse
  BY DEF IInv, Threaded
<1>8. free = -1 => g = 1 % Wrap
  BY DEF NewSlot
<1>9. slots' = [j \in Index \cup {i} |-> IF j = i THEN s ELSE slots[j]]
  BY <1>6 DEF Use
<1>10. /\ answered' = answered \cup {[index |-> i, generation |-> g]}
       /\ reply' = Ledger!Found("retain", [index |-> i, generation |-> g], v)
  BY <1>6 DEF Use
<1> HIDE DEF g, s, old
<1>11. i \in Index => /\ ~slots[i].inUse /\ i = free /\ free' = slots[i].nextFree
                      /\ count' = count /\ g = (slots[i].generation + 1) % Wrap
  BY <1>1, <1>6, <1>7 DEF g, old
<1>12. i \notin Index => /\ i = count /\ count' = count + 1 /\ free = -1 /\ free' = -1
                         /\ g = 1 % Wrap
  BY <1>1, <1>6, <1>8
<1> QED BY <1>1, <1>3, <1>4, <1>5, <1>9, <1>10, <1>11, <1>12

LEMMA Initially == Init => IInv /\ Fresh
<1> SUFFICES ASSUME Init PROVE IInv /\ Fresh
  OBVIOUS
<1>1. Index = {}
  BY DEF Init, Index
<1> QED BY <1>1, RetainedAssumption DEF Init, IInv, Fresh, TypeOK, Threaded, Counted

LEMMA Inductive == IInv /\ [Next]_vars => IInv'
<1> SUFFICES ASSUME IInv, [Next]_vars PROVE IInv'
  OBVIOUS
<1>1. CASE UNCHANGED vars
  BY <1>1 DEF vars, IInv, TypeOK, Threaded, Counted, Index
<1>2. ASSUME NEW v \in Value, Retain(v) PROVE IInv'
  <2>1. PICK i \in 0 .. count, g \in 0 .. Wrap - 1, s \in Slot :
           /\ s.value = v /\ s.inUse /\ s.generation = g
           /\ g <= retains + 1
           /\ i \in Index => /\ ~slots[i].inUse
                             /\ i = free
                             /\ free' = slots[i].nextFree
                             /\ count' = count
                             /\ g = (slots[i].generation + 1) % Wrap
           /\ i \notin Index => /\ i = count
                                /\ count' = count + 1
                                /\ free = -1
                                /\ free' = -1
                                /\ g = 1 % Wrap
           /\ slots' = [j \in Index \cup {i} |-> IF j = i THEN s ELSE slots[j]]
           /\ answered' = answered \cup {[index |-> i, generation |-> g]}
           /\ reply' = Ledger!Found("retain", [index |-> i, generation |-> g], v)
    BY <1>2, RetainUses
  <2>2. /\ retains' = retains + 1 /\ open /\ open' = open
        /\ retains < MaxRetains
    BY <1>2 DEF Retain, Use
  <2>3. count \in Nat /\ retains \in Nat /\ MaxRetains \in Nat
    BY RetainedAssumption DEF IInv, TypeOK
  <2>4. Index' = Index \cup {i} /\ count' \in Nat /\ count' <= count + 1
    BY <2>1, <2>3 DEF Index
  <2>5. \A j \in Index' : slots'[j] = IF j = i THEN s ELSE slots[j]
    BY <2>1, <2>4
  <2>6. \A j \in Index : slots[j] \in Slot
    BY DEF IInv, TypeOK
  <2>7. TypeOK'
    <3>1. slots' \in [Index' -> Slot]
      BY <2>1, <2>4, <2>6
    <3>2. free' \in Index' \cup {-1}
      BY <2>1, <2>4 DEF IInv, Threaded
    <3>3. [index |-> i, generation |-> g] \in Token
      BY <2>1, <2>2, <2>3 DEF Token, IInv, Counted
    <3>4. retains' \in 0 .. MaxRetains
      BY <2>2, <2>3
    <3> QED BY <2>1, <2>2, <2>4, <3>1, <3>2, <3>3, <3>4 DEF TypeOK, IInv
  <2>8. Threaded'
    <3>1. \A j \in Index' : ~slots'[j].inUse => j \in Index /\ j # i /\ slots'[j] = slots[j]
      BY <2>1, <2>4, <2>5
    <3>2. free' # -1 => free' \in Index /\ free' # i /\ ~slots[free'].inUse /\ free = i
      BY <2>1 DEF IInv, Threaded
    <3>3. free' # -1 => ~slots'[free'].inUse
      BY <2>4, <2>5, <3>2
    <3>4. ASSUME NEW j \in Index', ~slots'[j].inUse
          PROVE  /\ slots'[j].nextFree \in Index' \cup {-1}
                 /\ slots'[j].nextFree # -1 => /\ ~slots'[slots'[j].nextFree].inUse
                                               /\ slots'[j].nextFree # free'
                 /\ \A k \in Index' : (~slots'[k].inUse /\ j # k /\ slots'[j].nextFree # -1)
                                        => slots'[j].nextFree # slots'[k].nextFree
      <4>1. j \in Index /\ j # i /\ slots'[j] = slots[j]
        BY <3>1, <3>4
      <4>2. slots[j].nextFree # -1 => slots[j].nextFree # i
        BY <2>1, <2>4, <3>4, <4>1 DEF IInv, Threaded
      <4>3. slots[j].nextFree # -1 => slots'[slots[j].nextFree] = slots[slots[j].nextFree]
        BY <2>4, <2>5, <3>4, <4>1, <4>2 DEF IInv, Threaded
      <4>4. slots[j].nextFree # -1 => slots[j].nextFree # free'
        BY <2>1, <3>2, <3>4, <4>1 DEF IInv, Threaded
      <4> QED BY <2>4, <3>1, <3>4, <4>1, <4>3, <4>4 DEF IInv, Threaded
    <3> QED BY <3>3, <3>4 DEF Threaded
  <2>9. Counted'
    <3>1. count' <= retains' /\ (~open' => count' = 0)
      BY <2>2, <2>3, <2>4 DEF IInv, Counted
    <3>2. ASSUME NEW j \in Index' PROVE slots'[j].generation <= retains'
      <4>1. CASE j = i
        BY <2>1, <2>2, <2>5, <4>1
      <4>2. CASE j # i
        <5>1. j \in Index /\ slots'[j] = slots[j] /\ slots[j].generation <= retains
          BY <2>4, <2>5, <4>2 DEF IInv, Counted
        <5>2. slots[j].generation \in Int
          BY <2>6, <5>1 DEF Slot
        <5> QED BY <2>2, <2>3, <5>1, <5>2
      <4> QED BY <4>1, <4>2
    <3>3. \A j \in Index' : slots'[j].inUse =>
             [index |-> j, generation |-> slots'[j].generation] \in answered'
      BY <2>1, <2>4, <2>5 DEF IInv, Counted
    <3> QED BY <3>1, <3>2, <3>3 DEF Counted
  <2> QED BY <2>7, <2>8, <2>9 DEF IInv
<1>3. ASSUME NEW t \in Token, RetainedValue(t) PROVE IInv'
  BY <1>3 DEF RetainedValue, IInv, TypeOK, Threaded, Counted, Index
<1>4. ASSUME NEW t \in Token, Release(t) PROVE IInv'
  <2>1. CASE ~Names(t)
    BY <1>4, <2>1 DEF Release, IInv, TypeOK, Threaded, Counted, Index
  <2>2. CASE Names(t)
    <3> DEFINE i == t.index
               s == Unlinked(slots[i])
    <3>1. i \in Index /\ slots[i].inUse
      BY <2>2 DEF Names, Index, Token, IInv, TypeOK
    <3>2. /\ slots' = [slots EXCEPT ![i] = s] /\ free' = i /\ count' = count
          /\ open' = open /\ answered' = answered /\ retains' = retains /\ Index' = Index
      BY <1>4, <2>2 DEF Release, Index
    <3>3. /\ slots \in [Index -> Slot] /\ free \in Index \cup {-1}
          /\ free \in Int
      BY DEF IInv, TypeOK, Index
    <3>4. /\ s \in Slot /\ ~s.inUse /\ s.nextFree = free
          /\ s.generation = slots[i].generation
      BY <3>1, <3>3 DEF Unlinked, Slot
    <3> HIDE DEF s
    <3>5. \A j \in Index : slots'[j] = IF j = i THEN s ELSE slots[j]
      BY <3>2, <3>3
    <3>6. TypeOK'
      BY <3>1, <3>2, <3>3, <3>4 DEF TypeOK, IInv
    <3>7. Threaded'
      <4>1. free' # -1 => ~slots'[free'].inUse
        BY <3>1, <3>2, <3>4, <3>5
      <4>2. free # -1 => free \in Index /\ ~slots[free].inUse /\ free # i
        BY <3>1, <3>3 DEF IInv, Threaded
      <4>3. i # -1
        BY <3>1 DEF Index
      <4>4. ASSUME NEW j \in Index, ~slots'[j].inUse
            PROVE  /\ slots'[j].nextFree \in Index \cup {-1}
                   /\ slots'[j].nextFree # -1 => /\ ~slots'[slots'[j].nextFree].inUse
                                                 /\ slots'[j].nextFree # free'
                   /\ \A k \in Index : (~slots'[k].inUse /\ j # k /\ slots'[j].nextFree # -1)
                                         => slots'[j].nextFree # slots'[k].nextFree
        <5>1. CASE j = i
          <6>1. slots'[j].nextFree = free
            BY <3>1, <3>4, <3>5, <5>1
          <6>2. free # -1 => slots'[free] = slots[free]
            BY <3>5, <4>2
          <6>3. \A k \in Index : (~slots'[k].inUse /\ j # k /\ free # -1)
                                   => free # slots'[k].nextFree
            BY <3>5, <5>1 DEF IInv, Threaded
          <6> QED BY <3>2, <3>3, <4>2, <6>1, <6>2, <6>3
        <5>2. CASE j # i
          <6>1. slots'[j] = slots[j] /\ ~slots[j].inUse
            BY <3>5, <4>4, <5>2
          <6>2. /\ slots[j].nextFree \in Index \cup {-1}
                /\ slots[j].nextFree # -1 => /\ ~slots[slots[j].nextFree].inUse
                                             /\ slots[j].nextFree # free
            BY <6>1 DEF IInv, Threaded
          <6>3. slots[j].nextFree # -1 => /\ slots[j].nextFree # i
                                          /\ ~slots'[slots[j].nextFree].inUse
            BY <3>1, <3>5, <6>2
          <6>4. \A k \in Index : (~slots'[k].inUse /\ j # k /\ slots[j].nextFree # -1)
                                   => slots[j].nextFree # slots'[k].nextFree
            BY <3>4, <3>5, <6>1, <6>2 DEF IInv, Threaded
          <6> QED BY <3>2, <6>1, <6>2, <6>3, <6>4
        <5> QED BY <5>1, <5>2
      <4> QED BY <3>2, <4>1, <4>4 DEF Threaded
    <3>8. Counted'
      BY <3>1, <3>2, <3>4, <3>5 DEF Counted, IInv
    <3> QED BY <3>6, <3>7, <3>8 DEF IInv
  <2> QED BY <2>1, <2>2
<1>5. CASE Free
  <2>1. Index' = {}
    BY <1>5 DEF Free, Index
  <2>2. /\ count' = 0 /\ slots' = [i \in {} |-> Nil] /\ free' = -1 /\ open' = FALSE
        /\ answered' = answered /\ retains' = retains
    BY <1>5 DEF Free
  <2>3. TypeOK'
    <3>1. slots' \in [Index' -> Slot]
      BY <2>1, <2>2
    <3> QED BY <2>2, <3>1 DEF IInv, TypeOK
  <2>4. Threaded'
    BY <2>1, <2>2 DEF Threaded
  <2>5. Counted'
    BY <2>1, <2>2 DEF Counted, IInv, TypeOK
  <2> QED BY <2>3, <2>4, <2>5 DEF IInv
<1> QED BY <1>1, <1>2, <1>3, <1>4, <1>5 DEF Next

\* The array, the free list and the tokens stay what the calls expect, even
\* when generations wrap.
THEOREM TypeCorrect == Spec => []TypeOK
<1>1. IInv => TypeOK
  BY DEF IInv
<1> QED BY <1>1, Initially, Inductive, PTL DEF Spec

-----------------------------------------------------------------------------
(* As long as no generation wraps                                          *)

\* The token retain answers is new, and is not SOL_RETAINED_NONE.
LEMMA RetainIsFresh ==
  ASSUME MaxRetains < Wrap, IInv, Fresh, NEW v \in Value, Retain(v)
  PROVE  \E i \in 0 .. count : \E g \in 1 .. Wrap - 1 : \E s \in Slot :
           /\ s.value = v /\ s.inUse /\ s.generation = g
           /\ i \in Index => ~slots[i].inUse /\ g = slots[i].generation + 1
           /\ Index' = Index \cup {i}
           /\ count' \in Nat /\ count <= count' /\ i < count'
           /\ slots' = [j \in Index' |-> IF j = i THEN s ELSE slots[j]]
           /\ answered' = answered \cup {[index |-> i, generation |-> g]}
           /\ [index |-> i, generation |-> g] \in Token \ (answered \cup {None})
           /\ reply' = Ledger!Found("retain", [index |-> i, generation |-> g], v)
<1>1. PICK i \in 0 .. count, g \in 0 .. Wrap - 1, s \in Slot :
         /\ s.value = v /\ s.inUse /\ s.generation = g
         /\ g <= retains + 1
         /\ i \in Index => /\ ~slots[i].inUse
                           /\ i = free
                           /\ free' = slots[i].nextFree
                           /\ count' = count
                           /\ g = (slots[i].generation + 1) % Wrap
         /\ i \notin Index => /\ i = count
                              /\ count' = count + 1
                              /\ free = -1
                              /\ free' = -1
                              /\ g = 1 % Wrap
         /\ slots' = [j \in Index \cup {i} |-> IF j = i THEN s ELSE slots[j]]
         /\ answered' = answered \cup {[index |-> i, generation |-> g]}
         /\ reply' = Ledger!Found("retain", [index |-> i, generation |-> g], v)
  BY RetainUses
<1>2. /\ count \in Nat /\ retains \in Nat /\ MaxRetains \in Nat /\ Wrap \in Nat
      /\ retains < MaxRetains /\ open /\ count <= retains
  BY RetainedAssumption DEF IInv, TypeOK, Counted, Retain
<1>3. Index' = Index \cup {i} /\ count' \in Nat /\ count <= count' /\ i < count'
  BY <1>1, <1>2 DEF Index
<1>4. i \in Index => g = slots[i].generation + 1
  <2> SUFFICES ASSUME i \in Index PROVE g = slots[i].generation + 1
    OBVIOUS
  <2>1. slots[i].generation \in 0 .. Wrap - 1 /\ slots[i].generation <= retains
    BY DEF IInv, TypeOK, Counted, Slot
  <2>2. slots[i].generation + 1 < Wrap
    BY <1>2, <2>1
  <2> QED BY <1>1, <2>1, <2>2, NextGeneration
<1>5. i \notin Index => g = 1
  BY <1>1, <1>2
<1>6. g \in 1 .. Wrap - 1
  <2>1. i \in Index => slots[i].generation \in Int /\ slots[i].generation >= 1
    BY DEF IInv, TypeOK, Slot, Fresh
  <2>2. g >= 1
    BY <1>4, <1>5, <2>1
  <2> QED BY <1>2, <2>2
<1>7. [index |-> i, generation |-> g] \in Token
  BY <1>1, <1>2 DEF Token
<1>8. [index |-> i, generation |-> g] # None
  BY <1>6 DEF None
<1>9. [index |-> i, generation |-> g] \notin answered
  <2> SUFFICES ASSUME NEW t \in answered, t.index = i, t.generation = g PROVE FALSE
    OBVIOUS
  <2>1. i < count /\ g <= slots[i].generation
    BY <1>2 DEF Fresh
  <2>2. i \in Index /\ slots[i].generation \in Int
    BY <1>2, <2>1 DEF Index, IInv, TypeOK, Slot
  <2> QED BY <1>4, <1>6, <2>1, <2>2
<1> QED BY <1>1, <1>3, <1>4, <1>6, <1>7, <1>8, <1>9

LEMMA StaysFresh == MaxRetains < Wrap /\ IInv /\ Fresh /\ [Next]_vars => Fresh'
<1> SUFFICES ASSUME MaxRetains < Wrap, IInv, Fresh, [Next]_vars PROVE Fresh'
  OBVIOUS
<1>1. CASE UNCHANGED vars
  BY <1>1 DEF vars, Fresh, Index
<1>2. ASSUME NEW v \in Value, Retain(v) PROVE Fresh'
  <2>1. PICK i \in 0 .. count, g \in 1 .. Wrap - 1, s \in Slot :
           /\ s.value = v /\ s.inUse /\ s.generation = g
           /\ i \in Index => ~slots[i].inUse /\ g = slots[i].generation + 1
           /\ Index' = Index \cup {i}
           /\ count' \in Nat /\ count <= count' /\ i < count'
           /\ slots' = [j \in Index' |-> IF j = i THEN s ELSE slots[j]]
           /\ answered' = answered \cup {[index |-> i, generation |-> g]}
           /\ [index |-> i, generation |-> g] \in Token \ (answered \cup {None})
           /\ reply' = Ledger!Found("retain", [index |-> i, generation |-> g], v)
    BY <1>2, RetainIsFresh
  <2>2. \A j \in Index' : slots'[j] = IF j = i THEN s ELSE slots[j]
    BY <2>1
  <2>3. \A j \in Index' : slots'[j].generation >= 1
    BY <2>1, <2>2 DEF Fresh
  <2>4. open /\ count \in Nat /\ answered \subseteq Token
    BY <1>2 DEF Retain, IInv, TypeOK
  <2>5. ASSUME NEW t \in answered'
        PROVE  t.generation >= 1 /\ t.index < count' /\ t.generation <= slots'[t.index].generation
    <3>1. CASE t = [index |-> i, generation |-> g]
      BY <2>1, <2>2, <3>1
    <3>2. CASE t \in answered
      <4>1. t.generation >= 1 /\ t.index < count /\ t.generation <= slots[t.index].generation
            /\ t.index \in Nat /\ t.generation \in Int
        BY <2>4, <3>2 DEF Fresh, Token
      <4>2. t.index \in Index
        BY <2>4, <4>1 DEF Index
      <4>3. slots[t.index].generation \in Int
        BY <4>2 DEF IInv, TypeOK, Slot
      <4>4. CASE t.index = i
        <5>1. slots'[t.index].generation = slots[i].generation + 1
          BY <2>1, <2>2, <4>2, <4>4
        <5> QED BY <2>1, <2>4, <4>1, <4>3, <4>4, <5>1
      <4>5. CASE t.index # i
        BY <2>1, <2>2, <2>4, <4>1, <4>2, <4>5
      <4> QED BY <4>4, <4>5
    <3> QED BY <2>1, <3>1, <3>2
  <2> QED BY <2>3, <2>5 DEF Fresh
<1>3. ASSUME NEW t \in Token, RetainedValue(t) PROVE Fresh'
  BY <1>3 DEF RetainedValue, Fresh, Index
<1>4. ASSUME NEW t \in Token, Release(t) PROVE Fresh'
  <2>1. count' = count /\ Index' = Index /\ open' = open /\ answered' = answered
    BY <1>4 DEF Release, Index
  <2>2. slots \in [Index -> Slot] /\ count \in Nat /\ answered \subseteq Token
    BY DEF IInv, TypeOK
  <2>3. \A j \in Index : slots'[j].generation = slots[j].generation
    <3>1. CASE Names(t)
      <4>1. slots' = [slots EXCEPT ![t.index] = Unlinked(slots[t.index])]
        BY <1>4, <3>1 DEF Release
      <4>2. \A r \in Slot : Unlinked(r).generation = r.generation
        BY DEF Unlinked, Slot
      <4> QED BY <2>2, <4>1, <4>2
    <3>2. CASE ~Names(t)
      BY <1>4, <3>2 DEF Release
    <3> QED BY <3>1, <3>2
  <2>4. \A u \in answered : u.index < count => u.index \in Index
    BY <2>2 DEF Index, Token
  <2> QED BY <2>1, <2>3, <2>4 DEF Fresh
<1>5. CASE Free
  BY <1>5 DEF Free, Fresh, Index
<1> QED BY <1>1, <1>2, <1>3, <1>4, <1>5 DEF Next

-----------------------------------------------------------------------------
(* Refinement                                                              *)

\* A token in force was answered, and none is in force once the machine is
\* freed.
LEMMA HeldWereAnswered ==
  ASSUME IInv
  PROVE  /\ \A t \in Token : Names(t) => t \in answered
         /\ ~open => \A t \in Token : ~Names(t)
         /\ DOMAIN Held \cup Spent = answered
<1>1. ASSUME NEW t \in Token, Names(t) PROVE t \in answered
  <2>1. t.index \in Index /\ slots[t.index].inUse /\ slots[t.index].generation = t.generation
    BY <1>1 DEF Names, Token, Index, IInv, TypeOK
  <2>2. t = [index |-> t.index, generation |-> t.generation]
    BY DEF Token
  <2> QED BY <2>1, <2>2 DEF IInv, Counted
<1>2. ~open => \A t \in Token : ~Names(t)
  BY DEF IInv, Counted, Names, Token
<1>3. DOMAIN Held = {t \in Token : Names(t)}
  BY DEF Held
<1> QED BY <1>1, <1>2, <1>3 DEF Spent, IInv, TypeOK

LEMMA StartsAsLedger == Init => Ledger!Init
<1> SUFFICES ASSUME Init PROVE Ledger!Init
  OBVIOUS
<1>1. \A t \in Token : ~Names(t)
  BY DEF Init, Names, Token
<1>2. Held = [t \in {} |-> {}]
  BY <1>1 DEF Held
<1>3. Spent = {}
  BY DEF Spent, Init
<1> QED BY <1>2, <1>3 DEF Init, Ledger!Init

LEMMA StepsAsLedger ==
  MaxRetains < Wrap /\ IInv /\ Fresh /\ [Next]_vars => [Ledger!Next]_(Ledger!vars)
<1> SUFFICES ASSUME MaxRetains < Wrap, IInv, Fresh, [Next]_vars
             PROVE  [Ledger!Next]_(Ledger!vars)
  OBVIOUS
<1>1. CASE UNCHANGED vars
  BY <1>1 DEF vars, Ledger!vars, Held, Spent, Names
<1>2. ASSUME NEW v \in Value, Retain(v) PROVE Ledger!Next
  <2>1. PICK i \in 0 .. count, g \in 1 .. Wrap - 1, s \in Slot :
           /\ s.value = v /\ s.inUse /\ s.generation = g
           /\ i \in Index => ~slots[i].inUse /\ g = slots[i].generation + 1
           /\ Index' = Index \cup {i}
           /\ count' \in Nat /\ count <= count' /\ i < count'
           /\ slots' = [j \in Index' |-> IF j = i THEN s ELSE slots[j]]
           /\ answered' = answered \cup {[index |-> i, generation |-> g]}
           /\ [index |-> i, generation |-> g] \in Token \ (answered \cup {None})
           /\ reply' = Ledger!Found("retain", [index |-> i, generation |-> g], v)
    BY <1>2, RetainIsFresh
  <2> DEFINE t == [index |-> i, generation |-> g]
  <2>2. /\ open /\ open' = open /\ count \in Nat /\ answered \subseteq Token
    BY <1>2 DEF Retain, IInv, TypeOK
  <2>3. \A j \in Index' : slots'[j] = IF j = i THEN s ELSE slots[j]
    BY <2>1
  <2>4. \A j \in Nat : (j < count <=> j \in Index) /\ (j < count' <=> j \in Index')
    <3> DEFINE m == count
    <3> DEFINE n == count'
    <3>1. m \in Nat /\ n \in Nat
      BY <2>1, <2>2
    <3>2. Index = 0 .. m - 1 /\ Index' = 0 .. n - 1
      BY DEF Index
    <3> HIDE DEF m, n
    <3>3. \A j \in Nat : j < m <=> j \in Index
      BY <3>1, <3>2
    <3>4. \A j \in Nat : j < n <=> j \in Index'
      BY <3>1, <3>2
    <3> QED BY <3>3, <3>4 DEF m, n
  <2>5. t \in Token /\ t # None /\ t.index = i /\ t.generation = g /\ i \in Nat
    BY <2>1, <2>2
  <2>6. Names(t)'
    BY <2>1, <2>3, <2>4, <2>5 DEF Names
  <2>7. ASSUME NEW u \in Token, u # t PROVE Names(u)' <=> Names(u)
    <3>1. u.index \in Nat /\ (u.index = i => u.generation # g)
      BY <2>7 DEF Token
    <3>2. CASE u.index = i
      <4>1. ~Names(u)'
        BY <2>1, <2>3, <3>1, <3>2 DEF Names
      <4>2. ~Names(u)
        BY <2>1, <2>4, <3>1, <3>2 DEF Names
      <4> QED BY <4>1, <4>2
    <3>3. CASE u.index # i
      <4>1. u.index \in Index' <=> u.index \in Index
        BY <2>1, <3>3
      <4> QED BY <2>3, <2>4, <3>1, <3>3, <4>1 DEF Names
    <3> QED BY <3>2, <3>3
  <2>8. DOMAIN Held = {u \in Token : Names(u)} /\ DOMAIN Held' = {u \in Token : Names(u)'}
    BY DEF Held
  <2>9. DOMAIN Held' = DOMAIN Held \cup {t} /\ t \notin DOMAIN Held
    BY <2>1, <2>5, <2>6, <2>7, <2>8, HeldWereAnswered
  <2>10. \A u \in DOMAIN Held' : Held'[u] = IF u = t THEN v ELSE Held[u]
    <3>1. Held'[t] = v
      BY <2>1, <2>3, <2>5, <2>6 DEF Held
    <3>2. ASSUME NEW u \in DOMAIN Held PROVE Held'[u] = Held[u]
      <4>1. u \in Token /\ Names(u) /\ Names(u)' /\ u # t
        BY <2>7, <2>8, <2>9, <3>2
      <4>2. u.index \in Index /\ u.index # i
        BY <2>1, <2>4, <4>1 DEF Names, Token
      <4>3. slots'[u.index] = slots[u.index]
        BY <2>1, <2>3, <4>2
      <4> QED BY <4>1, <4>3 DEF Held
    <3> QED BY <2>9, <3>1, <3>2
  <2>11. Held' = [u \in DOMAIN Held \cup {t} |-> IF u = t THEN v ELSE Held[u]]
    <3>1. Held' = [u \in DOMAIN Held' |-> Held'[u]]
      BY DEF Held
    <3> HIDE DEF t
    <3> QED BY <2>9, <2>10, <3>1
  <2>12. Spent' = Spent
    BY <2>1, <2>2, <2>6, <2>7 DEF Spent
  <2>13. t \in Token \ (DOMAIN Held \cup Spent \cup {None})
    BY <2>1, HeldWereAnswered
  <2>14. reply' = Ledger!Found("retain", t, v)
    BY <2>1
  <2> HIDE DEF t
  <2>15. Ledger!Retain(v)
    BY <2>2, <2>11, <2>12, <2>13, <2>14 DEF Ledger!Retain
  <2> QED BY <2>15 DEF Ledger!Next
<1>3. ASSUME NEW t \in Token, RetainedValue(t) PROVE Ledger!Next
  <2>1. Held' = Held /\ Spent' = Spent
    BY <1>3 DEF RetainedValue, Held, Spent, Names
  <2>2. t \in DOMAIN Held <=> Names(t)
    BY DEF Held
  <2>3. Names(t) => Held[t] = slots[t.index].value
    BY DEF Held
  <2>4. Ledger!Retained(t)
    BY <1>3, <2>1, <2>2, <2>3 DEF RetainedValue, Ledger!Retained
  <2> QED BY <2>4 DEF Ledger!Next
<1>4. ASSUME NEW t \in Token, Release(t) PROVE Ledger!Next
  <2>1. t \in DOMAIN Held <=> Names(t)
    BY DEF Held
  <2>2. CASE ~Names(t)
    <3>1. Held' = Held /\ Spent' = Spent
      BY <1>4, <2>2 DEF Release, Held, Spent, Names
    <3>2. Ledger!Release(t)
      BY <1>4, <2>1, <2>2, <3>1 DEF Release, Ledger!Release
    <3> QED BY <3>2 DEF Ledger!Next
  <2>3. CASE Names(t)
    <3> DEFINE i == t.index
    <3>1. /\ slots' = [slots EXCEPT ![i] = Unlinked(slots[i])] /\ count' = count
          /\ answered' = answered /\ open' = open /\ open
          /\ reply' = Ledger!Found("release", t, slots[i].value)
      BY <1>4, <2>3 DEF Release
    <3>2. i \in Index /\ slots \in [Index -> Slot] /\ count \in Nat /\ i \in Nat
      BY <2>3 DEF Names, Token, Index, IInv, TypeOK
    <3>3. ~slots'[i].inUse /\ \A j \in Index : j # i => slots'[j] = slots[j]
      BY <3>1, <3>2 DEF Unlinked, Slot
    <3>4. ASSUME NEW u \in Token PROVE Names(u)' <=> Names(u) /\ u # t
      <4>0. u.index < count => u.index \in Index
        BY <3>2 DEF Token, Index
      <4>1. CASE u.index = i
        <5>1. ~Names(u)'
          BY <3>3, <4>1 DEF Names
        <5>2. Names(u) => u = t
          <6>1. Names(u) => u.generation = t.generation
            BY <2>3, <4>1 DEF Names
          <6>2. /\ u = [index |-> u.index, generation |-> u.generation]
                /\ t = [index |-> t.index, generation |-> t.generation]
            BY DEF Token
          <6> QED BY <4>1, <6>1, <6>2
        <5> QED BY <5>1, <5>2
      <4>2. CASE u.index # i
        BY <3>1, <3>3, <4>0, <4>2 DEF Names
      <4> QED BY <4>1, <4>2
    <3>5. DOMAIN Held = {u \in Token : Names(u)} /\ DOMAIN Held' = {u \in Token : Names(u)'}
      BY DEF Held
    <3>6. DOMAIN Held' = DOMAIN Held \ {t}
      BY <3>4, <3>5
    <3>7. ASSUME NEW u \in DOMAIN Held' PROVE Held'[u] = Held[u]
      <4>1. u \in Token /\ Names(u) /\ Names(u)' /\ u # t
        BY <3>4, <3>5, <3>7
      <4>2. u.index \in Index /\ u.index # i
        BY <2>3, <3>2, <4>1 DEF Names, Token, Index
      <4> QED BY <3>3, <4>1, <4>2 DEF Held
    <3>8. Held' = [u \in DOMAIN Held \ {t} |-> Held[u]]
      <4>1. Held' = [u \in DOMAIN Held' |-> Held'[u]]
        BY DEF Held
      <4> QED BY <3>6, <3>7, <4>1
    <3>9. Spent' = Spent \cup {t}
      BY <2>3, <3>1, <3>4, HeldWereAnswered DEF Spent, IInv, TypeOK
    <3>10. reply' = Ledger!Found("release", t, Held[t])
      BY <2>3, <3>1 DEF Held
    <3>11. Ledger!Release(t)
      BY <2>1, <2>3, <3>1, <3>8, <3>9, <3>10 DEF Ledger!Release
    <3> QED BY <3>11 DEF Ledger!Next
  <2> QED BY <2>2, <2>3
<1>5. CASE Free
  <2>1. \A t \in Token : ~Names(t)'
    BY <1>5 DEF Free, Names, Token
  <2>2. Held' = [t \in {} |-> {}]
    BY <2>1 DEF Held
  <2>3. Spent' = Spent \cup DOMAIN Held
    <3>1. answered' = answered /\ answered \subseteq Token
      BY <1>5 DEF Free, IInv, TypeOK
    <3>2. Spent' = answered
      BY <2>1, <3>1 DEF Spent
    <3> QED BY <3>2, HeldWereAnswered
  <2>4. Ledger!Free
    BY <1>5, <2>2, <2>3 DEF Free, Ledger!Free
  <2> QED BY <2>4 DEF Ledger!Next
<1> QED BY <1>1, <1>2, <1>3, <1>4, <1>5 DEF Next

\* What extend.h promises of the three calls, for any number of slots: a
\* token stands for what it was answered for until it is released, is never
\* answered twice, and stands for nothing afterwards, however often its slot
\* has been reused.  Fewer retains than a generation can count is what the
\* promise depends on.
THEOREM Implements == MaxRetains < Wrap => (Spec => KeepsPromise)
<1> SUFFICES ASSUME MaxRetains < Wrap PROVE Spec => KeepsPromise
  OBVIOUS
<1>1. Init => IInv /\ Fresh /\ Ledger!Init
  BY Initially, StartsAsLedger
<1>2. IInv /\ Fresh /\ [Next]_vars => (IInv /\ Fresh)' /\ [Ledger!Next]_(Ledger!vars)
  BY Inductive, StaysFresh, StepsAsLedger
<1> QED BY <1>1, <1>2, PTL DEF Spec, KeepsPromise, Ledger!Spec
\* Retain never answers SOL_RETAINED_NONE as long as no generation wraps: the
\* run that shows the contrary needs a wrapped one.
THEOREM NoneIsNeverAnswered == MaxRetains < Wrap => (Spec => []NeverAnswersNone)
<1> SUFFICES ASSUME MaxRetains < Wrap PROVE Spec => []NeverAnswersNone
  OBVIOUS
<1>1. Init => IInv /\ Fresh /\ NeverAnswersNone
  <2>1. Init => NeverAnswersNone
    BY DEF Init, NeverAnswersNone, Ledger!NoReply
  <2> QED BY <2>1, Initially
<1>2. ASSUME IInv, Fresh, NeverAnswersNone, [Next]_vars PROVE NeverAnswersNone'
  <2>1. CASE UNCHANGED vars
    BY <1>2, <2>1 DEF vars, NeverAnswersNone
  <2>2. ASSUME NEW v \in Value, Retain(v) PROVE NeverAnswersNone'
    <3>1. PICK i \in 0 .. count, g \in 1 .. Wrap - 1, s \in Slot :
             /\ s.value = v /\ s.inUse /\ s.generation = g
             /\ i \in Index => ~slots[i].inUse /\ g = slots[i].generation + 1
             /\ Index' = Index \cup {i}
             /\ count' \in Nat /\ count <= count' /\ i < count'
             /\ slots' = [j \in Index' |-> IF j = i THEN s ELSE slots[j]]
             /\ answered' = answered \cup {[index |-> i, generation |-> g]}
             /\ [index |-> i, generation |-> g] \in Token \ (answered \cup {None})
             /\ reply' = Ledger!Found("retain", [index |-> i, generation |-> g], v)
      BY <1>2, <2>2, RetainIsFresh
    <3>2. reply'.token = [index |-> i, generation |-> g]
      BY <3>1 DEF Ledger!Found
    <3> QED BY <3>1, <3>2 DEF NeverAnswersNone
  <2>3. ASSUME NEW t \in Token, RetainedValue(t) \/ Release(t) PROVE NeverAnswersNone'
    <3>1. reply'.call # "retain"
      BY <2>3 DEF RetainedValue, Release, Ledger!Found, Ledger!Missing
    <3> QED BY <3>1 DEF NeverAnswersNone
  <2>4. CASE Free
    BY <1>2, <2>4 DEF Free, NeverAnswersNone
  <2> QED BY <1>2, <2>1, <2>2, <2>3, <2>4 DEF Next
<1>3. IInv /\ Fresh /\ NeverAnswersNone /\ [Next]_vars => (IInv /\ Fresh /\ NeverAnswersNone)'
  BY <1>2, Inductive, StaysFresh
<1> QED BY <1>1, <1>3, PTL DEF Spec

-----------------------------------------------------------------------------
(* The free list                                                           *)

\* p follows the links from the first released slot to the end of the list in
\* n hops, and meets every released slot on the way, each once.
Lists(p, n) ==
  /\ p[0] = free /\ p[n] = -1
  /\ \A m \in 0 .. n - 1 : p[m] \in Unused /\ p[m + 1] = slots[p[m]].nextFree
  /\ \A l, m \in 0 .. n - 1 : p[l] = p[m] => l = m
  /\ \A i \in Unused : \E m \in 0 .. n - 1 : p[m] = i

\* There is such a walk.  Threaded alone leaves room for a ring of released
\* slots that the first one does not lead to.
Listed == \E n \in Nat : \E p : Lists(p, n)

LEMMA ListedAtFirst == Init => Listed
<1> SUFFICES ASSUME Init PROVE Listed
  OBVIOUS
<1> DEFINE p == [m \in {0} |-> -1]
<1>1. Unused = {}
  BY DEF Init, Unused, Index
<1>2. p[0] = -1 /\ free = -1
  BY DEF Init
<1> HIDE DEF p
<1>3. Lists(p, 0)
  BY <1>1, <1>2 DEF Lists
<1> QED BY <1>3 DEF Listed

\* A retain takes the first slot off the list, or adds one past the end when
\* nothing is on it.
LEMMA RetainListed ==
  ASSUME IInv, Listed, NEW v \in Value, Retain(v)
  PROVE  Listed'
<1>1. PICK i \in 0 .. count, g \in 0 .. Wrap - 1, s \in Slot :
         /\ s.value = v /\ s.inUse /\ s.generation = g
         /\ g <= retains + 1
         /\ i \in Index => /\ ~slots[i].inUse
                           /\ i = free
                           /\ free' = slots[i].nextFree
                           /\ count' = count
                           /\ g = (slots[i].generation + 1) % Wrap
         /\ i \notin Index => /\ i = count
                              /\ count' = count + 1
                              /\ free = -1
                              /\ free' = -1
                              /\ g = 1 % Wrap
         /\ slots' = [j \in Index \cup {i} |-> IF j = i THEN s ELSE slots[j]]
         /\ answered' = answered \cup {[index |-> i, generation |-> g]}
         /\ reply' = Ledger!Found("retain", [index |-> i, generation |-> g], v)
  BY RetainUses
<1>2. count \in Nat /\ i \in Nat /\ Index' = Index \cup {i}
  BY <1>1 DEF Index, IInv, TypeOK
<1>3. \A j \in Index' : slots'[j] = IF j = i THEN s ELSE slots[j]
  BY <1>1, <1>2
<1>4. Unused' = Unused \ {i}
  BY <1>1, <1>2, <1>3 DEF Unused
<1>5. \A j \in Unused' : slots'[j].nextFree = slots[j].nextFree
  BY <1>2, <1>3, <1>4 DEF Unused
<1>6. PICK n \in Nat : \E p : Lists(p, n)
  BY DEF Listed
<1>7. PICK p : Lists(p, n)
  BY <1>6
<1>8. /\ p[0] = free /\ p[n] = -1
      /\ \A m \in 0 .. n - 1 : p[m] \in Unused /\ p[m + 1] = slots[p[m]].nextFree
      /\ \A l, m \in 0 .. n - 1 : p[l] = p[m] => l = m
      /\ \A j \in Unused : \E m \in 0 .. n - 1 : p[m] = j
  BY <1>7 DEF Lists
<1>9. CASE i \in Index
  <2>1. free = i /\ free # -1 /\ free' = slots[i].nextFree
    BY <1>1, <1>2, <1>9
  <2>2. n - 1 \in Nat /\ 0 \in 0 .. n - 1
    BY <1>8, <2>1
  <2> DEFINE q == [m \in 0 .. n - 1 |-> p[m + 1]]
  <2>3. \A m \in 0 .. n - 1 : q[m] = p[m + 1]
    OBVIOUS
  <2> HIDE DEF q
  <2>4. q[0] = free'
    BY <1>8, <2>1, <2>2, <2>3
  <2>5. q[n - 1] = -1
    BY <1>8, <2>2, <2>3
  <2>6. \A m \in 0 .. n - 2 : m \in 0 .. n - 1 /\ m + 1 \in 0 .. n - 1 /\ m + 1 # 0
    BY <2>2
  <2>7. ASSUME NEW m \in 0 .. n - 2
        PROVE  q[m] \in Unused' /\ q[m + 1] = slots'[q[m]].nextFree
    <3>1. q[m] = p[m + 1] /\ q[m + 1] = p[m + 1 + 1]
      BY <2>3, <2>6
    <3>2. p[m + 1] \in Unused /\ p[m + 1 + 1] = slots[p[m + 1]].nextFree
      BY <1>8, <2>6
    <3>3. p[m + 1] # p[0]
      BY <1>8, <2>2, <2>6
    <3>4. p[m + 1] \in Unused'
      BY <1>4, <1>8, <2>1, <3>2, <3>3
    <3> QED BY <1>5, <3>1, <3>2, <3>4
  <2>8. ASSUME NEW l \in 0 .. n - 2, NEW m \in 0 .. n - 2, q[l] = q[m]
        PROVE  l = m
    <3>1. p[l + 1] = p[m + 1]
      BY <2>3, <2>6, <2>8
    <3>2. l + 1 = m + 1
      BY <1>8, <2>6, <3>1
    <3> QED BY <3>2
  <2>9. ASSUME NEW j \in Unused' PROVE \E m \in 0 .. n - 2 : q[m] = j
    <3>1. PICK m \in 0 .. n - 1 : p[m] = j
      BY <1>4, <1>8
    <3>2. m # 0
      BY <1>4, <1>8, <2>1, <3>1
    <3>3. m - 1 \in 0 .. n - 2 /\ m - 1 \in 0 .. n - 1 /\ m - 1 + 1 = m
      BY <2>2, <3>2
    <3> QED BY <2>3, <3>1, <3>3
  <2>10. n - 1 - 1 = n - 2
    OBVIOUS
  <2>11. Lists(q, n - 1)'
    BY <2>4, <2>5, <2>7, <2>8, <2>9, <2>10 DEF Lists
  <2> QED BY <2>2, <2>11 DEF Listed
<1>10. CASE i \notin Index
  <2>1. free = -1 /\ free' = -1
    BY <1>1, <1>10
  <2>2. n = 0
    <3> SUFFICES ASSUME n # 0 PROVE FALSE
      OBVIOUS
    <3>1. 0 \in 0 .. n - 1
      OBVIOUS
    <3>2. -1 \in Unused
      BY <1>8, <2>1, <3>1
    <3> QED BY <3>2 DEF Unused, Index
  <2>3. Unused' = {}
    BY <1>4, <1>8, <2>2
  <2>4. Lists(p, 0)'
    BY <1>8, <2>1, <2>2, <2>3 DEF Lists
  <2> QED BY <2>4 DEF Listed
<1> QED BY <1>9, <1>10

\* A release puts its slot in front.
LEMMA ReleaseListed ==
  ASSUME IInv, Listed, NEW t \in Token, Release(t), Names(t)
  PROVE  Listed'
<1> DEFINE i == t.index
<1>1. i \in Index /\ slots[i].inUse /\ slots \in [Index -> Slot]
  BY DEF Names, Token, Index, IInv, TypeOK
<1>2. /\ slots' = [slots EXCEPT ![i] = Unlinked(slots[i])]
      /\ free' = i /\ Index' = Index
  BY DEF Release, Index
<1>3. ~Unlinked(slots[i]).inUse /\ Unlinked(slots[i]).nextFree = free
  BY <1>1 DEF Unlinked, Slot
<1>4. /\ \A j \in Index : j # i => slots'[j] = slots[j]
      /\ ~slots'[i].inUse /\ slots'[i].nextFree = free
  BY <1>1, <1>2, <1>3
<1>5. Unused' = Unused \cup {i} /\ i \notin Unused
  BY <1>1, <1>2, <1>4 DEF Unused
<1>6. \A j \in Unused : slots'[j].nextFree = slots[j].nextFree
  BY <1>4, <1>5 DEF Unused
<1>7. PICK n \in Nat : \E p : Lists(p, n)
  BY DEF Listed
<1>8. PICK p : Lists(p, n)
  BY <1>7
<1>9. /\ p[0] = free /\ p[n] = -1
      /\ \A m \in 0 .. n - 1 : p[m] \in Unused /\ p[m + 1] = slots[p[m]].nextFree
      /\ \A l, m \in 0 .. n - 1 : p[l] = p[m] => l = m
      /\ \A j \in Unused : \E m \in 0 .. n - 1 : p[m] = j
  BY <1>8 DEF Lists
<1> DEFINE q == [m \in 0 .. n + 1 |-> IF m = 0 THEN i ELSE p[m - 1]]
<1>10. q[0] = i /\ \A m \in 0 .. n : q[m + 1] = p[m]
  OBVIOUS
<1> HIDE DEF q, i
<1>11. q[n + 1] = -1 /\ n + 1 \in Nat /\ n + 1 - 1 = n
  BY <1>9, <1>10
<1>12. ASSUME NEW m \in 0 .. n
       PROVE  q[m] \in Unused' /\ q[m + 1] = slots'[q[m]].nextFree
  <2>1. CASE m = 0
    BY <1>4, <1>5, <1>9, <1>10, <2>1
  <2>2. CASE m # 0
    <3>1. m - 1 \in 0 .. n - 1 /\ m - 1 \in 0 .. n /\ m - 1 + 1 = m
      BY <2>2
    <3>2. q[m] = p[m - 1] /\ q[m + 1] = p[m]
      BY <1>10, <3>1
    <3>3. p[m - 1] \in Unused /\ p[m] = slots[p[m - 1]].nextFree
      BY <1>9, <3>1
    <3> QED BY <1>5, <1>6, <3>2, <3>3
  <2> QED BY <2>1, <2>2
<1>13. \A m \in 0 .. n : m # 0 => m - 1 \in 0 .. n - 1 /\ q[m] = p[m - 1] /\ q[m] # i
  <2> SUFFICES ASSUME NEW m \in 0 .. n, m # 0
               PROVE  m - 1 \in 0 .. n - 1 /\ q[m] = p[m - 1] /\ q[m] # i
    OBVIOUS
  <2>1. m - 1 \in 0 .. n - 1 /\ m - 1 \in 0 .. n /\ m - 1 + 1 = m
    OBVIOUS
  <2>2. q[m] = p[m - 1] /\ p[m - 1] \in Unused
    BY <1>9, <1>10, <2>1
  <2> QED BY <1>5, <2>1, <2>2
<1>14. ASSUME NEW l \in 0 .. n, NEW m \in 0 .. n, q[l] = q[m]
       PROVE  l = m
  <2>1. CASE l = 0 \/ m = 0
    BY <1>10, <1>13, <1>14, <2>1
  <2>2. CASE l # 0 /\ m # 0
    <3>1. l - 1 = m - 1
      BY <1>9, <1>13, <1>14, <2>2
    <3> QED BY <3>1
  <2> QED BY <2>1, <2>2
<1>15. ASSUME NEW j \in Unused' PROVE \E m \in 0 .. n : q[m] = j
  <2>1. CASE j = i
    BY <1>10, <2>1
  <2>2. CASE j # i
    <3>1. PICK m \in 0 .. n - 1 : p[m] = j
      BY <1>5, <1>9, <2>2
    <3>2. m + 1 \in 0 .. n /\ q[m + 1] = j
      BY <1>10, <3>1
    <3> QED BY <3>2
  <2> QED BY <2>1, <2>2
<1>16. q[0] = free'
  BY <1>2, <1>10 DEF i
<1>17. Lists(q, n + 1)'
  BY <1>11, <1>12, <1>14, <1>15, <1>16 DEF Lists
<1> QED BY <1>11, <1>17 DEF Listed

LEMMA StaysListed == IInv /\ Listed /\ [Next]_vars => Listed'
<1> SUFFICES ASSUME IInv, Listed, [Next]_vars PROVE Listed'
  OBVIOUS
<1>1. ASSUME slots' = slots, free' = free, count' = count PROVE Listed'
  BY <1>1 DEF Listed, Lists, Unused, Index
<1>2. CASE UNCHANGED vars
  BY <1>1, <1>2 DEF vars
<1>3. ASSUME NEW v \in Value, Retain(v) PROVE Listed'
  BY <1>3, RetainListed
<1>4. ASSUME NEW t \in Token, RetainedValue(t) PROVE Listed'
  BY <1>1, <1>4 DEF RetainedValue
<1>5. ASSUME NEW t \in Token, Release(t) PROVE Listed'
  <2>1. CASE Names(t)
    BY <1>5, <2>1, ReleaseListed
  <2>2. CASE ~Names(t)
    BY <1>1, <1>5, <2>2 DEF Release
  <2> QED BY <2>1, <2>2
<1>6. CASE Free
  <2> DEFINE p == [m \in {0} |-> -1]
  <2>1. p[0] = -1
    OBVIOUS
  <2> HIDE DEF p
  <2>2. free' = -1 /\ Unused' = {}
    BY <1>6 DEF Free, Unused, Index
  <2>3. Lists(p, 0)'
    BY <2>1, <2>2 DEF Lists
  <2> QED BY <2>3 DEF Listed
<1> QED BY <1>2, <1>3, <1>4, <1>5, <1>6 DEF Next

\* FreeAt is what its definition says, link by link.
LEMMA FreeAtIs ==
  ASSUME IInv
  PROVE  /\ FreeAt[0] = free
         /\ \A n \in Nat : FreeAt[n + 1] = IF FreeAt[n] = -1 THEN -1
                                           ELSE slots[FreeAt[n]].nextFree
<1> DEFINE S == Unused \cup {-1}
           next(i) == IF i = -1 THEN -1 ELSE slots[i].nextFree
           move == [i \in S |-> next(i)]
<1>1. free \in S
  BY DEF IInv, TypeOK, Threaded, Unused
<1>2. move \in [S -> S]
  <2>1. ASSUME NEW i \in S PROVE next(i) \in S
    <3>1. CASE i = -1
      BY <3>1
    <3>2. CASE i # -1
      <4>1. i \in Index /\ ~slots[i].inUse
        BY <3>2 DEF Unused
      <4>2. slots[i].nextFree \in Index \cup {-1}
        BY <4>1 DEF IInv, Threaded
      <4>3. slots[i].nextFree # -1 => ~slots[slots[i].nextFree].inUse
        BY <4>1 DEF IInv, Threaded
      <4> QED BY <3>2, <4>2, <4>3 DEF Unused
    <3> QED BY <3>1, <3>2
  <2> HIDE DEF S, next
  <2> QED BY <2>1
<1>3. PICK g \in [Nat -> S] : g[0] = free /\ \A n \in Nat : g[n + 1] = move[g[n]]
  <2> HIDE DEF S, move
  <2>1. \E g \in [Nat -> S] : Iterates(g, free, move)
    BY <1>1, <1>2, Iterated
  <2> QED BY <2>1 DEF Iterates
<1> HIDE DEF S, next
<1>4. \A n \in Nat : g[n + 1] = next(g[n])
  BY <1>3
<1>5. g = [n \in Nat |-> IF n = 0 THEN free ELSE next(g[n - 1])]
  <2>1. ASSUME NEW n \in Nat PROVE g[n] = IF n = 0 THEN free ELSE next(g[n - 1])
    <3>1. CASE n = 0
      BY <1>3, <3>1
    <3>2. CASE n # 0
      <4>1. n - 1 \in Nat /\ n - 1 + 1 = n
        BY <3>2
      <4> QED BY <1>4, <3>2, <4>1
    <3> QED BY <3>1, <3>2
  <2> QED BY <1>3, <2>1
<1>6. FreeAt = [n \in Nat |-> IF n = 0 THEN free ELSE next(FreeAt[n - 1])]
  BY <1>5 DEF FreeAt, next
<1>7. FreeAt[0] = free
  BY <1>6
<1>8. \A n \in Nat : FreeAt[n + 1] = next(FreeAt[n])
  BY <1>6
<1> QED BY <1>7, <1>8 DEF next

\* What Lists says is what the property counts.
LEMMA ListsExactly == IInv /\ Listed => FreeListExact
<1> SUFFICES ASSUME IInv, Listed PROVE FreeListExact
  OBVIOUS
<1>1. PICK n \in Nat : \E p : Lists(p, n)
  BY DEF Listed
<1>2. PICK p : Lists(p, n)
  BY <1>1
<1>3. /\ p[0] = free /\ p[n] = -1
      /\ \A m \in 0 .. n - 1 : p[m] \in Unused /\ p[m + 1] = slots[p[m]].nextFree
      /\ \A l, m \in 0 .. n - 1 : p[l] = p[m] => l = m
      /\ \A i \in Unused : \E m \in 0 .. n - 1 : p[m] = i
  BY <1>2 DEF Lists
<1>4. \A m \in 0 .. n : FreeAt[m] = p[m]
  <2> DEFINE Known == {m \in Nat : m <= n => FreeAt[m] = p[m]}
  <2>1. 0 \in Known
    BY <1>3, FreeAtIs
  <2>2. ASSUME NEW m \in Nat, m \in Known PROVE m + 1 \in Known
    <3> SUFFICES ASSUME m + 1 <= n PROVE FreeAt[m + 1] = p[m + 1]
      OBVIOUS
    <3>1. m \in 0 .. n - 1 /\ FreeAt[m] = p[m]
      BY <2>2
    <3>2. p[m] \in Unused /\ p[m + 1] = slots[p[m]].nextFree
      BY <1>3, <3>1
    <3>3. p[m] # -1
      BY <3>2 DEF Unused, Index
    <3> QED BY <3>1, <3>2, <3>3, FreeAtIs
  <2>3. Known \in SUBSET Nat
    OBVIOUS
  <2> HIDE DEF Known
  <2>4. Known = Nat
    BY <2>1, <2>2, <2>3, AllNumbers
  <2> QED BY <2>4 DEF Known
<1>5. Cardinality(Unused) = n
  <2> DEFINE b == [m \in 1 .. n |-> p[m - 1]]
  <2>1. \A m \in 1 .. n : b[m] = p[m - 1] /\ m - 1 \in 0 .. n - 1
    OBVIOUS
  <2>2. b \in [1 .. n -> Unused]
    BY <1>3, <2>1
  <2>3. \A l, m \in 1 .. n : b[l] = b[m] => l = m
    <3> SUFFICES ASSUME NEW l \in 1 .. n, NEW m \in 1 .. n, b[l] = b[m] PROVE l = m
      OBVIOUS
    <3>1. l - 1 = m - 1
      BY <1>3, <2>1
    <3> QED BY <3>1
  <2>4. \A i \in Unused : \E m \in 1 .. n : b[m] = i
    <3> SUFFICES ASSUME NEW i \in Unused PROVE \E m \in 1 .. n : b[m] = i
      OBVIOUS
    <3>1. PICK m \in 0 .. n - 1 : p[m] = i
      BY <1>3
    <3>2. m + 1 \in 1 .. n /\ m + 1 - 1 = m
      OBVIOUS
    <3>3. b[m + 1] = p[m + 1 - 1]
      BY <2>1, <3>2
    <3>4. b[m + 1] = i
      BY <3>1, <3>2, <3>3
    <3> HIDE DEF b
    <3> QED BY <3>2, <3>4
  <2> HIDE DEF b
  <2>5. b \in Bijection(1 .. n, Unused)
    BY <2>2, <2>3, <2>4 DEF Bijection, Injection, Surjection, IsInjective
  <2>6. IsFiniteSet(1 .. n) /\ Cardinality(1 .. n) = n
    BY FS_Interval
  <2> QED BY <2>5, <2>6, FS_Bijection DEF ExistsBijection
<1>6. {FreeAt[m] : m \in 0 .. n - 1} = Unused
  <2>1. \A m \in 0 .. n - 1 : m \in 0 .. n
    OBVIOUS
  <2>2. \A m \in 0 .. n - 1 : FreeAt[m] \in Unused
    BY <1>3, <1>4, <2>1
  <2>3. \A i \in Unused : \E m \in 0 .. n - 1 : FreeAt[m] = i
    BY <1>3, <1>4, <2>1
  <2> QED BY <2>2, <2>3
<1>7. FreeAt[n] = -1
  BY <1>3, <1>4
<1> QED BY <1>5, <1>6, <1>7 DEF FreeListExact

\* The free list holds every released slot once and nothing else, and ends,
\* for any number of slots and however often the generations wrap: a slot
\* that is released is handed out again, and none that is in use is.
THEOREM FreeListHolds == Spec => []FreeListExact
<1>1. Init => IInv /\ Listed
  BY Initially, ListedAtFirst
<1>2. IInv /\ Listed /\ [Next]_vars => (IInv /\ Listed)'
  BY Inductive, StaysListed
<1>3. IInv /\ Listed => FreeListExact
  BY ListsExactly
<1> QED BY <1>1, <1>2, <1>3, PTL DEF Spec

-----------------------------------------------------------------------------
(* Children                                                                *)

\* A descriptor of a file, and of an end of the pipe, as they are opened.
File(value) == [to |-> <<"file", value>>, cloexec |-> TRUE]
End(which) == [to |-> <<"pipe", which>>, cloexec |-> FALSE]

\* What a call has open beside what the program has.
Keeps(req) == req.message = "capture"
OpenOf(req) == {req.streams[s].fd : s \in {s \in C!Stream : req.streams[s].opened}}
EndsOf(req) == C!Range(req.ends)

\* The options of stream s among the first n asked.
Given(req, n, s) == {i \in 1 .. n : req.asked[i][1] = s}

\* What a stream is once it was asked to be value; an opened one has its file.
StreamFor(value, fd) ==
  [fd |-> fd, merge |-> value = "merge", opened |-> C!Opens(value), named |-> TRUE]

FitsTo(req, mine, s, table, value, fd) ==
  /\ req.streams[s] = StreamFor(value, fd)
  /\ value \in C!Manners \cup Path
  /\ value = "merge" => s = "stderr"
  /\ ~(Keeps(req) /\ s = "stdout")
  /\ IF C!Opens(value) THEN fd \in DOMAIN table /\ fd \in Nat \ mine /\ table[fd] = File(value)
     ELSE fd = -1

\* The stream is what the one of the first n options that names it says, if one does.
Fits(req, mine, n, s, table) ==
  \/ Given(req, n, s) = {} /\ req.streams[s] = C!Unset
  \/ \E i \in 1 .. n, fd \in Int :
       Given(req, n, s) = {i} /\ FitsTo(req, mine, s, table, req.asked[i][2], fd)

\* The two ends of the pipe, once there are any.
PipedAs(req, mine, table, r, w) ==
  /\ req.ends = <<r, w>> /\ r # w
  /\ r \in DOMAIN table /\ r \notin mine \cup OpenOf(req) /\ table[r] = End("read")
  /\ w \in DOMAIN table /\ w \notin mine \cup OpenOf(req) /\ table[w] = End("write")
Piped(req, mine, table) ==
  req.ends = <<>> \/ (Keeps(req) /\ \E r, w \in Nat : PipedAs(req, mine, table, r, w))

\* What is open of a call whose first n options were served.
HeldBy(req, mine, n, table) ==
  /\ DOMAIN table = mine \cup OpenOf(req) \cup EndsOf(req)
  /\ \A m \in mine : table[m] = C!Own(m)
  /\ Piped(req, mine, table)
  /\ \A s \in C!Stream : Fits(req, mine, n, s, table)

OwnOnly(mine) == [n \in mine |-> C!Own(n)]

Fields == {"message", "asked", "left", "ends", "streams"}
Request(req) ==
  /\ req = [f \in Fields |-> req[f]]
  /\ req.message \in {"run", "capture"}
  /\ req.asked \in Seq(STRING \X STRING) /\ req.left \in Seq(STRING \X STRING)
  /\ req.streams = [s \in C!Stream |-> req.streams[s]]

Served(req) == Len(req.asked) - Len(req.left)

Serving(req, mine, table) ==
  /\ Request(req)
  /\ Served(req) \in Nat /\ \A i \in 1 .. Len(req.left) : req.left[i] = req.asked[Served(req) + i]
  /\ req.left # <<>> => req.ends = <<>>
  /\ HeldBy(req, mine, Served(req), table)

Forked(req, mine, table) ==
  /\ Request(req) /\ (Keeps(req) => req.ends # <<>>)
  /\ HeldBy(req, mine, Len(req.asked), table)

\* What is left once its own ends were closed.
Reading(req, mine, table) ==
  /\ Keeps(req) /\ req.ends[1] \notin mine
  /\ DOMAIN table = mine \cup {req.ends[1]}
  /\ \A m \in mine : table[m] = C!Own(m)
  /\ table[req.ends[1]] = End("read")

-----------------------------------------------------------------------------
(* Descriptors                                                             *)

\* The size of a set is the same there and here.
LEMMA SameCardinality == ASSUME NEW S PROVE C!Cardinality(S) = Cardinality(S)
BY DEF C!Cardinality, Cardinality

LEMMA LowestIs ==
  ASSUME NEW table, IsFiniteSet(DOMAIN table), DOMAIN table \subseteq Nat
  PROVE  C!Lowest(table) \in Nat /\ C!Lowest(table) \notin DOMAIN table
<1> DEFINE D == DOMAIN table
           n == Cardinality(D)
           Unopened == {m \in 0 .. n : m \notin D}
<1>1. n \in Nat
  BY FS_CardinalityType
<1>2. Unopened # {}
  <2>1. SUFFICES ASSUME 0 .. n \subseteq D PROVE FALSE
    OBVIOUS
  <2>2. Cardinality(0 .. n) = n + 1
    BY <1>1, FS_Interval
  <2>3. Cardinality(0 .. n) <= n
    BY <2>1, FS_Subset
  <2> QED BY <1>1, <2>2, <2>3
<1>3. \E m \in Unopened : \A l \in Unopened : m <= l
  <2>1. Unopened \in SUBSET Nat
    BY <1>1
  <2> HIDE DEF Unopened
  <2> QED BY <1>2, <2>1, Least
<1>4. \E m \in 0 .. n : m \notin D /\ \A l \in 0 .. m - 1 : l \in D
  <2>1. PICK m \in Unopened : \A l \in Unopened : m <= l
    BY <1>3
  <2>2. \A l \in 0 .. m - 1 : l \in 0 .. n /\ ~(m <= l)
    BY <1>1
  <2> QED BY <2>1, <2>2
<1> HIDE DEF n
<1> QED BY <1>1, <1>4, SameCardinality DEF C!Lowest, n

LEMMA OpeningIs ==
  ASSUME NEW table, NEW n, NEW to, NEW cloexec
  PROVE  /\ DOMAIN C!Opening(table, n, to, cloexec) = DOMAIN table \cup {n}
         /\ C!Opening(table, n, to, cloexec)[n] = [to |-> to, cloexec |-> cloexec]
         /\ \A m \in DOMAIN table : m # n => C!Opening(table, n, to, cloexec)[m] = table[m]
BY DEF C!Opening

LEMMA ClosingIs ==
  ASSUME NEW table, NEW ns
  PROVE  /\ C!Closing(table, ns) = [m \in DOMAIN table \ ns |-> table[m]]
         /\ DOMAIN C!Closing(table, ns) = DOMAIN table \ ns
         /\ \A m \in DOMAIN table \ ns : C!Closing(table, ns)[m] = table[m]
BY DEF C!Closing, C!Restrict

\* What a call opened is none of the program's own.
LEMMA OpenedAside ==
  ASSUME NEW req, NEW mine, NEW n, NEW table, HeldBy(req, mine, n, table)
  PROVE  \A fd \in OpenOf(req) : fd \in Nat \ mine /\ \E v \in Path \cup {"discard"} : table[fd] = File(v)
<1> SUFFICES ASSUME NEW s \in C!Stream, req.streams[s].opened
             PROVE  /\ req.streams[s].fd \in Nat \ mine
                    /\ \E v \in Path \cup {"discard"} : table[req.streams[s].fd] = File(v)
  BY DEF OpenOf
<1>1. Fits(req, mine, n, s, table)
  BY DEF HeldBy
<1>2. req.streams[s] # C!Unset
  BY DEF C!Unset
<1>3. PICK i \in 1 .. n, fd \in Int : FitsTo(req, mine, s, table, req.asked[i][2], fd)
  BY <1>1, <1>2 DEF Fits
<1> DEFINE v == req.asked[i][2]
<1>4. req.streams[s].opened <=> C!Opens(v)
  BY <1>3 DEF FitsTo, StreamFor
<1>5. req.streams[s].fd = fd
  BY <1>3 DEF FitsTo, StreamFor
<1>6. C!Opens(v) => v \in Path \cup {"discard"}
  BY DEF C!Opens
<1> QED BY <1>3, <1>4, <1>5, <1>6 DEF FitsTo

LEMMA EndsAre ==
  ASSUME NEW req, NEW mine, NEW table, Piped(req, mine, table)
  PROVE  \/ req.ends = <<>> /\ EndsOf(req) = {}
         \/ \E r, w \in Nat : PipedAs(req, mine, table, r, w) /\ EndsOf(req) = {r, w} /\ Keeps(req)
<1>1. CASE req.ends = <<>>
  BY <1>1 DEF EndsOf, C!Range
<1>2. ASSUME NEW r \in Nat, NEW w \in Nat, PipedAs(req, mine, table, r, w) PROVE EndsOf(req) = {r, w}
  BY <1>2 DEF PipedAs, EndsOf, C!Range
<1> QED BY <1>1, <1>2 DEF Piped

\* A call holds finitely many descriptors.
LEMMA HeldFinite ==
  ASSUME NEW req, NEW mine, NEW n, NEW table, HeldBy(req, mine, n, table), mine \subseteq 0 .. 2
  PROVE  IsFiniteSet(DOMAIN table) /\ DOMAIN table \subseteq Nat
<1>1. EndsOf(req) \subseteq Nat /\ IsFiniteSet(EndsOf(req))
  <2>1. Piped(req, mine, table)
    BY DEF HeldBy
  <2>2. IsFiniteSet({})
    BY FS_EmptySet
  <2>3. \A r, w \in Nat : IsFiniteSet({r, w})
    <3> TAKE r, w \in Nat
    <3>1. IsFiniteSet({r})
      BY FS_Singleton
    <3>2. IsFiniteSet({r} \cup {w})
      BY <3>1, FS_AddElement
    <3>3. {r} \cup {w} = {r, w}
      OBVIOUS
    <3> QED BY <3>2, <3>3
  <2>4. CASE EndsOf(req) = {}
    BY <2>2, <2>4
  <2>5. ASSUME NEW r \in Nat, NEW w \in Nat, EndsOf(req) = {r, w}
        PROVE  EndsOf(req) \subseteq Nat /\ IsFiniteSet(EndsOf(req))
    BY <2>3, <2>5
  <2> QED BY <2>1, <2>4, <2>5, EndsAre
<1>2. OpenOf(req) \subseteq Nat
  BY OpenedAside
<1>3. IsFiniteSet(OpenOf(req))
  <2> DEFINE fd(s) == req.streams[s].fd
             all == (({fd("stdin")} \cup {fd("stdout")}) \cup {fd("stderr")})
  <2>1. OpenOf(req) \subseteq all
    BY DEF OpenOf, C!Stream
  <2>2. IsFiniteSet(all)
    <3> HIDE DEF fd
    <3>1. IsFiniteSet({fd("stdin")})
      BY FS_Singleton
    <3>2. IsFiniteSet({fd("stdin")} \cup {fd("stdout")})
      BY <3>1, FS_AddElement
    <3> QED BY <3>2, FS_AddElement
  <2> HIDE DEF all
  <2> QED BY <2>1, <2>2, FS_Subset
<1>4. IsFiniteSet(mine)
  <2>1. IsFiniteSet(0 .. 2)
    <3> DEFINE lo == 0
               hi == 2
    <3>1. lo \in Int /\ hi \in Int
      OBVIOUS
    <3> HIDE DEF lo, hi
    <3>2. IsFiniteSet(lo .. hi)
      BY <3>1, FS_Interval
    <3> QED BY <3>2 DEF lo, hi
  <2> QED BY <2>1, FS_Subset
<1>5. DOMAIN table = (mine \cup OpenOf(req)) \cup EndsOf(req)
  BY DEF HeldBy
<1>6. IsFiniteSet(mine \cup OpenOf(req))
  BY <1>3, <1>4, FS_Union
<1>7. IsFiniteSet((mine \cup OpenOf(req)) \cup EndsOf(req))
  BY <1>1, <1>6, FS_Union
<1>8. (mine \cup OpenOf(req)) \cup EndsOf(req) \subseteq Nat
  <2>1. mine \subseteq Nat
    OBVIOUS
  <2> QED BY <1>1, <1>2, <2>1
<1> QED BY <1>5, <1>7, <1>8

\* Closing what the call opened gives the program its own descriptors back.
LEMMA GivenBack ==
  ASSUME NEW req, NEW mine, NEW n, NEW table, HeldBy(req, mine, n, table)
  PROVE  C!Closing(table, OpenOf(req) \cup EndsOf(req)) = OwnOnly(mine)
<1>1. \A fd \in OpenOf(req) : fd \notin mine
  BY OpenedAside
<1>2. \A fd \in EndsOf(req) : fd \notin mine
  <2>1. Piped(req, mine, table)
    BY DEF HeldBy
  <2> QED BY <2>1, EndsAre DEF PipedAs
<1>3. DOMAIN table \ (OpenOf(req) \cup EndsOf(req)) = mine
  BY <1>1, <1>2 DEF HeldBy
<1>4. \A m \in mine : table[m] = C!Own(m)
  BY DEF HeldBy
<1> DEFINE ns == OpenOf(req) \cup EndsOf(req)
<1> HIDE DEF ns
<1>5. C!Closing(table, ns) = [m \in DOMAIN table \ ns |-> table[m]]
  BY ClosingIs
<1>6. [m \in mine |-> table[m]] = [m \in mine |-> C!Own(m)]
  BY <1>4
<1>7. DOMAIN table \ ns = mine
  BY <1>3 DEF ns
<1> QED BY <1>5, <1>6, <1>7 DEF OwnOnly, ns

-----------------------------------------------------------------------------
(* The streams, one option at a time                                       *)

\* Descriptors that stay where they were, with more beside them.
Holds(table, more) == \A m \in DOMAIN table : m \in DOMAIN more /\ more[m] = table[m]

LEMMA FitsStay ==
  ASSUME NEW req, NEW next, NEW mine, NEW n, NEW k, NEW s, NEW table, NEW more,
         Fits(req, mine, n, s, table), Holds(table, more),
         next.asked = req.asked, next.message = req.message, next.streams[s] = req.streams[s],
         n \in Nat, k \in Nat, n <= k, Given(next, k, s) = Given(req, n, s)
  PROVE  Fits(next, mine, k, s, more)
<1>1. CASE Given(req, n, s) = {} /\ req.streams[s] = C!Unset
  BY <1>1 DEF Fits
<1>2. ASSUME NEW i \in 1 .. n, NEW fd \in Int, Given(req, n, s) = {i},
             FitsTo(req, mine, s, table, req.asked[i][2], fd)
      PROVE  Fits(next, mine, k, s, more)
  <2>1. FitsTo(next, mine, s, more, req.asked[i][2], fd)
    BY <1>2 DEF FitsTo, Holds, Keeps
  <2>2. i \in 1 .. k
    OBVIOUS
  <2> QED BY <1>2, <2>1, <2>2 DEF Fits
<1> QED BY <1>1, <1>2 DEF Fits

LEMMA EndsStay ==
  ASSUME NEW req, NEW next, NEW mine, NEW table, NEW more,
         Piped(req, mine, table), Holds(table, more), next.ends = req.ends,
         next.message = req.message, \A fd \in OpenOf(next) : fd \in OpenOf(req) \/ fd \notin DOMAIN table
  PROVE  Piped(next, mine, more)
<1>1. ASSUME NEW r \in Nat, NEW w \in Nat, PipedAs(req, mine, table, r, w)
      PROVE  PipedAs(next, mine, more, r, w)
  BY <1>1 DEF PipedAs, Holds
<1> QED BY <1>1 DEF Piped, Keeps

\* The next option taken: stream name is to be value, on fd if it is to be opened.
Takes(req, next, name, value, fd) ==
  /\ Request(next)
  /\ next.message = req.message /\ next.asked = req.asked /\ next.ends = req.ends
  /\ next.left = Tail(req.left)
  /\ \A s \in C!Stream : next.streams[s] = IF s = name THEN StreamFor(value, fd) ELSE req.streams[s]

Opened1(table, more, value, fd) ==
  /\ DOMAIN more = DOMAIN table \cup (IF C!Opens(value) THEN {fd} ELSE {})
  /\ Holds(table, more)
  /\ fd \in Int
  /\ IF C!Opens(value) THEN fd \in Nat \ DOMAIN table /\ more[fd] = File(value) ELSE fd = -1

\* The next option can be taken.
OptionOf(req, name, value) ==
  /\ req.left # <<>> /\ req.left[1][1] = name /\ req.left[1][2] = value
  /\ name \in C!Stream /\ ~req.streams[name].named /\ ~(Keeps(req) /\ name = "stdout")
  /\ value = "merge" => name = "stderr"
  /\ value \in C!Manners \cup Path

LEMMA OptionServed ==
  ASSUME NEW req, NEW next, NEW mine, NEW table, NEW more, NEW name, NEW value, NEW fd,
         Serving(req, mine, table), OptionOf(req, name, value),
         Takes(req, next, name, value, fd), Opened1(table, more, value, fd)
  PROVE  Serving(next, mine, more)
<1> USE DEF OptionOf
<1> DEFINE n == Served(req)
<1>1. /\ n \in Nat /\ req.left \in Seq(STRING \X STRING) /\ Len(req.left) \in Nat /\ Len(req.left) > 0
      /\ req.asked \in Seq(STRING \X STRING) /\ Len(req.asked) \in Nat
  BY DEF Serving, Request
<1>2. Len(next.left) = Len(req.left) - 1 /\ \A i \in 1 .. Len(next.left) : next.left[i] = req.left[i + 1]
  BY <1>1 DEF Takes
<1>3. Served(next) = n + 1
  <2>1. next.asked = req.asked
    BY DEF Takes
  <2>2. n = Len(req.asked) - Len(req.left)
    BY DEF Served
  <2> HIDE DEF n
  <2> QED BY <1>1, <1>2, <2>1, <2>2 DEF Served
<1>4. req.asked[n + 1] = req.left[1]
  BY <1>1 DEF Serving
<1>5. \A i \in 1 .. Len(next.left) : next.left[i] = next.asked[n + 1 + i]
  <2> TAKE i \in 1 .. Len(next.left)
  <2>1. i + 1 \in 1 .. Len(req.left) /\ n + (i + 1) = n + 1 + i
    BY <1>1, <1>2
  <2>2. req.left[i + 1] = req.asked[n + (i + 1)]
    BY <2>1 DEF Serving
  <2> QED BY <1>2, <2>1, <2>2 DEF Takes
<1>6. HeldBy(req, mine, n, table)
  BY DEF Serving
<1> HIDE DEF n
<1>7. req.streams[name] = C!Unset /\ Given(req, n, name) = {}
  <2>1. Fits(req, mine, n, name, table)
    BY <1>6 DEF HeldBy
  <2>2. ASSUME NEW i \in 1 .. n, NEW d \in Int, FitsTo(req, mine, name, table, req.asked[i][2], d)
        PROVE  FALSE
    <3>1. req.streams[name] = StreamFor(req.asked[i][2], d)
      BY <2>2 DEF FitsTo
    <3> QED BY <3>1 DEF StreamFor
  <2> QED BY <2>1, <2>2 DEF Fits
<1>8. \A s : Given(next, n + 1, s) = Given(req, n, s) \cup (IF s = name THEN {n + 1} ELSE {})
  <2>1. next.asked = req.asked
    BY DEF Takes
  <2>2. \A i : i \in 1 .. n + 1 <=> i \in 1 .. n \/ i = n + 1
    BY <1>1
  <2> QED BY <1>4, <2>1, <2>2 DEF Given
<1>9. OpenOf(next) = OpenOf(req) \cup (IF C!Opens(value) THEN {fd} ELSE {})
  <2>1. \A s \in C!Stream : s # name => next.streams[s] = req.streams[s]
    BY DEF Takes
  <2>2. ~req.streams[name].opened
    BY <1>7 DEF C!Unset
  <2>3. next.streams[name].fd = fd /\ (next.streams[name].opened <=> C!Opens(value))
    BY DEF Takes, StreamFor
  <2> QED BY <2>1, <2>2, <2>3 DEF OpenOf
<1>10. DOMAIN table = mine \cup OpenOf(req) \cup EndsOf(req) /\ Holds(table, more)
  BY <1>6 DEF HeldBy, Opened1
<1>11. Piped(next, mine, more)
  <2>1. \A d \in OpenOf(next) : d \in OpenOf(req) \/ d \notin DOMAIN table
    BY <1>9 DEF Opened1
  <2>2. Piped(req, mine, table)
    BY <1>6 DEF HeldBy
  <2> QED BY <1>10, <2>1, <2>2, EndsStay DEF Takes
<1>12. ASSUME NEW s \in C!Stream PROVE Fits(next, mine, n + 1, s, more)
  <2>1. CASE s # name
    <3>1. Fits(req, mine, n, s, table)
      BY <1>6 DEF HeldBy
    <3>2. Given(next, n + 1, s) = Given(req, n, s) /\ next.streams[s] = req.streams[s]
      BY <1>8, <2>1 DEF Takes
    <3>3. n + 1 \in Nat /\ n <= n + 1
      BY <1>1
    <3> QED BY <1>1, <1>10, <3>1, <3>2, <3>3, FitsStay DEF Takes
  <2>2. CASE s = name
    <3>1. Given(next, n + 1, s) = {n + 1}
      BY <1>7, <1>8, <2>2
    <3>2. n + 1 \in 1 .. n + 1
      BY <1>1
    <3>3. next.asked[n + 1][2] = value
      BY <1>4 DEF Takes
    <3>4. fd \in Nat => fd \notin mine \/ fd \in DOMAIN table
      BY <1>10
    <3>5. FitsTo(next, mine, s, more, value, fd)
      BY <1>10, <2>2, <3>4 DEF FitsTo, Takes, Opened1, Keeps
    <3>6. fd \in Int
      BY DEF Opened1
    <3> QED BY <3>1, <3>2, <3>3, <3>5, <3>6 DEF Fits
  <2> QED BY <2>1, <2>2
<1>13. HeldBy(next, mine, n + 1, more)
  <2>1. EndsOf(next) = EndsOf(req)
    BY DEF EndsOf, Takes
  <2>2. DOMAIN more = mine \cup OpenOf(next) \cup EndsOf(next)
    BY <1>9, <1>10, <2>1 DEF Opened1
  <2>3. \A m \in mine : more[m] = C!Own(m)
    BY <1>6, <1>10 DEF HeldBy, Holds
  <2> QED BY <1>11, <1>12, <2>2, <2>3 DEF HeldBy
<1>14. next.ends = <<>>
  BY DEF Serving, Takes
<1> QED BY <1>1, <1>3, <1>5, <1>13, <1>14 DEF Serving, Takes

\* Both ends of the pipe.
Pipes(req, next, r, w) ==
  /\ Request(next)
  /\ next.message = req.message /\ next.asked = req.asked /\ next.left = req.left
  /\ next.streams = req.streams /\ next.ends = <<r, w>>

LEMMA PipeOpened ==
  ASSUME NEW req, NEW next, NEW mine, NEW table, NEW more, NEW r \in Nat, NEW w \in Nat,
         Serving(req, mine, table), req.left = <<>>, req.ends = <<>>, Keeps(req), Pipes(req, next, r, w),
         Holds(table, more), DOMAIN more = DOMAIN table \cup {r, w}, r # w,
         r \notin DOMAIN table, w \notin DOMAIN table,
         more[r] = End("read"), more[w] = End("write")
  PROVE  Serving(next, mine, more)
<1> DEFINE n == Served(req)
<1>1. n \in Nat /\ HeldBy(req, mine, n, table) /\ Served(next) = n
  BY DEF Serving, Served, Pipes
<1> HIDE DEF n
<1>2. DOMAIN table = mine \cup OpenOf(req) /\ OpenOf(next) = OpenOf(req) /\ EndsOf(next) = {r, w}
  <2>1. EndsOf(req) = {}
    BY DEF EndsOf, C!Range
  <2>2. EndsOf(next) = {r, w}
    BY DEF EndsOf, C!Range, Pipes
  <2> QED BY <1>1, <2>1, <2>2 DEF HeldBy, OpenOf, Pipes
<1>3. ASSUME NEW s \in C!Stream PROVE Fits(next, mine, n, s, more)
  <2>1. Fits(req, mine, n, s, table)
    BY <1>1 DEF HeldBy
  <2>2. Given(next, n, s) = Given(req, n, s) /\ next.streams[s] = req.streams[s] /\ n <= n
    BY <1>1 DEF Given, Pipes
  <2> QED BY <1>1, <2>1, <2>2, FitsStay DEF Pipes
<1>4. PipedAs(next, mine, more, r, w)
  BY <1>2 DEF PipedAs, Pipes
<1>5. Piped(next, mine, more)
  BY <1>4 DEF Piped, Keeps, Pipes
<1>6. \A m \in mine : more[m] = C!Own(m)
  BY <1>1, <1>2 DEF HeldBy, Holds
<1>7. HeldBy(next, mine, n, more)
  BY <1>2, <1>3, <1>5, <1>6 DEF HeldBy
<1>8. \A i \in 1 .. Len(next.left) : next.left[i] = next.asked[n + i]
  BY DEF Serving, Pipes, n
<1> QED BY <1>1, <1>7, <1>8 DEF Serving, Pipes

-----------------------------------------------------------------------------
(* The streams of the child                                                *)

\* One stream put in its place.
LEMMA Dup2Is ==
  ASSUME NEW table, NEW from, NEW to, to \in DOMAIN table
  PROVE  /\ DOMAIN C!Dup2(table, from, to) = DOMAIN table
         /\ \A m \in DOMAIN table : m # to => C!Dup2(table, from, to)[m] = table[m]
         /\ C!Dup2(table, from, to)[to] =
              IF from \in DOMAIN table /\ from # to THEN [to |-> table[from].to, cloexec |-> FALSE]
              ELSE table[to]
<1>1. CASE from \notin DOMAIN table \/ from = to
  BY <1>1 DEF C!Dup2
<1>2. CASE from \in DOMAIN table /\ from # to
  <2>1. C!Dup2(table, from, to) = C!Opening(table, to, table[from].to, FALSE)
    BY <1>2 DEF C!Dup2
  <2> DEFINE leads == table[from].to
             put == C!Opening(table, to, leads, FALSE)
  <2> HIDE DEF leads
  <2>2. /\ DOMAIN put = DOMAIN table \cup {to} /\ put[to] = [to |-> leads, cloexec |-> FALSE]
        /\ \A m \in DOMAIN table : m # to => put[m] = table[m]
    BY DEF C!Opening
  <2>3. C!Dup2(table, from, to) = put
    BY <2>1 DEF leads
  <2> HIDE DEF put
  <2> QED BY <1>2, <2>2, <2>3 DEF leads
<1> QED BY <1>1, <1>2

\* Where stream number m is to lead: to what is open on fd, or stay.
Leads(table, fd, m) == IF fd = -1 THEN table[m].to ELSE table[fd].to

Puts(table, in, out, err, put) ==
  /\ DOMAIN put = DOMAIN table
  /\ \A m \in DOMAIN table \ 0 .. 2 : put[m] = table[m]
  /\ \A m \in 0 .. 2 : put[m].cloexec = FALSE
  /\ put[0].to = Leads(table, in.fd, 0) /\ put[1].to = Leads(table, out.fd, 1)
  /\ put[2].to = IF err.merge THEN put[1].to ELSE Leads(table, err.fd, 2)

\* The three streams of a child are put in their places, and nothing else moves.
LEMMA StreamsPut ==
  ASSUME NEW table, NEW in, NEW out, NEW err, 0 .. 2 \subseteq DOMAIN table, -1 \notin DOMAIN table,
         in.fd = -1 \/ in.fd \in DOMAIN table \ 0 .. 2,
         out.fd = -1 \/ out.fd \in DOMAIN table \ 0 .. 2,
         err.fd = -1 \/ err.fd \in DOMAIN table \ 0 .. 2,
         \A m \in 0 .. 2 : table[m].cloexec = FALSE
  PROVE  Puts(table, in, out, err, C!ChildStreams(table, in, out, err))
<1> DEFINE one == C!Dup2(table, in.fd, 0)
           two == C!Dup2(one, out.fd, 1)
           from == IF err.merge THEN 1 ELSE err.fd
           put == C!Dup2(two, from, 2)
<1>0. 0 \in 0 .. 2 /\ 1 \in 0 .. 2 /\ 2 \in 0 .. 2 /\ \A m \in 0 .. 2 : m = 0 \/ m = 1 \/ m = 2
  OBVIOUS
<1>1. /\ DOMAIN one = DOMAIN table
      /\ \A m \in DOMAIN table : m # 0 => one[m] = table[m]
      /\ one[0] = IF in.fd \in DOMAIN table /\ in.fd # 0 THEN [to |-> table[in.fd].to, cloexec |-> FALSE]
                  ELSE table[0]
  BY <1>0, Dup2Is
<1>2. one[0].to = Leads(table, in.fd, 0) /\ one[0].cloexec = FALSE
  BY <1>0, <1>1 DEF Leads
<1> HIDE DEF one
<1>3. /\ DOMAIN two = DOMAIN table
      /\ \A m \in DOMAIN table : m # 1 => two[m] = one[m]
      /\ two[1] = IF out.fd \in DOMAIN table /\ out.fd # 1 THEN [to |-> one[out.fd].to, cloexec |-> FALSE]
                  ELSE one[1]
  BY <1>0, <1>1, Dup2Is
<1>4. two[1].to = Leads(table, out.fd, 1) /\ two[1].cloexec = FALSE
  BY <1>0, <1>1, <1>3 DEF Leads
<1> HIDE DEF two
<1>5. /\ DOMAIN put = DOMAIN table
      /\ \A m \in DOMAIN table : m # 2 => put[m] = two[m]
      /\ put[2] = IF from \in DOMAIN table /\ from # 2 THEN [to |-> two[from].to, cloexec |-> FALSE]
                  ELSE two[2]
  <2> HIDE DEF from
  <2> QED BY <1>0, <1>3, Dup2Is
<1>6. put[2].cloexec = FALSE
  BY <1>0, <1>1, <1>3, <1>5
<1>7. CASE err.merge
  <2>1. from = 1 /\ put[2].to = two[1].to /\ put[1] = two[1]
    BY <1>0, <1>5, <1>7
  <2>2. C!ChildStreams(table, in, out, err) = put
    BY DEF C!ChildStreams, one, two
  <2> HIDE DEF put
  <2> QED BY <1>0, <1>1, <1>2, <1>3, <1>4, <1>5, <1>6, <1>7, <2>1, <2>2 DEF Puts
<1>8. CASE ~err.merge
  <2>1. from = err.fd
    BY <1>8
  <2>2. put[2].to = Leads(table, err.fd, 2)
    BY <1>0, <1>1, <1>3, <1>5, <2>1 DEF Leads
  <2>3. C!ChildStreams(table, in, out, err) = put
    BY DEF C!ChildStreams, one, two
  <2> HIDE DEF put
  <2> QED BY <1>0, <1>1, <1>2, <1>3, <1>4, <1>5, <1>6, <1>8, <2>2, <2>3 DEF Puts
<1> QED BY <1>7, <1>8

\* What was asked of a stream, and where it is to lead for that.
AskedOf(req, name) == {req.asked[i][2] : i \in {i \in DOMAIN req.asked : req.asked[i][1] = name}}

GoesTo(req, name) ==
  IF Keeps(req) /\ name = "stdout" THEN <<"pipe", "write">>
  ELSE IF AskedOf(req, name) \subseteq {"share"} THEN <<"own", C!Number[name]>>
  ELSE <<"file", CHOOSE value \in AskedOf(req, name) : TRUE>>

\* The streams of another program that has the program's place for its own.
PlacedAs(req, mine, table) ==
  (mine = 0 .. 2) =>
    /\ DOMAIN table = 0 .. 2
    /\ table[0].to = GoesTo(req, "stdin") /\ table[1].to = GoesTo(req, "stdout")
    /\ table[2].to = IF AskedOf(req, "stderr") = {"merge"} THEN table[1].to ELSE GoesTo(req, "stderr")

LEMMA StreamSays ==
  ASSUME C!ChildrenAssumption, NEW req, NEW s \in C!Stream, NEW table, NEW n, Request(req),
         HeldBy(req, 0 .. 2, Len(req.asked), table)
  PROVE  /\ req.streams[s].fd = -1 \/ req.streams[s].fd \in (DOMAIN table \ 0 .. 2) \cap OpenOf(req)
         /\ req.streams[s].merge <=> AskedOf(req, s) = {"merge"}
         /\ ~req.streams[s].merge /\ ~(Keeps(req) /\ s = "stdout") =>
              Leads(table, req.streams[s].fd, C!Number[s]) = GoesTo(req, s)
<1> DEFINE st == req.streams[s]
           home == Leads(table, -1, C!Number[s])
<1>1. DOMAIN req.asked = 1 .. Len(req.asked)
  BY DEF Request
<1>2. home = <<"own", C!Number[s]>>
  <2>1. C!Number[s] \in 0 .. 2
    BY DEF C!Number, C!Stream
  <2>2. table[C!Number[s]] = C!Own(C!Number[s])
    BY <2>1 DEF HeldBy
  <2> QED BY <2>2 DEF Leads, C!Own
<1>3. Fits(req, 0 .. 2, Len(req.asked), s, table)
  BY DEF HeldBy
<1>4. CASE Given(req, Len(req.asked), s) = {} /\ req.streams[s] = C!Unset
  <2>1. AskedOf(req, s) = {}
    BY <1>1, <1>4 DEF AskedOf, Given
  <2>2. st.fd = -1 /\ ~st.merge
    BY <1>4 DEF C!Unset
  <2>3. {} # {"merge"}
    OBVIOUS
  <2>4. ~(Keeps(req) /\ s = "stdout") => GoesTo(req, s) = <<"own", C!Number[s]>>
    BY <2>1 DEF GoesTo
  <2> QED BY <1>2, <2>1, <2>2, <2>3, <2>4
<1>5. ASSUME NEW i \in 1 .. Len(req.asked), NEW fd \in Int, Given(req, Len(req.asked), s) = {i},
             FitsTo(req, 0 .. 2, s, table, req.asked[i][2], fd)
      PROVE  /\ st.fd = -1 \/ st.fd \in (DOMAIN table \ 0 .. 2) \cap OpenOf(req)
             /\ st.merge <=> AskedOf(req, s) = {"merge"}
             /\ ~st.merge /\ ~(Keeps(req) /\ s = "stdout") =>
                  Leads(table, st.fd, C!Number[s]) = GoesTo(req, s)
  <2> DEFINE v == req.asked[i][2]
  <2>1. AskedOf(req, s) = {v}
    BY <1>1, <1>5 DEF AskedOf, Given
  <2> HIDE DEF v
  <2>2. st.fd = fd /\ (st.merge <=> v = "merge") /\ (st.opened <=> C!Opens(v))
    <3>1. st = StreamFor(v, fd)
      BY <1>5 DEF FitsTo, v
    <3> HIDE DEF st
    <3> QED BY <3>1 DEF StreamFor
  <2>3. C!Opens(v) => fd \in DOMAIN table \ 0 .. 2 /\ table[fd] = File(v) /\ fd # -1
    BY <1>5 DEF FitsTo, v
  <2>4. ~C!Opens(v) => fd = -1
    BY <1>5 DEF FitsTo, v
  <2>5. v \in {"share", "discard", "merge"} \cup Path
    BY <1>5 DEF FitsTo, C!Manners, v
  <2>6. C!Opens(v) <=> v \notin {"share", "merge"}
    BY <2>5 DEF C!Opens, C!ChildrenAssumption
  <2>7. (CHOOSE value \in {v} : TRUE) = v
    OBVIOUS
  <2>8. ~(Keeps(req) /\ s = "stdout") =>
          GoesTo(req, s) = IF v = "share" THEN <<"own", C!Number[s]>> ELSE <<"file", v>>
    BY <2>1, <2>7 DEF GoesTo
  <2>9. CASE v = "share"
    <3>1. fd = -1
      BY <2>4, <2>6, <2>9
    <3> QED BY <1>2, <2>1, <2>2, <2>8, <2>9, <3>1
  <2>10. CASE v = "merge"
    <3>1. fd = -1
      BY <2>4, <2>6, <2>10
    <3> QED BY <2>1, <2>2, <2>10, <3>1
  <2>11. CASE v \notin {"share", "merge"}
    <3>1. Leads(table, fd, C!Number[s]) = <<"file", v>>
      BY <2>3, <2>6, <2>11 DEF Leads, File
    <3>2. st.fd \in OpenOf(req)
      BY <2>2, <2>6, <2>11 DEF OpenOf
    <3> QED BY <2>1, <2>2, <2>3, <2>6, <2>8, <2>11, <3>1, <3>2
  <2> QED BY <2>9, <2>10, <2>11
<1> QED BY <1>3, <1>4, <1>5 DEF Fits

\* What leads somewhere leads where something led before.
Spreads(table, more) == \A n \in DOMAIN more : \E m \in DOMAIN table : more[n].to = table[m].to

LEMMA Dup2Spreads ==
  ASSUME NEW table, NEW from, NEW to
  PROVE  Spreads(table, C!Dup2(table, from, to))
<1>1. CASE from \notin DOMAIN table \/ from = to
  BY <1>1 DEF C!Dup2, Spreads
<1>2. CASE from \in DOMAIN table /\ from # to
  <2> DEFINE leads == table[from].to
             put == C!Opening(table, to, leads, FALSE)
  <2>1. C!Dup2(table, from, to) = put
    BY <1>2 DEF C!Dup2
  <2>2. DOMAIN put = DOMAIN table \cup {to} /\ put[to].to = leads /\ \A m \in DOMAIN table : m # to => put[m] = table[m]
    BY DEF C!Opening
  <2> HIDE DEF put
  <2> QED BY <1>2, <2>1, <2>2 DEF Spreads
<1> QED BY <1>1, <1>2

LEMMA StreamsSpread ==
  ASSUME NEW table, NEW in, NEW out, NEW err
  PROVE  Spreads(table, C!ChildStreams(table, in, out, err))
<1> DEFINE one == C!Dup2(table, in.fd, 0)
           two == C!Dup2(one, out.fd, 1)
           from == IF err.merge THEN 1 ELSE err.fd
           put == C!Dup2(two, from, 2)
<1>1. Spreads(table, one)
  BY Dup2Spreads
<1> HIDE DEF one
<1>2. Spreads(one, two)
  BY Dup2Spreads
<1> HIDE DEF two, from
<1>3. Spreads(two, put)
  BY Dup2Spreads
<1> HIDE DEF put
<1>4. Spreads(table, put)
  BY <1>1, <1>2, <1>3 DEF Spreads
<1> QED BY <1>4 DEF C!ChildStreams, one, two, from, put

LEMMA ClosingSpreads ==
  ASSUME NEW table, NEW ns
  PROVE  Spreads(table, C!Closing(table, ns))
<1> DEFINE closed == C!Closing(table, ns)
<1>1. DOMAIN closed = DOMAIN table \ ns /\ \A m \in DOMAIN table \ ns : closed[m] = table[m]
  BY ClosingIs
<1> HIDE DEF closed
<1> QED BY <1>1 DEF Spreads, closed

\* What is open in the other program: what was not to be closed for it.
Running(table) == C!Closing(table, {n \in DOMAIN table : table[n].cloexec})

LEMMA RunningIs ==
  ASSUME NEW table, 0 .. 2 \subseteq DOMAIN table, \A m \in 0 .. 2 : table[m].cloexec = FALSE,
         \A m \in DOMAIN table \ 0 .. 2 : table[m].cloexec = TRUE
  PROVE  DOMAIN Running(table) = 0 .. 2 /\ \A m \in 0 .. 2 : Running(table)[m] = table[m]
<1> DEFINE ns == {n \in DOMAIN table : table[n].cloexec}
<1>1. DOMAIN table \ ns = 0 .. 2
  OBVIOUS
<1> HIDE DEF ns
<1>2. Running(table) = C!Closing(table, ns)
  BY DEF Running, ns
<1>3. DOMAIN C!Closing(table, ns) = DOMAIN table \ ns /\ \A m \in DOMAIN table \ ns : C!Closing(table, ns)[m] = table[m]
  BY ClosingIs
<1> QED BY <1>1, <1>2, <1>3

\* The other program has its three streams where they were asked to go, and no more.
LEMMA ChildIs ==
  ASSUME C!ChildrenAssumption, NEW table, Forked(request, standing, table)
  PROVE  PlacedAs(request, standing, Running(C!ChildTable(table)))
<1> SUFFICES ASSUME standing = 0 .. 2
             PROVE  LET more == Running(C!ChildTable(table)) IN
                    /\ DOMAIN more = 0 .. 2
                    /\ more[0].to = GoesTo(request, "stdin") /\ more[1].to = GoesTo(request, "stdout")
                    /\ more[2].to = IF AskedOf(request, "stderr") = {"merge"} THEN more[1].to
                                    ELSE GoesTo(request, "stderr")
  BY DEF PlacedAs
<1> DEFINE in == request.streams.stdin
           out == request.streams.stdout
           err == request.streams.stderr
<1>0. 0 \in 0 .. 2 /\ 1 \in 0 .. 2 /\ 2 \in 0 .. 2 /\ -1 \notin 0 .. 2
  OBVIOUS
<1>1. Request(request) /\ HeldBy(request, 0 .. 2, Len(request.asked), table)
  BY DEF Forked
<1>2. /\ DOMAIN table = 0 .. 2 \cup OpenOf(request) \cup EndsOf(request)
      /\ \A m \in 0 .. 2 : table[m] = C!Own(m)
      /\ Piped(request, 0 .. 2, table)
  BY <1>1 DEF HeldBy
<1>3. \A m \in OpenOf(request) : m \in Nat \ 0 .. 2 /\ table[m].cloexec = TRUE
  <2> TAKE m \in OpenOf(request)
  <2>1. m \in Nat \ 0 .. 2 /\ \E v \in Path \cup {"discard"} : table[m] = File(v)
    BY <1>1, OpenedAside
  <2> QED BY <2>1 DEF File
<1>4. \A m \in 0 .. 2 : table[m].cloexec = FALSE
  BY <1>2 DEF C!Own
<1>5. "stdin" \in C!Stream /\ "stdout" \in C!Stream /\ "stderr" \in C!Stream
  BY DEF C!Stream
<1>6. C!Number["stdin"] = 0 /\ C!Number["stdout"] = 1 /\ C!Number["stderr"] = 2
  BY DEF C!Number
<1>7. /\ in.fd = -1 \/ in.fd \in (DOMAIN table \ 0 .. 2) \cap OpenOf(request)
      /\ in.merge <=> AskedOf(request, "stdin") = {"merge"}
      /\ ~in.merge => Leads(table, in.fd, 0) = GoesTo(request, "stdin")
  BY <1>1, <1>5, <1>6, StreamSays
<1>8. /\ out.fd = -1 \/ out.fd \in (DOMAIN table \ 0 .. 2) \cap OpenOf(request)
      /\ out.merge <=> AskedOf(request, "stdout") = {"merge"}
      /\ ~out.merge /\ ~Keeps(request) => Leads(table, out.fd, 1) = GoesTo(request, "stdout")
  BY <1>1, <1>5, <1>6, StreamSays
<1>9. /\ err.fd = -1 \/ err.fd \in (DOMAIN table \ 0 .. 2) \cap OpenOf(request)
      /\ err.merge <=> AskedOf(request, "stderr") = {"merge"}
      /\ ~err.merge => Leads(table, err.fd, 2) = GoesTo(request, "stderr")
  BY <1>1, <1>5, <1>6, StreamSays
<1>10. ASSUME NEW s \in {"stdin", "stdout"} PROVE ~request.streams[s].merge
  <2>1. Fits(request, 0 .. 2, Len(request.asked), s, table)
    BY <1>1, <1>5 DEF HeldBy
  <2>2. CASE request.streams[s] = C!Unset
    BY <2>2 DEF C!Unset
  <2>3. ASSUME NEW v, NEW fd, FitsTo(request, 0 .. 2, s, table, v, fd) PROVE ~request.streams[s].merge
    <3> DEFINE st == request.streams[s]
    <3>1. v # "merge" /\ st = StreamFor(v, fd)
      BY <2>3 DEF FitsTo
    <3> HIDE DEF st
    <3>2. ~st.merge
      BY <3>1 DEF StreamFor
    <3> QED BY <3>2 DEF st
  <2> QED BY <2>1, <2>2, <2>3 DEF Fits
<1>11. ~in.merge /\ ~out.merge
  BY <1>10
<1>12. Keeps(request) <=> C!Capturing
  BY DEF Keeps, C!Capturing
<1>13. CASE ~C!Capturing
  <2> DEFINE put == C!ChildStreams(table, in, out, err)
  <2>1. EndsOf(request) = {}
    BY <1>2, <1>12, <1>13, EndsAre
  <2>2. -1 \notin DOMAIN table
    BY <1>0, <1>2, <1>3, <2>1
  <2> HIDE DEF in, out, err
  <2>3. Puts(table, in, out, err, put)
    BY <1>2, <1>4, <1>7, <1>8, <1>9, <2>2, StreamsPut
  <2>4. C!ChildTable(table) = put
    BY <1>13 DEF C!ChildTable, in, out, err
  <2> HIDE DEF put
  <2>5. DOMAIN Running(put) = 0 .. 2 /\ \A m \in 0 .. 2 : Running(put)[m] = put[m]
    BY <1>2, <1>3, <2>1, <2>3, RunningIs DEF Puts
  <2> QED BY <1>0, <1>7, <1>8, <1>9, <1>11, <1>12, <1>13, <2>3, <2>4, <2>5 DEF Puts
<1>14. CASE C!Capturing
  <2>1. PICK r \in Nat, w \in Nat : PipedAs(request, 0 .. 2, table, r, w) /\ EndsOf(request) = {r, w}
    BY <1>2, <1>12, <1>14, EndsAre DEF Forked, PipedAs
  <2>2. /\ request.ends[1] = r /\ request.ends[2] = w /\ r # w
        /\ r \in DOMAIN table /\ r \notin 0 .. 2 \cup OpenOf(request)
        /\ w \in DOMAIN table /\ w \notin 0 .. 2 \cup OpenOf(request)
        /\ table[w].to = <<"pipe", "write">>
    BY <2>1 DEF PipedAs, End
  <2> DEFINE without == C!Closing(table, {r})
             pipe1 == [C!Unset EXCEPT !.fd = w]
             put == C!ChildStreams(without, in, pipe1, err)
             more == C!Closing(put, {w})
  <2>3. DOMAIN without = DOMAIN table \ {r} /\ \A m \in DOMAIN table \ {r} : without[m] = table[m]
    BY ClosingIs
  <2>4. pipe1.fd = w
    BY DEF C!Unset
  <2>5. w > 2
    BY <2>2
  <2>6. C!ChildTable(table) = more
    BY <1>14, <2>2, <2>5 DEF C!ChildTable
  <2> HIDE DEF without, in, out, err, pipe1
  <2>7. -1 \notin DOMAIN without /\ 0 .. 2 \subseteq DOMAIN without /\ \A m \in 0 .. 2 : without[m].cloexec = FALSE
    BY <1>0, <1>2, <1>3, <1>4, <2>1, <2>2, <2>3
  <2>8. /\ in.fd = -1 \/ in.fd \in DOMAIN without \ 0 .. 2
        /\ err.fd = -1 \/ err.fd \in DOMAIN without \ 0 .. 2
        /\ pipe1.fd \in DOMAIN without \ 0 .. 2
    BY <1>7, <1>9, <2>2, <2>3, <2>4
  <2>9a. Puts(without, in, pipe1, err, put)
    BY <2>7, <2>8, StreamsPut
  <2>9. /\ DOMAIN put = DOMAIN without
        /\ \A m \in DOMAIN without \ 0 .. 2 : put[m] = without[m]
        /\ \A m \in 0 .. 2 : put[m].cloexec = FALSE
        /\ put[0].to = Leads(without, in.fd, 0) /\ put[1].to = Leads(without, pipe1.fd, 1)
        /\ put[2].to = IF err.merge THEN put[1].to ELSE Leads(without, err.fd, 2)
    BY <2>9a DEF Puts
  <2> HIDE DEF put
  <2>10. DOMAIN more = DOMAIN put \ {w} /\ \A m \in DOMAIN put \ {w} : more[m] = put[m]
    BY ClosingIs
  <2> HIDE DEF more
  <2>11. DOMAIN Running(more) = 0 .. 2 /\ \A m \in 0 .. 2 : Running(more)[m] = more[m]
    <3>1. \A m \in DOMAIN more \ 0 .. 2 : m \in OpenOf(request)
      BY <1>2, <2>1, <2>3, <2>9, <2>10
    <3>2. \A m \in DOMAIN more \ 0 .. 2 : more[m].cloexec = TRUE
      BY <1>2, <1>3, <2>2, <2>3, <2>9, <2>10, <3>1
    <3>3. 0 .. 2 \subseteq DOMAIN more /\ \A m \in 0 .. 2 : more[m].cloexec = FALSE
      BY <2>2, <2>7, <2>9, <2>10
    <3> QED BY <3>2, <3>3, RunningIs
  <2>12. Leads(without, in.fd, 0) = Leads(table, in.fd, 0) /\ Leads(without, err.fd, 2) = Leads(table, err.fd, 2)
    BY <1>0, <1>7, <1>9, <2>2, <2>3, <2>7 DEF Leads
  <2>13. Leads(without, pipe1.fd, 1) = <<"pipe", "write">>
    BY <1>0, <2>2, <2>3, <2>4, <2>5 DEF Leads
  <2>14. GoesTo(request, "stdout") = <<"pipe", "write">>
    BY <1>12, <1>14 DEF GoesTo
  <2>15. more[0] = put[0] /\ more[1] = put[1] /\ more[2] = put[2]
    BY <1>0, <2>2, <2>7, <2>9, <2>10
  <2> QED BY <1>0, <1>7, <1>9, <1>11, <2>6, <2>9, <2>11, <2>12, <2>13, <2>14, <2>15
<1> QED BY <1>13, <1>14

\* The other program writes to the pipe only if it was forked by one that does.
LEMMA ChildSpreads ==
  ASSUME NEW table
  PROVE  Spreads(table, Running(C!ChildTable(table)))
<1>1. CASE ~C!Capturing
  <2> DEFINE put == C!ChildStreams(table, request.streams.stdin, request.streams.stdout, request.streams.stderr)
  <2>1. C!ChildTable(table) = put
    BY <1>1 DEF C!ChildTable
  <2>2. Spreads(table, put)
    BY StreamsSpread
  <2> HIDE DEF put
  <2>3. Spreads(put, Running(put))
    BY ClosingSpreads DEF Running
  <2> QED BY <2>1, <2>2, <2>3 DEF Spreads
<1>2. CASE C!Capturing
  <2> DEFINE w == request.ends[2]
             without == C!Closing(table, {request.ends[1]})
             put == C!ChildStreams(without, request.streams.stdin, [C!Unset EXCEPT !.fd = w], request.streams.stderr)
             more == C!Closing(put, {w})
  <2>1. C!ChildTable(table) = put \/ C!ChildTable(table) = more
    BY <1>2 DEF C!ChildTable
  <2>2. Spreads(table, without)
    BY ClosingSpreads
  <2> HIDE DEF without
  <2>3. Spreads(without, put)
    BY StreamsSpread
  <2> HIDE DEF put
  <2>4. Spreads(put, more)
    BY ClosingSpreads
  <2> HIDE DEF more
  <2>5. Spreads(put, Running(put)) /\ Spreads(more, Running(more))
    BY ClosingSpreads DEF Running
  <2>6. CASE C!ChildTable(table) = put
    BY <2>2, <2>3, <2>5, <2>6 DEF Spreads
  <2>7. CASE C!ChildTable(table) = more
    BY <2>2, <2>3, <2>4, <2>5, <2>7 DEF Spreads
  <2> QED BY <2>1, <2>6, <2>7
<1> QED BY <1>1, <1>2

-----------------------------------------------------------------------------
(* The invariant                                                           *)

\* The place of the call, and what the program has open there.
Place ==
  \/ step = "idle" /\ request = [message |-> "none"] /\ processes = <<>> /\ descriptors = OwnOnly(standing)
  \/ step = "streams" /\ Serving(request, standing, descriptors) /\ processes = <<>>
  \/ step = "forked" /\ Forked(request, standing, descriptors) /\ processes # <<>>
  \/ step = "read" /\ Reading(request, standing, descriptors) /\ processes # <<>>
  \/ step = "wait" /\ descriptors = OwnOnly(standing) /\ processes # <<>>
  \/ step = "done" /\ descriptors = OwnOnly(standing)

Writes(table) == \E n \in DOMAIN table : table[n].to = <<"pipe", "write">>

\* What a process is, the k-th of a call.
Fine(req, mine, k, p) ==
  /\ p = [table |-> p.table, state |-> p.state]
  /\ p.state \in {"new", "runs", "writes", "gone"}
  /\ p.state = "gone" => DOMAIN p.table = {}
  /\ p.state = "new" => k = 1 /\ Forked(req, mine, p.table)
  /\ p.state = "writes" => Writes(p.table)
  /\ Writes(p.table) => Keeps(req)
  /\ k = 1 /\ p.state \in {"runs", "writes"} => PlacedAs(req, mine, p.table)

Row(procs) == \E S : procs \in Seq(S)

Processes ==
  /\ Row(processes)
  /\ \A k \in DOMAIN processes : Fine(request, standing, k, processes[k])
  /\ processes = <<>> => status = -1
  /\ processes # <<>> => (status = -1 <=> processes[1].state # "gone")

NoWriter(procs) == \A k \in DOMAIN procs : ~Writes(procs[k].table)

\* What was written is in the answer or in the pipe, in order.
Flow ==
  /\ written \in Nat /\ output \in Seq(Nat) /\ pipe \in Seq(Nat)
  /\ output \o pipe = [i \in 1 .. written |-> i]
  /\ ~Keeps(request) \/ processes = <<>> => pipe = <<>>
  /\ step \in {"wait", "done"} /\ ~short => pipe = <<>> /\ NoWriter(processes)

CInv == standing \in Standings /\ Place /\ Processes /\ Flow

LEMMA NamesAre ==
  /\ C!Capturing <=> Keeps(request)
  /\ C!Opened = OpenOf(request)
  /\ C!Range(request.ends) = EndsOf(request)
  /\ \A k : C!ToPipe(k) <=> Writes(processes[k].table)
BY DEF C!Capturing, Keeps, C!Opened, OpenOf, EndsOf, C!ToPipe, Writes

LEMMA ChildrenStart == ASSUME C!ChildrenAssumption, C!Init PROVE CInv
<1>1. standing \in Standings /\ Place
  BY DEF C!Init, Place, OwnOnly
<1>2. Processes
  <2>1. processes = <<>> /\ status = -1
    BY DEF C!Init
  <2>2. Row(processes)
    <3>1. processes \in Seq({})
      BY <2>1
    <3> QED BY <3>1 DEF Row
  <2> QED BY <2>1, <2>2 DEF Processes
<1>3. Flow
  <2>1. /\ written = 0 /\ output = <<>> /\ pipe = <<>> /\ step = "idle"
        /\ <<>> \in Seq(Nat) /\ 0 \in Nat
    BY DEF C!Init
  <2>2. <<>> \o <<>> = [i \in 1 .. 0 |-> i]
    OBVIOUS
  <2> QED BY <2>1, <2>2 DEF Flow
<1> QED BY <1>1, <1>2, <1>3 DEF CInv

-----------------------------------------------------------------------------
(* Steps before there is a child                                           *)

\* Before the fork there is nothing to say of processes and of what they write.
LEMMA BeforeFork ==
  ASSUME CInv, processes = <<>>, processes' = <<>>,
         UNCHANGED <<standing, pipe, output, status, short, written>>
  PROVE  standing' \in Standings /\ Processes' /\ Flow'
<1>1. Processes'
  <2>1. Row(<<>>)
    <3>1. <<>> \in Seq({})
      OBVIOUS
    <3> QED BY <3>1 DEF Row
  <2> QED BY <2>1 DEF CInv, Processes
<1>2. Flow'
  BY DEF CInv, Flow, NoWriter
<1> QED BY <1>1, <1>2 DEF CInv

LEMMA CallKeeps ==
  ASSUME C!ChildrenAssumption, CInv, NEW message \in {"run", "capture"}, NEW options \in Requests,
         C!Call(message, options)
  PROVE  CInv'
<1>1. /\ step = "idle" /\ step' = "streams" /\ processes = <<>> /\ descriptors = OwnOnly(standing)
      /\ UNCHANGED <<standing, descriptors, processes, pipe, output, status, short, written>>
      /\ request' = [message |-> message, asked |-> options, left |-> options, ends |-> <<>>,
                     streams |-> [s \in C!Stream |-> C!Unset]]
  BY DEF CInv, Place, C!Call
<1> DEFINE next == [message |-> message, asked |-> options, left |-> options, ends |-> <<>>,
                    streams |-> [s \in C!Stream |-> C!Unset]]
<1>2. options \in Seq(STRING \X STRING)
  BY DEF C!ChildrenAssumption
<1>3. /\ next.asked = options /\ next.left = options /\ next.ends = <<>> /\ next.message = message
      /\ next.streams = [s \in C!Stream |-> C!Unset] /\ next = [f \in Fields |-> next[f]]
  BY DEF Fields
<1> HIDE DEF next
<1>4. Request(next)
  BY <1>2, <1>3 DEF Request
<1>5. Served(next) = 0
  BY <1>2, <1>3 DEF Served
<1>6. OpenOf(next) = {} /\ EndsOf(next) = {}
  BY <1>3 DEF OpenOf, EndsOf, C!Unset, C!Range
<1>7. HeldBy(next, standing, 0, descriptors)
  <2>1. DOMAIN descriptors = standing /\ \A m \in standing : descriptors[m] = C!Own(m)
    BY <1>1 DEF OwnOnly
  <2>2. \A s \in C!Stream : Fits(next, standing, 0, s, descriptors)
    BY <1>3 DEF Fits, Given
  <2> QED BY <1>3, <1>6, <2>1, <2>2 DEF HeldBy, Piped
<1>8. Serving(next, standing, descriptors)
  BY <1>3, <1>4, <1>5, <1>7 DEF Serving
<1>9. Place'
  BY <1>1, <1>8 DEF Place, next
<1> QED BY <1>1, <1>9, BeforeFork DEF CInv

\* A call that is refused has its own descriptors.
LEMMA RefuseKeeps ==
  ASSUME CInv, step = "streams", NEW ends, C!Refuse(ends), ends = EndsOf(request)
  PROVE  CInv'
<1>1. processes = <<>> /\ Serving(request, standing, descriptors)
  BY DEF CInv, Place
<1>2. C!Closing(descriptors, OpenOf(request) \cup EndsOf(request)) = OwnOnly(standing)
  BY <1>1, GivenBack DEF Serving
<1>3. descriptors' = OwnOnly(standing') /\ step' = "done"
  BY <1>2, NamesAre DEF C!Refuse
<1>4. processes' = <<>> /\ UNCHANGED <<standing, pipe, output, status, short, written>>
  BY <1>1 DEF C!Refuse
<1> QED BY <1>1, <1>3, <1>4, BeforeFork DEF CInv, Place

\* A descriptor opened beside those that there are.
LEMMA OpenedIs ==
  ASSUME NEW table, NEW to, NEW cloexec, IsFiniteSet(DOMAIN table), DOMAIN table \subseteq Nat
  PROVE  LET fd == C!Lowest(table)
             more == C!Opening(table, fd, to, cloexec)
         IN /\ fd \in Nat \ DOMAIN table
            /\ DOMAIN more = DOMAIN table \cup {fd} /\ Holds(table, more)
            /\ more[fd] = [to |-> to, cloexec |-> cloexec]
<1> DEFINE fd == C!Lowest(table)
           more == C!Opening(table, fd, to, cloexec)
<1>1. fd \in Nat \ DOMAIN table
  BY LowestIs
<1> HIDE DEF fd
<1>2. /\ DOMAIN more = DOMAIN table \cup {fd} /\ more[fd] = [to |-> to, cloexec |-> cloexec]
      /\ \A m \in DOMAIN table : m # fd => more[m] = table[m]
  BY DEF C!Opening
<1> HIDE DEF more
<1>3. Holds(table, more)
  BY <1>1, <1>2 DEF Holds
<1> QED BY <1>1, <1>2, <1>3 DEF fd, more

LEMMA StreamValueKeeps ==
  ASSUME C!ChildrenAssumption, CInv, C!StreamValue
  PROVE  CInv'
<1> DEFINE name == Head(request.left)[1]
           value == Head(request.left)[2]
           fd == IF C!Opens(value) THEN C!Lowest(descriptors) ELSE -1
<1>1. /\ step = "streams" /\ request.left # <<>> /\ processes = <<>>
      /\ Serving(request, standing, descriptors)
      /\ standing \subseteq 0 .. 2
  BY DEF C!StreamValue, CInv, Place, C!ChildrenAssumption
<1>2. request.ends = <<>> /\ EndsOf(request) = {}
  BY <1>1 DEF Serving, EndsOf, C!Range
<1>3. CASE C!Refuse({})
  BY <1>1, <1>2, <1>3, RefuseKeeps
<1>4. CASE /\ ~C!Wrong(name, value)
           /\ request' = [request EXCEPT !.left = Tail(@), !.streams[name] =
                            [fd |-> fd, merge |-> value = "merge", opened |-> C!Opens(value), named |-> TRUE]]
           /\ descriptors' = IF C!Opens(value) THEN C!Opening(descriptors, fd, <<"file", value>>, TRUE)
                             ELSE descriptors
           /\ UNCHANGED <<standing, step, processes, pipe, output, status, short, written>>
  <2> DEFINE stream == [fd |-> fd, merge |-> value = "merge", opened |-> C!Opens(value), named |-> TRUE]
  <2>1. stream = StreamFor(value, fd)
    BY DEF StreamFor
  <2>2. /\ name \in C!Stream /\ ~request.streams[name].named /\ ~(Keeps(request) /\ name = "stdout")
        /\ (value = "merge" => name = "stderr") /\ value \in C!Manners \cup Path
    BY <1>4, NamesAre DEF C!Wrong
  <2>3. request.left[1][1] = name /\ request.left[1][2] = value
    BY <1>1 DEF Serving, Request
  <2>4. IsFiniteSet(DOMAIN descriptors) /\ DOMAIN descriptors \subseteq Nat
    BY <1>1, HeldFinite DEF Serving
  <2>5. request' = [request EXCEPT !.left = Tail(@), !.streams[name] = StreamFor(value, fd)]
    BY <1>4, <2>1
  <2> HIDE DEF stream, name
  <2>6. Opened1(descriptors, descriptors', value, fd)
    <3>1. CASE C!Opens(value)
      <4>1. fd = C!Lowest(descriptors)
        BY <3>1
      <4>2. descriptors' = C!Opening(descriptors, C!Lowest(descriptors), <<"file", value>>, TRUE)
        BY <1>4, <3>1
      <4> HIDE DEF fd, value
      <4>3. /\ C!Lowest(descriptors) \in Nat \ DOMAIN descriptors
            /\ DOMAIN descriptors' = DOMAIN descriptors \cup {C!Lowest(descriptors)}
            /\ Holds(descriptors, descriptors')
            /\ descriptors'[C!Lowest(descriptors)] = File(value)
        BY <2>4, <4>2, OpenedIs DEF File
      <4> QED BY <3>1, <4>1, <4>3 DEF Opened1
    <3>2. CASE ~C!Opens(value)
      BY <1>4, <3>2 DEF Opened1, Holds
    <3> QED BY <3>1, <3>2
  <2> HIDE DEF fd, value
  <2>7. Takes(request, request', name, value, fd)
    <3>1. Request(request) /\ DOMAIN request.streams = C!Stream
      BY <1>1 DEF Serving, Request
    <3>2. request = [f \in Fields |-> request[f]]
      BY <3>1 DEF Request
    <3> DEFINE choice == StreamFor(value, fd)
    <3> HIDE DEF choice
    <3>3. /\ request' = [f \in Fields |-> request'[f]]
          /\ request'.message = request.message /\ request'.asked = request.asked
          /\ request'.ends = request.ends /\ request'.left = Tail(request.left)
          /\ request'.streams = [request.streams EXCEPT ![name] = choice]
      BY <2>5, <3>2 DEF Fields, choice
    <3>4. Tail(request.left) \in Seq(STRING \X STRING)
      BY <1>1, <3>1 DEF Request
    <3>5. \A s \in C!Stream : request'.streams[s] = IF s = name THEN choice ELSE request.streams[s]
      BY <3>1, <3>3
    <3>6. request'.streams = [s \in C!Stream |-> request'.streams[s]]
      BY <3>1, <3>3
    <3>7. Request(request')
      BY <3>1, <3>3, <3>4, <3>6 DEF Request
    <3> QED BY <3>3, <3>5, <3>7 DEF Takes, choice
  <2>8. Serving(request', standing, descriptors')
    <3>1. OptionOf(request, name, value)
      BY <1>1, <2>2, <2>3 DEF OptionOf
    <3> QED BY <1>1, <2>6, <2>7, <3>1, OptionServed
  <2>9. Place'
    BY <1>1, <1>4, <2>8 DEF Place
  <2> QED BY <1>1, <1>4, <2>9, BeforeFork DEF CInv
<1> QED BY <1>3, <1>4 DEF C!StreamValue

LEMMA PipeKeeps ==
  ASSUME C!ChildrenAssumption, CInv, C!Pipe
  PROVE  CInv'
<1> DEFINE r == C!Lowest(descriptors)
           reading == C!Opening(descriptors, r, <<"pipe", "read">>, FALSE)
           w == C!Lowest(reading)
<1>1. /\ step = "streams" /\ request.left = <<>> /\ request.ends = <<>> /\ Keeps(request)
      /\ processes = <<>> /\ Serving(request, standing, descriptors) /\ standing \subseteq 0 .. 2
  BY NamesAre DEF C!Pipe, CInv, Place, C!ChildrenAssumption
<1>2. CASE C!Refuse({})
  <2>1. EndsOf(request) = {}
    BY <1>1 DEF EndsOf, C!Range
  <2> QED BY <1>1, <1>2, <2>1, RefuseKeeps
<1>3. CASE /\ request' = [request EXCEPT !.ends = <<r, w>>]
           /\ descriptors' = C!Opening(reading, w, <<"pipe", "write">>, FALSE)
           /\ UNCHANGED <<standing, step, processes, pipe, output, status, short, written>>
  <2>1. IsFiniteSet(DOMAIN descriptors) /\ DOMAIN descriptors \subseteq Nat
    BY <1>1, HeldFinite DEF Serving
  <2>2. /\ r \in Nat \ DOMAIN descriptors
        /\ DOMAIN reading = DOMAIN descriptors \cup {r} /\ Holds(descriptors, reading)
        /\ reading[r] = End("read")
    <3> DEFINE kept == FALSE
               leads == <<"pipe", "read">>
               first == C!Lowest(descriptors)
    <3>1. reading = C!Opening(descriptors, first, leads, kept) /\ r = first
      OBVIOUS
    <3>2. End("read") = [to |-> leads, cloexec |-> kept]
      BY DEF End
    <3> HIDE DEF reading, kept, leads, r
    <3>3. /\ first \in Nat \ DOMAIN descriptors
          /\ DOMAIN C!Opening(descriptors, first, leads, kept) = DOMAIN descriptors \cup {first}
          /\ Holds(descriptors, C!Opening(descriptors, first, leads, kept))
          /\ C!Opening(descriptors, first, leads, kept)[first] = [to |-> leads, cloexec |-> kept]
      BY <2>1, OpenedIs
    <3> QED BY <3>1, <3>2, <3>3
  <2> HIDE DEF reading, r
  <2>3. IsFiniteSet(DOMAIN reading) /\ DOMAIN reading \subseteq Nat
    BY <2>1, <2>2, FS_AddElement
  <2>4. /\ w \in Nat \ DOMAIN reading
        /\ DOMAIN descriptors' = DOMAIN reading \cup {w} /\ Holds(reading, descriptors')
        /\ descriptors'[w] = End("write")
    <3> DEFINE kept == FALSE
               leads == <<"pipe", "write">>
               first == C!Lowest(reading)
    <3>1. descriptors' = C!Opening(reading, first, leads, kept) /\ w = first
      BY <1>3
    <3>2. End("write") = [to |-> leads, cloexec |-> kept]
      BY DEF End
    <3> HIDE DEF kept, leads, w
    <3>3. /\ first \in Nat \ DOMAIN reading
          /\ DOMAIN C!Opening(reading, first, leads, kept) = DOMAIN reading \cup {first}
          /\ Holds(reading, C!Opening(reading, first, leads, kept))
          /\ C!Opening(reading, first, leads, kept)[first] = [to |-> leads, cloexec |-> kept]
      BY <2>3, OpenedIs
    <3> QED BY <3>1, <3>2, <3>3
  <2> HIDE DEF w
  <2>5. /\ DOMAIN descriptors' = DOMAIN descriptors \cup {r, w} /\ Holds(descriptors, descriptors')
        /\ r # w /\ descriptors'[r] = End("read")
    BY <2>2, <2>4 DEF Holds
  <2>6. Pipes(request, request', r, w)
    <3>1. request = [f \in Fields |-> request[f]] /\ Request(request)
      BY <1>1 DEF Serving, Request
    <3> DEFINE ends == <<r, w>>
    <3> HIDE DEF ends
    <3>2. request' = [request EXCEPT !.ends = ends]
      BY <1>3 DEF ends
    <3>3. /\ request' = [f \in Fields |-> request'[f]]
          /\ request'.message = request.message /\ request'.asked = request.asked
          /\ request'.streams = request.streams /\ request'.left = request.left
          /\ request'.ends = ends
      BY <3>1, <3>2 DEF Fields
    <3>4. Request(request')
      BY <3>1, <3>3 DEF Request
    <3> QED BY <3>3, <3>4 DEF Pipes, ends
  <2>7. Serving(request', standing, descriptors')
    BY <1>1, <2>2, <2>4, <2>5, <2>6, PipeOpened
  <2>8. Place'
    BY <1>1, <1>3, <2>7 DEF Place
  <2> QED BY <1>1, <1>3, <2>8, BeforeFork DEF CInv
<1> QED BY <1>2, <1>3 DEF C!Pipe

LEMMA ForkKeeps ==
  ASSUME CInv, C!Fork
  PROVE  CInv'
<1>1. /\ step = "streams" /\ request.left = <<>> /\ (Keeps(request) => request.ends # <<>>)
      /\ processes = <<>> /\ Serving(request, standing, descriptors)
  BY NamesAre DEF C!Fork, CInv, Place
<1>2. CASE C!Refuse(C!Range(request.ends))
  BY <1>1, <1>2, RefuseKeeps, NamesAre
<1>3. CASE /\ processes' = <<[table |-> descriptors, state |-> "new"]>>
           /\ step' = "forked"
           /\ UNCHANGED <<standing, descriptors, request, pipe, output, status, short, written>>
  <2> DEFINE child == [table |-> descriptors, state |-> "new"]
  <2>1. Forked(request, standing, descriptors)
    <3>1. Served(request) = Len(request.asked)
      BY <1>1 DEF Serving, Request, Served
    <3> QED BY <1>1, <3>1 DEF Serving, Forked
  <2>2. child.table = descriptors /\ child.state = "new" /\ child = [table |-> child.table, state |-> child.state]
    OBVIOUS
  <2>3. Writes(descriptors) => Keeps(request)
    <3>1. SUFFICES ASSUME NEW m \in DOMAIN descriptors, descriptors[m].to = <<"pipe", "write">>, ~Keeps(request)
                   PROVE  FALSE
      BY DEF Writes
    <3>2. HeldBy(request, standing, Served(request), descriptors)
      BY <1>1 DEF Serving
    <3>3. EndsOf(request) = {}
      BY <3>1, <3>2, EndsAre DEF HeldBy
    <3>4. m \in standing \/ m \in OpenOf(request)
      BY <3>2, <3>3 DEF HeldBy
    <3>5. CASE m \in standing
      BY <3>1, <3>2, <3>5 DEF HeldBy, C!Own
    <3>6. CASE m \in OpenOf(request)
      <4>1. \E v \in Path \cup {"discard"} : descriptors[m] = File(v)
        BY <3>2, <3>6, OpenedAside
      <4> QED BY <3>1, <4>1 DEF File
    <3> QED BY <3>4, <3>5, <3>6
  <2> HIDE DEF child
  <2>4. Fine(request, standing, 1, child)
    BY <2>1, <2>2, <2>3 DEF Fine
  <2>5. processes' = <<child>> /\ processes' # <<>> /\ DOMAIN processes' = {1} /\ processes'[1] = child
    BY <1>3 DEF child
  <2>6. Row(processes')
    <3>1. processes' \in Seq({child})
      BY <2>5
    <3> QED BY <3>1 DEF Row
  <2>7. Processes'
    BY <1>1, <1>3, <2>2, <2>4, <2>5, <2>6 DEF CInv, Processes
  <2>8. Flow'
    BY <1>1, <1>3 DEF CInv, Flow
  <2>9. Place'
    BY <1>3, <2>1, <2>5 DEF Place
  <2> QED BY <1>3, <2>7, <2>8, <2>9 DEF CInv
<1> QED BY <1>2, <1>3 DEF C!Fork

-----------------------------------------------------------------------------
(* Steps of the child, and of what it leaves in the background             *)

LEMMA PlaceStays ==
  ASSUME Place, UNCHANGED <<standing, descriptors, request, step>>, processes # <<>>, processes' # <<>>
  PROVE  Place'
BY DEF Place

LEMMA OneMoves ==
  ASSUME Processes, NEW k \in DOMAIN processes, NEW p, processes' = [processes EXCEPT ![k] = p],
         UNCHANGED <<request, standing>>, Fine(request, standing, k, p),
         IF k = 1 THEN status' = -1 <=> p.state # "gone" ELSE status' = status,
         Writes(p.table) => Writes(processes[k].table)
  PROVE  Processes' /\ processes # <<>> /\ processes' # <<>> /\ (NoWriter(processes) => NoWriter(processes'))
<1>1. PICK S : processes \in Seq(S)
  BY DEF Processes, Row
<1>2. processes \in Seq(S \cup {p}) /\ DOMAIN processes = 1 .. Len(processes) /\ Len(processes) \in Nat
  BY <1>1
<1>3. processes' \in Seq(S \cup {p}) /\ DOMAIN processes' = DOMAIN processes
  BY <1>2
<1>4. \A j \in DOMAIN processes : processes'[j] = IF j = k THEN p ELSE processes[j]
  BY <1>2
<1>5. Row(processes')
  BY <1>3 DEF Row
<1>6. \A j \in DOMAIN processes' : Fine(request', standing', j, processes'[j])
  BY <1>3, <1>4 DEF Processes
<1>7. 1 \in DOMAIN processes /\ processes # <<>> /\ processes' # <<>>
  BY <1>2, <1>3
<1>8. status' = -1 <=> processes'[1].state # "gone"
  <2>1. CASE k = 1
    BY <1>4, <1>7, <2>1
  <2>2. CASE k # 1
    BY <1>4, <1>7, <2>2 DEF Processes
  <2> QED BY <2>1, <2>2
<1>9. NoWriter(processes) => NoWriter(processes')
  BY <1>3, <1>4 DEF NoWriter
<1> QED BY <1>5, <1>6, <1>7, <1>8, <1>9 DEF Processes

\* A process that moves and writes nothing.
LEMMA MovesKeep ==
  ASSUME CInv, Processes', processes # <<>>, processes' # <<>>, NoWriter(processes) => NoWriter(processes'),
         UNCHANGED <<standing, descriptors, request, step, pipe, output, short, written>>
  PROVE  CInv'
<1>1. Place'
  BY PlaceStays DEF CInv
<1>2. Flow'
  BY DEF CInv, Flow
<1> QED BY <1>1, <1>2 DEF CInv

LEMMA GoneIs ==
  ASSUME CInv, NEW k \in DOMAIN processes, NEW code \in Nat, C!Gone(k, code), UNCHANGED <<request, standing>>
  PROVE  Processes' /\ processes # <<>> /\ processes' # <<>> /\ (NoWriter(processes) => NoWriter(processes'))
<1> DEFINE closed == C!Closing(processes[k].table, DOMAIN processes[k].table)
           p == [table |-> closed, state |-> "gone"]
<1>1. DOMAIN closed = {}
  <2> DEFINE t == processes[k].table
             all == DOMAIN t
  <2>1. closed = C!Closing(t, all) /\ all = DOMAIN t
    OBVIOUS
  <2> HIDE DEF t, all, closed
  <2>2. DOMAIN C!Closing(t, all) = DOMAIN t \ all
    BY ClosingIs
  <2> QED BY <2>1, <2>2
<1> HIDE DEF closed
<1>2. p.table = closed /\ p.state = "gone" /\ p = [table |-> p.table, state |-> p.state]
  OBVIOUS
<1>3. processes' = [processes EXCEPT ![k] = p] /\ status' = IF k = 1 THEN code ELSE status
  BY DEF C!Gone, closed
<1> HIDE DEF p
<1>4. ~Writes(p.table)
  BY <1>1, <1>2 DEF Writes
<1>5. Fine(request, standing, k, p)
  BY <1>1, <1>2, <1>4 DEF Fine
<1>6. Processes /\ code # -1
  BY DEF CInv
<1> QED BY <1>2, <1>3, <1>4, <1>5, <1>6, OneMoves

LEMMA ExecKeeps ==
  ASSUME C!ChildrenAssumption, CInv, C!Exec
  PROVE  CInv'
<1>1. /\ processes # <<>> /\ processes[1].state = "new"
      /\ UNCHANGED <<standing, descriptors, request, step, pipe, output, short, written>>
  BY DEF C!Exec
<1>2. 1 \in DOMAIN processes
  <2>1. PICK S : processes \in Seq(S)
    BY DEF CInv, Processes, Row
  <2> QED BY <1>1, <2>1
<1>3. CASE C!Gone(1, 127)
  <2>1. 127 \in Nat
    OBVIOUS
  <2> QED BY <1>1, <1>2, <1>3, <2>1, GoneIs, MovesKeep
<1>4. CASE /\ processes' = [processes EXCEPT ![1] =
                LET table == C!ChildTable(@.table)
                IN [table |-> C!Closing(table, {n \in DOMAIN table : table[n].cloexec}), state |-> "runs"]]
           /\ UNCHANGED status
  <2> DEFINE old == processes[1].table
             table == Running(C!ChildTable(old))
             p == [table |-> table, state |-> "runs"]
  <2>1. processes' = [processes EXCEPT ![1] = p]
    BY <1>4 DEF Running
  <2>2. Fine(request, standing, 1, processes[1])
    BY <1>2 DEF CInv, Processes
  <2>3. Forked(request, standing, old)
    BY <1>1, <2>2 DEF Fine
  <2>4. PlacedAs(request, standing, table)
    BY <2>3, ChildIs
  <2>5. Writes(table) => Writes(old)
    BY ChildSpreads DEF Spreads, Writes
  <2>6. Writes(old) => Keeps(request)
    BY <2>2 DEF Fine
  <2> HIDE DEF table, old
  <2>7. p.table = table /\ p.state = "runs" /\ p = [table |-> p.table, state |-> p.state]
    OBVIOUS
  <2> HIDE DEF p
  <2>8. Fine(request, standing, 1, p)
    BY <2>4, <2>5, <2>6, <2>7 DEF Fine
  <2>9. Processes /\ status = -1 /\ status' = -1
    BY <1>1, <1>4 DEF CInv, Processes
  <2>10. Writes(p.table) => Writes(processes[1].table)
    BY <2>5, <2>7 DEF old
  <2>11. Processes' /\ processes' # <<>> /\ (NoWriter(processes) => NoWriter(processes'))
    BY <1>1, <1>2, <2>1, <2>7, <2>8, <2>9, <2>10, OneMoves
  <2> QED BY <1>1, <2>11, MovesKeep
<1> QED BY <1>3, <1>4 DEF C!Exec

LEMMA AppendIs ==
  ASSUME NEW S, NEW s \in Seq(S), NEW p \in S
  PROVE  /\ Append(s, p) \in Seq(S) /\ Len(Append(s, p)) = Len(s) + 1
         /\ \A i \in 1 .. Len(s) : Append(s, p)[i] = s[i]
         /\ Append(s, p)[Len(s) + 1] = p
<1>1. Append(s, p) \in Seq(S) /\ Len(Append(s, p)) = Len(s) + 1 /\ Append(s, p)[Len(s) + 1] = p
  BY AppendProperties
<1>2. \A i \in 1 .. Len(s) : Append(s, p)[i] = s[i]
  BY AppendProperties
<1> QED BY <1>1, <1>2

\* A sequence of one with a second one after it.
LEMMA TwoOf ==
  ASSUME NEW S, NEW s \in Seq(S), NEW p \in S
  PROVE  Len(s) = 1 /\ s[1] = p =>
           /\ Append(s, p) \in Seq(S) /\ Len(Append(s, p)) = 2
           /\ Append(s, p)[1] = p /\ Append(s, p)[2] = p
<1> DEFINE q == Append(s, p)
<1>1. q \in Seq(S) /\ Len(q) = Len(s) + 1 /\ (\A i \in 1 .. Len(s) : q[i] = s[i]) /\ q[Len(s) + 1] = p
  BY AppendIs
<1> HIDE DEF q
<1>2. ASSUME Len(s) = 1, s[1] = p PROVE q \in Seq(S) /\ Len(q) = 2 /\ q[1] = p /\ q[2] = p
  BY <1>1, <1>2
<1> QED BY <1>2 DEF q

LEMMA SpawnKeeps ==
  ASSUME CInv, C!Spawn
  PROVE  CInv'
<1> DEFINE p == processes[1]
<1>1. /\ Len(processes) = 1 /\ p.state = "runs" /\ processes' = Append(processes, p)
      /\ UNCHANGED <<standing, descriptors, request, step, pipe, output, status, short, written>>
  BY DEF C!Spawn
<1>2. PICK S : processes \in Seq(S)
  BY DEF CInv, Processes, Row
<1>3. DOMAIN processes = {1} /\ p \in S
  BY <1>1, <1>2
<1> HIDE DEF p
<1>4. /\ processes' \in Seq(S) /\ DOMAIN processes' = {1, 2} /\ processes'[1] = p /\ processes'[2] = p
      /\ processes # <<>> /\ processes' # <<>>
  <2>1. Len(processes) = 1 /\ processes[1] = p /\ processes' = Append(processes, p) /\ p \in S
    BY <1>1, <1>3 DEF p
  <2> DEFINE q == Append(processes, p)
  <2>8. q \in Seq(S) /\ Len(q) = 2 /\ q[2] = p /\ q[1] = p
    BY <1>2, <2>1, TwoOf
  <2> HIDE DEF q
  <2>2. processes' \in Seq(S) /\ Len(processes') = 2
    BY <2>1, <2>8 DEF q
  <2>3. processes'[1] = p
    BY <2>1, <2>8 DEF q
  <2>4. processes'[2] = p
    BY <2>1, <2>8 DEF q
  <2>5. DOMAIN processes' = 1 .. 2
    BY <2>2
  <2>6. 1 .. 2 = {1, 2}
    OBVIOUS
  <2>7. processes # <<>> /\ processes' # <<>>
    BY <2>1, <2>2
  <2> QED BY <2>2, <2>3, <2>4, <2>5, <2>6, <2>7
<1>5. Fine(request, standing, 1, p)
  BY <1>3 DEF CInv, Processes, p
<1>6. Fine(request, standing, 2, p)
  BY <1>1, <1>5 DEF Fine
<1>7. Processes'
  <2>1. Row(processes')
    BY <1>4 DEF Row
  <2>2. \A k \in DOMAIN processes' : Fine(request', standing', k, processes'[k])
    BY <1>1, <1>4, <1>5, <1>6
  <2>3. status' = -1 <=> processes'[1].state # "gone"
    BY <1>1, <1>4 DEF CInv, Processes, p
  <2> QED BY <1>4, <2>1, <2>2, <2>3 DEF Processes
<1>8. NoWriter(processes) => NoWriter(processes')
  BY <1>3, <1>4 DEF NoWriter, p
<1> QED BY <1>1, <1>4, <1>7, <1>8, MovesKeep

LEMMA BeginWriteKeeps ==
  ASSUME CInv, NEW k \in DOMAIN processes, C!BeginWrite(k)
  PROVE  CInv'
<1> DEFINE p == [processes[k] EXCEPT !.state = "writes"]
<1>1. /\ processes[k].state = "runs" /\ Writes(processes[k].table) /\ processes' = [processes EXCEPT ![k] = p]
      /\ UNCHANGED <<standing, descriptors, request, step, pipe, output, status, short, written>>
  BY NamesAre DEF C!BeginWrite
<1>2. Fine(request, standing, k, processes[k])
  BY DEF CInv, Processes
<1>3. p = [table |-> processes[k].table, state |-> "writes"]
  BY <1>2 DEF Fine
<1>4. p.table = processes[k].table /\ p.state = "writes"
  BY <1>3
<1> HIDE DEF p
<1>5. Fine(request, standing, k, p)
  BY <1>1, <1>2, <1>3, <1>4 DEF Fine
<1>6. processes # <<>> /\ Processes
  BY DEF CInv
<1>7. IF k = 1 THEN status' = -1 <=> p.state # "gone" ELSE status' = status
  BY <1>1, <1>4, <1>6 DEF Processes
<1>8. Processes' /\ processes' # <<>> /\ (NoWriter(processes) => NoWriter(processes'))
  BY <1>1, <1>4, <1>5, <1>6, <1>7, OneMoves
<1> QED BY <1>1, <1>6, <1>8, MovesKeep

LEMMA JoinIs ==
  ASSUME NEW s \in Seq(Nat), NEW t \in Seq(Nat)
  PROVE  /\ \A i \in 1 .. Len(s) : (s \o t)[i] = s[i]
         /\ \A i \in Len(s) + 1 .. Len(s) + Len(t) : (s \o t)[i] = t[i - Len(s)]
OBVIOUS

\* One more number after those up to n.
LEMMA OneLonger ==
  ASSUME NEW n \in Nat, NEW s \in Seq(Nat), NEW t \in Seq(Nat), s \o t = [i \in 1 .. n |-> i]
  PROVE  s \o Append(t, n + 1) = [i \in 1 .. n + 1 |-> i]
<1> DEFINE u == Append(t, n + 1)
           v == s \o u
           w == s \o t
<1>1. Len(w) = n /\ Len(s) \in Nat /\ Len(t) \in Nat
  OBVIOUS
<1>2. Len(s) + Len(t) = n
  BY <1>1
<1>3. /\ u \in Seq(Nat) /\ Len(u) = Len(t) + 1 /\ u[Len(t) + 1] = n + 1
      /\ \A i \in 1 .. Len(t) : u[i] = t[i]
  OBVIOUS
<1> HIDE DEF u
<1>4. v \in Seq(Nat) /\ Len(v) = n + 1 /\ DOMAIN v = 1 .. n + 1
  BY <1>1, <1>2, <1>3
<1>7. /\ \A i \in 1 .. Len(s) : w[i] = s[i]
      /\ \A i \in Len(s) + 1 .. Len(s) + Len(t) : w[i] = t[i - Len(s)]
  BY JoinIs
<1>8. \A i \in 1 .. n : w[i] = i
  OBVIOUS
<1> HIDE DEF w
<1>5. ASSUME NEW i \in 1 .. n + 1 PROVE v[i] = i
  <2>1. CASE i <= Len(s)
    <3>1. i \in 1 .. Len(s) /\ i \in 1 .. n
      BY <1>1, <1>2, <2>1
    <3>2. v[i] = s[i]
      BY <1>3, <3>1
    <3>3. w[i] = s[i]
      BY <1>7, <3>1
    <3>4. w[i] = i
      BY <1>8, <3>1
    <3> QED BY <3>2, <3>3, <3>4
  <2>2. CASE ~(i <= Len(s)) /\ i <= n
    <3>1. /\ i - Len(s) \in 1 .. Len(t) /\ i \in 1 .. n
          /\ i \in Len(s) + 1 .. Len(s) + Len(t) /\ i \in Len(s) + 1 .. Len(s) + Len(u)
      BY <1>1, <1>2, <1>3, <2>2
    <3>2. v[i] = u[i - Len(s)]
      BY <1>1, <1>3, <3>1
    <3>3. w[i] = t[i - Len(s)]
      BY <1>7, <3>1
    <3>4. w[i] = i
      BY <1>8, <3>1
    <3> QED BY <1>3, <3>1, <3>2, <3>3, <3>4
  <2>3. CASE i = n + 1
    <3>1. i \in Len(s) + 1 .. Len(s) + Len(u) /\ i - Len(s) = Len(t) + 1
      BY <1>1, <1>2, <1>3, <2>3
    <3>2. v[i] = u[i - Len(s)]
      BY <1>1, <1>3, <3>1
    <3> QED BY <1>3, <2>3, <3>1, <3>2
  <2>4. i \in Nat /\ (i <= n \/ i = n + 1)
    OBVIOUS
  <2> QED BY <2>1, <2>2, <2>3, <2>4
<1> HIDE DEF v
<1>6. v = [i \in 1 .. n + 1 |-> i]
  BY <1>4, <1>5
<1> QED BY <1>6 DEF u, v


LEMMA EndWriteKeeps ==
  ASSUME C!ChildrenAssumption, CInv, NEW k \in DOMAIN processes, C!EndWrite(k)
  PROVE  CInv'
<1>1. /\ processes[k].state = "writes"
      /\ UNCHANGED <<standing, descriptors, request, step, output, short>>
  BY DEF C!EndWrite
<1>2. Fine(request, standing, k, processes[k])
  BY DEF CInv, Processes
<1>3. Writes(processes[k].table) /\ Keeps(request)
  BY <1>1, <1>2 DEF Fine
<1>4. CASE C!Readers = {}
  <2>1. C!Gone(k, 128 + 13) /\ UNCHANGED <<pipe, written>>
    BY <1>4 DEF C!EndWrite
  <2>2. 128 + 13 \in Nat
    OBVIOUS
  <2>3. Processes' /\ processes # <<>> /\ processes' # <<>> /\ (NoWriter(processes) => NoWriter(processes'))
    BY <1>1, <2>1, <2>2, GoneIs
  <2> QED BY <1>1, <2>1, <2>3, MovesKeep
<1>5. CASE C!Readers # {}
  <2> DEFINE p == [processes[k] EXCEPT !.state = "runs"]
  <2>1. /\ written' = written + 1 /\ pipe' = Append(pipe, written + 1) /\ processes' = [processes EXCEPT ![k] = p]
        /\ UNCHANGED status
    BY <1>5 DEF C!EndWrite
  <2>2. p = [table |-> processes[k].table, state |-> "runs"]
    BY <1>2 DEF Fine
  <2>3. p.table = processes[k].table /\ p.state = "runs"
    BY <2>2
  <2> HIDE DEF p
  <2>4. Fine(request, standing, k, p)
    BY <1>1, <1>2, <2>2, <2>3 DEF Fine
  <2>5. processes # <<>> /\ Processes
    BY DEF CInv
  <2>6. IF k = 1 THEN status' = -1 <=> p.state # "gone" ELSE status' = status
    BY <1>1, <2>1, <2>3, <2>5 DEF Processes
  <2>7. Processes' /\ processes' # <<>>
    BY <1>1, <2>1, <2>3, <2>4, <2>5, <2>6, OneMoves
  <2>8. Flow'
    <3>1. /\ written \in Nat /\ output \in Seq(Nat) /\ pipe \in Seq(Nat)
          /\ output \o pipe = [i \in 1 .. written |-> i]
      BY DEF CInv, Flow
    <3>2. written' \in Nat /\ output' \in Seq(Nat) /\ pipe' \in Seq(Nat)
      BY <1>1, <2>1, <3>1
    <3>3. output' \o pipe' = [i \in 1 .. written' |-> i]
      BY <1>1, <2>1, <3>1, OneLonger
    <3>4. Keeps(request')
      BY <1>1, <1>3
    <3>5. ~NoWriter(processes)
      BY <1>3 DEF NoWriter
    <3>6. step' \in {"wait", "done"} => short'
      BY <1>1, <3>5 DEF CInv, Flow
    <3> QED BY <2>7, <3>2, <3>3, <3>4, <3>6 DEF Flow
  <2>9. Place'
    BY <1>1, <2>5, <2>7, PlaceStays DEF CInv
  <2> QED BY <1>1, <2>7, <2>8, <2>9 DEF CInv
<1> QED BY <1>4, <1>5

LEMMA ExitKeeps ==
  ASSUME CInv, NEW k \in DOMAIN processes, NEW code \in Nat, C!Exit(k, code)
  PROVE  CInv'
<1>1. /\ C!Gone(k, code)
      /\ UNCHANGED <<standing, descriptors, request, step, pipe, output, short, written>>
  BY DEF C!Exit
<1>2. Processes' /\ processes # <<>> /\ processes' # <<>> /\ (NoWriter(processes) => NoWriter(processes'))
  BY <1>1, GoneIs
<1> QED BY <1>1, <1>2, MovesKeep

-----------------------------------------------------------------------------
(* Steps of the program while there is a child                             *)

LEMMA CloseOursKeeps ==
  ASSUME CInv, C!CloseOurs
  PROVE  CInv'
<1>1. /\ step = "forked" /\ Forked(request, standing, descriptors) /\ processes # <<>>
      /\ UNCHANGED <<standing, request, processes, pipe, output, status, short, written>>
  BY DEF C!CloseOurs, CInv, Place
<1>2. HeldBy(request, standing, Len(request.asked), descriptors)
  BY <1>1 DEF Forked
<1>3. Processes'
  BY <1>1 DEF CInv, Processes
<1>4. CASE ~Keeps(request)
  <2>1. descriptors' = C!Closing(descriptors, OpenOf(request) \cup {}) /\ step' = "wait"
    BY <1>4, NamesAre DEF C!CloseOurs
  <2>2. EndsOf(request) = {}
    BY <1>2, <1>4, EndsAre DEF HeldBy
  <2>3. descriptors' = OwnOnly(standing)
    BY <1>2, <2>1, <2>2, GivenBack
  <2>4. NoWriter(processes)
    BY <1>4 DEF CInv, Processes, Fine, NoWriter
  <2>5. Flow'
    BY <1>1, <1>4, <2>1, <2>4 DEF CInv, Flow
  <2>6. Place'
    BY <1>1, <2>1, <2>3 DEF Place
  <2> QED BY <1>1, <1>3, <2>5, <2>6 DEF CInv
<1>5. CASE Keeps(request)
  <2>1. PICK r, w \in Nat : PipedAs(request, standing, descriptors, r, w)
    BY <1>1, <1>2, <1>5 DEF HeldBy, Piped, Forked
  <2>2. request.ends[1] = r /\ request.ends[2] = w
    BY <2>1 DEF PipedAs
  <2>3. EndsOf(request) = {r, w}
    BY <2>1 DEF PipedAs, EndsOf, C!Range
  <2> DEFINE ns == OpenOf(request) \cup {w}
  <2>4. descriptors' = C!Closing(descriptors, ns) /\ step' = "read"
    BY <1>5, <2>2, NamesAre DEF C!CloseOurs
  <2>5. \A fd \in OpenOf(request) : fd \notin standing
    BY <1>2, OpenedAside
  <2>6. DOMAIN descriptors \ ns = standing \cup {r}
    BY <1>2, <2>1, <2>3, <2>5 DEF HeldBy, PipedAs
  <2> HIDE DEF ns
  <2>7. /\ DOMAIN descriptors' = standing \cup {r}
        /\ \A m \in standing \cup {r} : descriptors'[m] = descriptors[m]
    <3> DEFINE t == C!Closing(descriptors, ns)
    <3>1. DOMAIN t = DOMAIN descriptors \ ns /\ \A m \in DOMAIN descriptors \ ns : t[m] = descriptors[m]
      BY ClosingIs
    <3>2. descriptors' = t
      BY <2>4
    <3> HIDE DEF t
    <3> QED BY <2>6, <3>1, <3>2
  <2>8. Reading(request, standing, descriptors')
    BY <1>2, <1>5, <2>1, <2>2, <2>7 DEF Reading, HeldBy, PipedAs
  <2>9. Flow'
    BY <1>1, <2>4 DEF CInv, Flow
  <2>10. Place'
    BY <1>1, <2>4, <2>8 DEF Place
  <2> QED BY <1>1, <1>3, <2>9, <2>10 DEF CInv
<1> QED BY <1>4, <1>5

LEMMA ReadKeeps ==
  ASSUME CInv, C!Read
  PROVE  CInv'
<1>1. /\ step = "read" /\ Reading(request, standing, descriptors) /\ processes # <<>>
      /\ UNCHANGED <<standing, request, processes, status, written>>
  BY DEF C!Read, CInv, Place
<1>2. Processes'
  BY <1>1 DEF CInv, Processes
<1>3. Flow
  BY DEF CInv
<1>4. C!StopReading => descriptors' = OwnOnly(standing) /\ step' = "wait"
  <2> DEFINE ns == {request.ends[1]}
             t == C!Closing(descriptors, ns)
  <2>1. DOMAIN descriptors \ ns = standing /\ \A m \in standing : descriptors[m] = C!Own(m)
    BY <1>1 DEF Reading
  <2>2. C!StopReading => descriptors' = t /\ step' = "wait"
    BY DEF C!StopReading
  <2> HIDE DEF ns
  <2>3. t = [m \in DOMAIN descriptors \ ns |-> descriptors[m]]
    BY ClosingIs
  <2> HIDE DEF t
  <2>4. t = [m \in standing |-> C!Own(m)]
    BY <2>1, <2>3
  <2> QED BY <2>2, <2>4 DEF OwnOnly
<1>5. CASE /\ pipe # <<>>
           /\ output' = output \o pipe /\ pipe' = <<>>
           /\ UNCHANGED <<descriptors, step, short>>
  <2>1. output \in Seq(Nat) /\ pipe \in Seq(Nat)
    BY <1>3 DEF Flow
  <2>2. output' \in Seq(Nat)
    BY <1>5, <2>1
  <2>3. output' \o <<>> = output'
    BY <2>2, ConcatEmptySeq
  <2>4. <<>> \in Seq(Nat)
    OBVIOUS
  <2>5. Flow'
    BY <1>1, <1>3, <1>5, <2>2, <2>3, <2>4 DEF Flow
  <2>6. Place'
    BY <1>1, <1>5 DEF Place
  <2> QED BY <1>1, <1>2, <2>5, <2>6 DEF CInv
<1>6. CASE C!Ended /\ C!StopReading /\ UNCHANGED <<output, pipe, short>>
  <2>1. pipe = <<>> /\ NoWriter(processes)
    BY <1>6, NamesAre DEF C!Ended, C!Writers, NoWriter
  <2>2. Flow'
    BY <1>1, <1>3, <1>6, <2>1 DEF Flow
  <2>3. Place'
    BY <1>1, <1>4, <1>6 DEF Place
  <2> QED BY <1>1, <1>2, <2>2, <2>3 DEF CInv
<1>7. CASE short' = TRUE /\ C!StopReading /\ UNCHANGED <<output, pipe>>
  <2>1. Flow'
    BY <1>1, <1>3, <1>7 DEF Flow
  <2>2. Place'
    BY <1>1, <1>4, <1>7 DEF Place
  <2> QED BY <1>1, <1>2, <2>1, <2>2 DEF CInv
<1> QED BY <1>5, <1>6, <1>7 DEF C!Read

LEMMA WaitKeeps ==
  ASSUME CInv, C!Wait
  PROVE  CInv'
<1>1. /\ step = "wait" /\ step' = "done" /\ descriptors = OwnOnly(standing)
      /\ UNCHANGED <<standing, descriptors, request, processes, pipe, output, status, short, written>>
  BY DEF C!Wait, CInv, Place
<1>2. Processes'
  BY <1>1 DEF CInv, Processes
<1>3. Flow'
  BY <1>1 DEF CInv, Flow
<1>4. Place'
  BY <1>1 DEF Place
<1> QED BY <1>1, <1>2, <1>3, <1>4 DEF CInv


LEMMA ChildrenStep ==
  ASSUME C!ChildrenAssumption, CInv, [C!Next]_(C!vars)
  PROVE  CInv'
<1>1. CASE UNCHANGED C!vars
  BY <1>1 DEF C!vars, CInv, Place, Processes, Flow
<1>2. ASSUME NEW message \in {"run", "capture"}, NEW options \in Requests, C!Call(message, options)
      PROVE  CInv'
  BY <1>2, CallKeeps
<1>3. CASE C!StreamValue
  BY <1>3, StreamValueKeeps
<1>4. CASE C!Pipe
  BY <1>4, PipeKeeps
<1>5. CASE C!Fork
  BY <1>5, ForkKeeps
<1>6. CASE C!Exec
  BY <1>6, ExecKeeps
<1>7. CASE C!Spawn
  BY <1>7, SpawnKeeps
<1>8. ASSUME NEW k \in DOMAIN processes, C!BeginWrite(k) \/ C!EndWrite(k) \/ C!Exit(k, 0) \/ C!Exit(k, 128 + 9)
      PROVE  CInv'
  <2>1. 0 \in Nat /\ 128 + 9 \in Nat
    OBVIOUS
  <2>2. CASE C!Exit(k, 0)
    BY <2>1, <2>2, ExitKeeps
  <2>3. CASE C!Exit(k, 128 + 9)
    BY <2>1, <2>3, ExitKeeps
  <2> QED BY <1>8, <2>2, <2>3, BeginWriteKeeps, EndWriteKeeps
<1>9. CASE C!CloseOurs
  BY <1>9, CloseOursKeeps
<1>10. CASE C!Read
  BY <1>10, ReadKeeps
<1>11. CASE C!Wait
  BY <1>11, WaitKeeps
<1> QED BY <1>1, <1>2, <1>3, <1>4, <1>5, <1>6, <1>7, <1>8, <1>9, <1>10, <1>11 DEF C!Next

-----------------------------------------------------------------------------
(* What follows from the invariant                                         *)

LEMMA DescriptorsAre == ASSUME CInv PROVE C!DescriptorsKept
<1>1. step \in {"idle", "done"} => descriptors = OwnOnly(standing)
  BY DEF CInv, Place
<1> QED BY <1>1 DEF C!DescriptorsKept, OwnOnly

LEMMA StreamsAre == ASSUME CInv PROVE C!StreamsGo
<1>1. \A name : C!Asked(name) = AskedOf(request, name)
  BY DEF C!Asked, AskedOf
<1>2. \A name : C!Goes(name) = GoesTo(request, name)
  <2> TAKE name
  <2> DEFINE any(S) == CHOOSE value \in S : TRUE
  <2>1. C!Goes(name) = IF C!Capturing /\ name = "stdout" THEN <<"pipe", "write">>
                     ELSE IF C!Asked(name) \subseteq {"share"} THEN <<"own", C!Number[name]>>
                     ELSE <<"file", any(C!Asked(name))>>
    BY DEF C!Goes
  <2>2. GoesTo(request, name) = IF Keeps(request) /\ name = "stdout" THEN <<"pipe", "write">>
                                ELSE IF AskedOf(request, name) \subseteq {"share"} THEN <<"own", C!Number[name]>>
                                ELSE <<"file", any(AskedOf(request, name))>>
    BY DEF GoesTo
  <2> HIDE DEF any
  <2>3. C!Asked(name) = AskedOf(request, name) /\ (C!Capturing <=> Keeps(request))
    BY <1>1, NamesAre
  <2> QED BY <2>1, <2>2, <2>3
<1>3. SUFFICES ASSUME standing = 0 .. 2, processes # <<>>, processes[1].state \in {"runs", "writes"}
               PROVE  LET table == processes[1].table IN
                      /\ DOMAIN table = 0 .. 2
                      /\ table[0].to = C!Goes("stdin") /\ table[1].to = C!Goes("stdout")
                      /\ table[2].to = IF C!Asked("stderr") = {"merge"} THEN table[1].to ELSE C!Goes("stderr")
  BY DEF C!StreamsGo
<1>4. 1 \in DOMAIN processes
  <2>1. PICK S : processes \in Seq(S)
    BY DEF CInv, Processes, Row
  <2> QED BY <1>3, <2>1
<1>5. PlacedAs(request, standing, processes[1].table)
  BY <1>3, <1>4 DEF CInv, Processes, Fine
<1> QED BY <1>1, <1>2, <1>3, <1>5 DEF PlacedAs

LEMMA OutputIs == ASSUME CInv PROVE C!OutputWhole
<1>1. SUFFICES ASSUME step = "done", ~short PROVE output = [i \in 1 .. written |-> i] /\ C!Writers = {}
  BY DEF C!OutputWhole
<1>2. pipe = <<>> /\ NoWriter(processes) /\ output \in Seq(Nat) /\ output \o pipe = [i \in 1 .. written |-> i]
  BY <1>1 DEF CInv, Flow
<1>3. output \o <<>> = output
  BY <1>2, ConcatEmptySeq
<1>4. C!Writers = {}
  BY <1>2, NamesAre DEF C!Writers, NoWriter
<1> QED BY <1>2, <1>3, <1>4

LEMMA SomeoneMoves == ASSUME C!ChildrenAssumption, CInv PROVE C!NoneForever
<1>1. CASE step = "read"
  <2>1. SUFFICES ASSUME pipe = <<>>, C!Writers # {}
                 PROVE  \E k \in DOMAIN processes : processes[k].state # "gone" /\ ~C!Blocked(k)
    BY <1>1 DEF C!NoneForever, C!Ended
  <2>2. PICK k \in DOMAIN processes : Writes(processes[k].table)
    BY <2>1, NamesAre DEF C!Writers
  <2>3. processes[k].state # "gone"
    BY <2>2 DEF CInv, Processes, Fine, Writes
  <2>4. ~(Len(pipe) >= PipeHolds)
    BY <2>1 DEF C!ChildrenAssumption
  <2> QED BY <2>3, <2>4 DEF C!Blocked
<1>2. CASE step = "wait" /\ status = -1
  <2>1. processes # <<>> /\ descriptors = OwnOnly(standing)
    BY <1>2 DEF CInv, Place
  <2>2. 1 \in DOMAIN processes
    <3>1. PICK S : processes \in Seq(S)
      BY DEF CInv, Processes, Row
    <3> QED BY <2>1, <3>1
  <2>3. processes[1].state # "gone"
    BY <1>2, <2>1 DEF CInv, Processes
  <2>4. C!Readers = {}
    BY <2>1 DEF C!Readers, OwnOnly, C!Own
  <2>5. ~C!Blocked(1)
    BY <2>4 DEF C!Blocked
  <2> QED BY <2>2, <2>3, <2>5 DEF C!NoneForever
<1> QED BY <1>1, <1>2 DEF C!NoneForever

\* Streams go where they were asked to, all output comes back, every descriptor is
\* as it was after a call, and nobody waits for ever (builtins.c:5597, 5840).
THEOREM ChildrenHold == C!Spec => []ChildrenServed
<1>1. C!ChildrenAssumption
  BY HostsAssumption DEF HostsAssumption
<1>2. C!Init => CInv
  BY <1>1, ChildrenStart
<1>3. CInv /\ [C!Next]_(C!vars) => CInv'
  BY <1>1, ChildrenStep
<1>4. CInv => ChildrenServed
  BY <1>1, DescriptorsAre, StreamsAre, OutputIs, SomeoneMoves DEF ChildrenServed, C!ChildrenServed
<1> QED BY <1>2, <1>3, <1>4, PTL DEF C!Spec

-----------------------------------------------------------------------------
(* History                                                                 *)

\* No entry is empty or follows itself.
Apart(items) ==
  /\ \A i \in 1 .. Len(items) : items[i] # Empty
  /\ \A i \in 1 .. Len(items) - 1 : items[i] # items[i + 1]

Entries == {items \in Seq(H!Text) : Apart(items)}

LEMMA AddedIs == ASSUME NEW items \in Entries, NEW entry \in H!Text PROVE H!Added(items, entry) \in Entries
<1> DEFINE more == Append(items, entry)
           n == Len(items)
<1>1. items \in Seq(H!Text) /\ Apart(items) /\ n \in Nat
  BY DEF Entries
<1>2. CASE entry = Empty \/ (items # <<>> /\ items[n] = entry)
  BY <1>2 DEF H!Added
<1>3. CASE ~(entry = Empty \/ (items # <<>> /\ items[n] = entry))
  <2>1. H!Added(items, entry) = more
    BY <1>3 DEF H!Added
  <2>2. more \in Seq(H!Text) /\ Len(more) = n + 1 /\ more[n + 1] = entry /\ \A i \in 1 .. n : more[i] = items[i]
    BY <1>1
  <2> HIDE DEF more
  <2>0. ASSUME NEW i \in 1 .. Len(more) PROVE more[i] # Empty
    BY <1>1, <1>3, <2>2 DEF Apart
  <2>3. ASSUME NEW i \in 1 .. Len(more) - 1 PROVE more[i] # more[i + 1]
    <3>0. i \in 1 .. n
      BY <1>1, <2>2
    <3>1. CASE i = n
      <4>1. items # <<>>
        BY <1>1, <3>0, <3>1
      <4> QED BY <1>3, <2>2, <3>0, <3>1, <4>1
    <3>2. CASE i # n
      <4>1. i \in 1 .. n - 1 /\ i + 1 \in 1 .. n
        BY <1>1, <3>0, <3>2
      <4>2. items[i] # items[i + 1]
        BY <1>1, <4>1 DEF Apart
      <4> QED BY <2>2, <3>0, <4>1, <4>2
    <3> QED BY <3>1, <3>2
  <2>4. more \in Entries
    BY <2>0, <2>2, <2>3 DEF Apart, Entries
  <2> QED BY <2>1, <2>4
<1> QED BY <1>2, <1>3

LEMMA NoneIs == <<>> \in Entries
<1>1. <<>> \in Seq(H!Text) /\ Len(<<>>) = 0
  OBVIOUS
<1> DEFINE none == <<>>
<1> HIDE DEF none
<1>2. none \in Seq(H!Text) /\ Len(none) = 0
  BY <1>1 DEF none
<1>3. none \in Entries
  BY <1>2 DEF Entries, Apart
<1> QED BY <1>3 DEF none

LEMMA PieceIs == ASSUME NEW entry \in H!Text PROVE H!Piece(entry) \in H!Text
BY DEF H!Piece, H!Text

\* The last line that is not empty is the last entry.
Latest(d, s) ==
  IF d = <<>> THEN \A q \in 1 .. Len(s) : s[q] = Empty
  ELSE \E p \in 1 .. Len(s) : /\ s[p] = d[Len(d)] /\ s[p] # Empty
                             /\ \A q \in p + 1 .. Len(s) : s[q] \in {Empty, s[p]}

\* The entries d are what is remembered of the lines s.
Recalls(d, s) ==
  /\ d \in Entries /\ s \in Seq(H!Text)
  /\ Len(d) = Cardinality(H!Remembered(s))
  /\ \A i \in H!Remembered(s) : d[H!Place(s, i)] = s[i]
  /\ Latest(d, s)

\* What History counts with is what the theorems about finite sets count with.
LEMMA SameCount == ASSUME NEW S PROVE H!Cardinality(S) = Cardinality(S)
BY DEF H!Cardinality, Cardinality

\* Places are numbers up to how many are remembered.
LEMMA PlaceIs ==
  ASSUME NEW s \in Seq(H!Text)
  PROVE  /\ IsFiniteSet(H!Remembered(s)) /\ Cardinality(H!Remembered(s)) \in Nat
         /\ \A i \in H!Remembered(s) : /\ H!Place(s, i) \in 1 .. Cardinality(H!Remembered(s))
                                      /\ i \in 1 .. Len(s) /\ s[i] # Empty
<1> DEFINE R == H!Remembered(s)
<1>1. R \in SUBSET (1 .. Len(s)) /\ Len(s) \in Nat /\ \A i \in R : s[i] # Empty
  BY DEF H!Remembered
<1>2. IsFiniteSet(R)
  <2> HIDE DEF R
  <2>1. IsFiniteSet(1 .. Len(s))
    BY <1>1, FS_Interval
  <2> QED BY <1>1, <2>1, FS_Subset
<1>3. ASSUME NEW i \in R PROVE H!Place(s, i) \in 1 .. Cardinality(R)
  <2> DEFINE B == {j \in R : j <= i}
  <2>1. H!Place(s, i) = Cardinality(B) /\ B \in SUBSET R /\ i \in B
    <3>1. H!Place(s, i) = Cardinality(B)
      BY SameCount DEF H!Place
    <3> HIDE DEF R
    <3> QED BY <1>1, <3>1
  <2> HIDE DEF B, R
  <2>2. IsFiniteSet(B) /\ Cardinality(B) <= Cardinality(R)
    BY <1>2, <2>1, FS_Subset
  <2>3. Cardinality(B) # 0
    BY <2>1, <2>2, FS_EmptySet
  <2> QED BY <1>2, <2>1, <2>2, <2>3, FS_CardinalityType
<1> HIDE DEF R
<1>4. Cardinality(R) \in Nat
  BY <1>2, FS_CardinalityType
<1> QED BY <1>1, <1>2, <1>3, <1>4 DEF R

LEMMA RecallsNone == ASSUME NEW d \in Entries, NEW s \in Seq(H!Text), Len(d) = 0, Len(s) = 0 PROVE Recalls(d, s)
<1>1. d \in Seq(H!Text) /\ d = <<>>
  BY DEF Entries
<1>2. H!Remembered(s) = {}
  BY DEF H!Remembered
<1>3. Cardinality(H!Remembered(s)) = 0
  BY <1>2, FS_EmptySet
<1>4. Latest(d, s)
  BY <1>1 DEF Latest
<1> QED BY <1>1, <1>2, <1>3, <1>4 DEF Recalls

\* One line more.
LEMMA RecallsAdded ==
  ASSUME NEW d, NEW s, Recalls(d, s), NEW e \in H!Text, NEW t \in Seq(H!Text),
         Len(t) = Len(s) + 1, t[Len(t)] = e, \A i \in 1 .. Len(s) : t[i] = s[i]
  PROVE  Recalls(H!Added(d, e), t)
<1> DEFINE n == Len(s)
           R == H!Remembered(s)
           Q == H!Remembered(t)
           news == \A j \in 1 .. n : s[j] = e => \E k \in j + 1 .. n : s[k] \notin {Empty, e}
<1>1. /\ d \in Entries /\ s \in Seq(H!Text) /\ n \in Nat /\ Len(d) \in Nat /\ d \in Seq(H!Text)
      /\ Len(d) = Cardinality(R) /\ \A i \in R : d[H!Place(s, i)] = s[i]
  BY DEF Recalls, Entries
<1>2. \A i \in 1 .. n : i \in Q <=> i \in R
  <2> TAKE i \in 1 .. n
  <2>1. \A j \in 1 .. i - 1 : j \in 1 .. n /\ \A k \in j + 1 .. i - 1 : k \in 1 .. n
    BY <1>1
  <2>2. i \in DOMAIN s /\ i \in DOMAIN t
    BY <1>1
  <2> QED BY <2>1, <2>2 DEF H!Remembered
<1>3. n + 1 \in Q <=> (e # Empty /\ news)
  <2>1. n + 1 \in DOMAIN t /\ t[n + 1] = e
    BY <1>1
  <2>2. n + 1 - 1 = n /\ \A j \in 1 .. n : t[j] = s[j] /\ \A k \in j + 1 .. n : t[k] = s[k]
    BY <1>1
  <2>3. n + 1 \in Q <=> /\ e # Empty
                        /\ \A j \in 1 .. n + 1 - 1 : t[j] = e =>
                             \E k \in j + 1 .. n + 1 - 1 : t[k] \notin {Empty, e}
    BY <2>1 DEF H!Remembered
  <2> HIDE DEF Q
  <2> QED BY <2>2, <2>3
<1>4. R \in SUBSET (1 .. n) /\ Q \in SUBSET (1 .. n + 1)
  BY <1>1 DEF H!Remembered
<1>5. Latest(d, s)
  BY DEF Recalls
<1>6. (e # Empty /\ news) <=> ~(e = Empty \/ (d # <<>> /\ d[Len(d)] = e))
  <2>1. CASE d = <<>>
    <3>1. \A q \in 1 .. n : s[q] = Empty
      BY <1>5, <2>1 DEF Latest
    <3> QED BY <2>1, <3>1
  <2>2. CASE d # <<>>
    <3>1. PICK p \in 1 .. n : s[p] = d[Len(d)] /\ s[p] # Empty /\ \A q \in p + 1 .. n : s[q] \in {Empty, s[p]}
      BY <1>5, <2>2 DEF Latest
    <3>2. CASE s[p] = e
      BY <2>2, <3>1, <3>2
    <3>3. CASE s[p] # e /\ e # Empty
      <4>1. ASSUME NEW j \in 1 .. n, s[j] = e PROVE p \in j + 1 .. n /\ s[p] \notin {Empty, e}
        BY <1>1, <3>1, <3>3, <4>1
      <4> QED BY <2>2, <3>1, <3>3, <4>1
    <3>4. CASE e = Empty
      BY <3>4
    <3> QED BY <3>2, <3>3, <3>4
  <2> QED BY <2>1, <2>2
<1> HIDE DEF news
<1>7. \A i \in R : H!Place(t, i) = H!Place(s, i)
  <2> TAKE i \in R
  <2>1. {j \in Q : j <= i} = {j \in R : j <= i}
    BY <1>1, <1>2, <1>4
  <2> HIDE DEF Q, R
  <2> QED BY <2>1 DEF H!Place, Q, R
<1>8. IsFiniteSet(R) /\ IsFiniteSet(Q) /\ Cardinality(R) \in Nat
  BY <1>1, PlaceIs
<1>9. CASE e = Empty \/ (d # <<>> /\ d[Len(d)] = e)
  <2>1. H!Added(d, e) = d
    BY <1>9 DEF H!Added
  <2>2. Q = R
    <3> HIDE DEF Q, R
    <3>1. n + 1 \notin Q
      BY <1>3, <1>6, <1>9
    <3>2. \A i : i \in 1 .. n + 1 <=> (i \in 1 .. n \/ i = n + 1)
      BY <1>1
    <3> QED BY <1>2, <1>4, <3>1, <3>2
  <2>3. Latest(d, t)
    <3>1. CASE d = <<>>
      BY <1>1, <1>5, <1>9, <3>1 DEF Latest
    <3>2. CASE d # <<>>
      <4>1. PICK p \in 1 .. n : s[p] = d[Len(d)] /\ s[p] # Empty /\ \A q \in p + 1 .. n : s[q] \in {Empty, s[p]}
        BY <1>5, <3>2 DEF Latest
      <4>2. \A q \in p + 1 .. n + 1 : t[q] \in {Empty, t[p]}
        BY <1>1, <1>9, <4>1
      <4> QED BY <1>1, <3>2, <4>1, <4>2 DEF Latest
    <3> QED BY <3>1, <3>2
  <2>4. \A i \in Q : d[H!Place(t, i)] = t[i]
    BY <1>1, <1>4, <1>7, <2>2
  <2> QED BY <1>1, <2>1, <2>2, <2>3, <2>4 DEF Recalls
<1>10. CASE ~(e = Empty \/ (d # <<>> /\ d[Len(d)] = e))
  <2> DEFINE m == Append(d, e)
  <2>1. H!Added(d, e) = m /\ m \in Entries
    BY <1>1, <1>10, AddedIs DEF H!Added
  <2>2. Len(m) = Len(d) + 1 /\ m[Len(m)] = e /\ m # <<>> /\ \A i \in 1 .. Len(d) : m[i] = d[i]
    <3>1. Len(m) = Len(d) + 1 /\ m[Len(m)] = e /\ \A i \in 1 .. Len(d) : m[i] = d[i]
      BY <1>1
    <3>2. m # <<>>
      BY <1>1
    <3> QED BY <3>1, <3>2
  <2> HIDE DEF m
  <2>3. n + 1 \in Q /\ n + 1 \notin R /\ Q = R \cup {n + 1}
    <3> HIDE DEF Q, R
    <3>1. n + 1 \in Q
      BY <1>3, <1>6, <1>10
    <3>2. \A i : i \in 1 .. n + 1 <=> (i \in 1 .. n \/ i = n + 1)
      BY <1>1
    <3>3. n + 1 \notin 1 .. n
      BY <1>1
    <3> QED BY <1>2, <1>4, <3>1, <3>2, <3>3
  <2>4. Cardinality(Q) = Cardinality(R) + 1
    <3> HIDE DEF Q, R
    <3> QED BY <1>8, <2>3, FS_AddElement
  <2>5. \A i \in Q : m[H!Place(t, i)] = t[i]
    <3> TAKE i \in Q
    <3>1. CASE i = n + 1
      <4>1. {j \in Q : j <= i} = Q
        <5> HIDE DEF Q
        <5> QED BY <1>1, <1>4, <3>1
      <4>2. H!Place(t, i) = Cardinality(Q)
        BY <4>1, SameCount DEF H!Place
      <4> HIDE DEF Q, R
      <4> QED BY <1>1, <2>2, <2>4, <3>1, <4>2
    <3>2. CASE i # n + 1
      <4>1. i \in R /\ i \in 1 .. n
        BY <1>4, <2>3, <3>2
      <4>2. H!Place(s, i) \in 1 .. Len(d)
        BY <1>1, <4>1, PlaceIs
      <4> HIDE DEF Q, R
      <4> QED BY <1>1, <1>7, <2>2, <4>1, <4>2
    <3> QED BY <3>1, <3>2
  <2>6. Latest(m, t)
    <3>1. n + 1 \in 1 .. Len(t) /\ \A q \in n + 1 + 1 .. Len(t) : FALSE
      BY <1>1
    <3> QED BY <1>10, <2>2, <3>1 DEF Latest
  <2> QED BY <1>1, <2>1, <2>2, <2>4, <2>5, <2>6 DEF Recalls
<1> QED BY <1>9, <1>10

\* Entries are all that is remembered of them.
LEMMA EntriesStay ==
  ASSUME NEW d \in Entries
  PROVE  /\ Cardinality(H!Remembered(d)) = Len(d) /\ \A i \in H!Remembered(d) : H!Place(d, i) = i
<1>1. d \in Seq(H!Text) /\ Len(d) \in Nat /\ Apart(d)
  BY DEF Entries
<1>2. H!Remembered(d) = 1 .. Len(d)
  <2>1. ASSUME NEW i \in 1 .. Len(d) PROVE i \in H!Remembered(d)
    <3>1. ASSUME NEW j \in 1 .. i - 1, d[j] = d[i]
          PROVE  i - 1 \in j + 1 .. i - 1 /\ d[i - 1] \notin {Empty, d[i]}
      <4>1. i - 1 \in 1 .. Len(d) - 1 /\ i - 1 \in 1 .. Len(d) /\ i - 1 + 1 = i
        BY <1>1
      <4>2. d[i - 1] # d[i] /\ d[i - 1] # Empty
        BY <1>1, <4>1 DEF Apart
      <4> QED BY <1>1, <3>1, <4>1, <4>2
    <3>2. d[i] # Empty /\ i \in DOMAIN d
      BY <1>1 DEF Apart
    <3> QED BY <3>1, <3>2 DEF H!Remembered
  <2> QED BY <1>1, <2>1 DEF H!Remembered
<1>3. ASSUME NEW i \in 1 .. Len(d) PROVE H!Place(d, i) = i
  <2>1. {j \in 1 .. Len(d) : j <= i} = 1 .. i
    BY <1>1
  <2>2. H!Place(d, i) = Cardinality(1 .. i)
    BY <1>2, <2>1, SameCount DEF H!Place
  <2> QED BY <2>2, FS_Interval
<1>4. Cardinality(1 .. Len(d)) = Len(d)
  BY <1>1, FS_Interval
<1> QED BY <1>2, <1>3, <1>4

\* What is read from a file is what is remembered of its lines, as they can be read.
LEMMA LoadedIs == ASSUME file \in Seq(H!Text) PROVE Recalls(H!Loaded, [i \in DOMAIN file |-> H!Piece(file[i])])
<1> DEFINE n == Len(file)
           S == Entries
           none == <<>>
           next(i, items) == IF i < n THEN H!Added(items, H!Piece(file[i + 1])) ELSE items
           move == [p \in Nat \X S |-> next(p[1], p[2])]
<1>1. n \in Nat
  OBVIOUS
<1>2. none \in S
  BY NoneIs
<1>3. ASSUME NEW i \in Nat, NEW items \in S PROVE next(i, items) \in S
  <2>1. CASE i < n
    <3>1. file[i + 1] \in H!Text
      BY <1>1, <2>1
    <3> QED BY <2>1, <3>1, PieceIs, AddedIs
  <2>2. CASE ~(i < n)
    BY <2>2
  <2> QED BY <2>1, <2>2
<1> HIDE DEF S, none, next
<1>4. move \in [Nat \X S -> S]
  BY <1>3
<1>5. PICK g \in [Nat -> S] : g[0] = none /\ \A i \in Nat : g[i + 1] = move[<<i, g[i]>>]
  <2> HIDE DEF move
  <2>1. \E g \in [Nat -> S] : IteratesBy(g, none, move)
    BY <1>2, <1>4, IteratedByIndex
  <2> QED BY <2>1 DEF IteratesBy
<1>6. \A i \in Nat : g[i + 1] = next(i, g[i])
  BY <1>5
<1> HIDE DEF move
<1> DEFINE body(f, i) == IF i = 0 THEN none ELSE H!Added(f[i - 1], H!Piece(file[i]))
           h == [i \in 0 .. n |-> g[i]]
<1>7. h = [i \in 0 .. n |-> body(h, i)]
  <2>1. ASSUME NEW i \in 0 .. n PROVE g[i] = body(h, i)
    <3>1. CASE i = 0
      BY <1>5, <3>1
    <3>2. CASE i # 0
      <4>1. i - 1 \in Nat /\ i - 1 \in 0 .. n /\ i - 1 + 1 = i /\ i - 1 < n
        BY <1>1, <3>2
      <4>2. h[i - 1] = g[i - 1]
        BY <4>1
      <4>3. g[i - 1 + 1] = next(i - 1, g[i - 1])
        BY <1>6, <4>1
      <4>4. next(i - 1, g[i - 1]) = H!Added(g[i - 1], H!Piece(file[i - 1 + 1]))
        BY <4>1 DEF next
      <4> QED BY <3>2, <4>1, <4>2, <4>3, <4>4
    <3> QED BY <3>1, <3>2
  <2> HIDE DEF body
  <2> QED BY <2>1
<1> HIDE DEF h
<1>8. H!Read = CHOOSE f : f = [i \in 0 .. n |-> body(f, i)]
  BY DEF H!Read, none
<1>9. H!Read = [i \in 0 .. n |-> body(H!Read, i)]
  <2> HIDE DEF body
  <2> QED BY <1>7, <1>8
<1>10. \A i \in 0 .. n : H!Read[i] = body(H!Read, i)
  <2> HIDE DEF body
  <2> QED BY <1>9
<1> DEFINE Part(i) == [j \in 1 .. i |-> H!Piece(file[j])]
           Known == {i \in Nat : i <= n => Recalls(H!Read[i], Part(i))}
<1>0. ASSUME NEW i \in Nat, i <= n PROVE Part(i) \in Seq(H!Text) /\ Len(Part(i)) = i
  <2>1. \A j \in 1 .. i : H!Piece(file[j]) \in H!Text
    <3> TAKE j \in 1 .. i
    <3>1. file[j] \in H!Text
      BY <1>0, <1>1
    <3> QED BY <3>1, PieceIs
  <2> QED BY <2>1
<1>11. 0 \in Known
  <2>1. H!Read[0] = none
    BY <1>1, <1>10
  <2>2. Part(0) \in Seq(H!Text) /\ Len(Part(0)) = 0
    BY <1>0, <1>1
  <2>3. none \in Entries /\ Len(none) = 0
    BY <1>2 DEF S, none
  <2> HIDE DEF Part
  <2> QED BY <2>1, <2>2, <2>3, RecallsNone
<1>12. ASSUME NEW i \in Nat, i \in Known PROVE i + 1 \in Known
  <2>1. SUFFICES ASSUME i + 1 <= n PROVE Recalls(H!Read[i + 1], Part(i + 1))
    OBVIOUS
  <2>2. i + 1 \in 0 .. n /\ i + 1 # 0 /\ i + 1 - 1 = i /\ i <= n /\ i + 1 \in Nat /\ i + 1 \in 1 .. n
    BY <1>1, <2>1
  <2>3. H!Read[i + 1] = H!Added(H!Read[i], H!Piece(file[i + 1]))
    BY <1>10, <2>2
  <2>4. Recalls(H!Read[i], Part(i))
    BY <1>12, <2>2
  <2>5. H!Piece(file[i + 1]) \in H!Text
    <3>1. file[i + 1] \in H!Text
      BY <2>2
    <3> QED BY <3>1, PieceIs
  <2>6. /\ Part(i + 1) \in Seq(H!Text) /\ Len(Part(i + 1)) = Len(Part(i)) + 1
        /\ Part(i + 1)[Len(Part(i + 1))] = H!Piece(file[i + 1])
        /\ \A j \in 1 .. Len(Part(i)) : Part(i + 1)[j] = Part(i)[j]
    BY <1>0, <2>2
  <2> HIDE DEF Part
  <2> QED BY <2>3, <2>4, <2>5, <2>6, RecallsAdded
<1> HIDE DEF body
<1>13. Known = Nat
  <2> HIDE DEF Known
  <2>1. Known \in SUBSET Nat
    BY DEF Known
  <2> QED BY <1>11, <1>12, <2>1, AllNumbers
<1>14. Recalls(H!Read[n], Part(n))
  BY <1>1, <1>13
<1>15. Part(n) = [i \in DOMAIN file |-> H!Piece(file[i])]
  BY <1>1
<1> QED BY <1>14, <1>15 DEF H!Loaded

-----------------------------------------------------------------------------
(* The invariant                                                           *)

Lines ==
  /\ history \in Entries /\ file \in Entries /\ Len(file) <= Limit /\ entered \in Seq(H!Text)
  /\ line \in H!Text \cup {H!Closed} /\ pending \in H!Text /\ own \in H!Text

\* The arrows are at an entry or at the bottom, which is where the line being typed
\* is, or where it is kept for.
Arrows ==
  /\ arrow \in 0 .. H!Bottom
  /\ line # H!Closed => IF arrow = H!Bottom THEN line = own ELSE pending = own

HInv == Lines /\ Arrows /\ (line # H!Closed => Recalls(history, entered)) /\ H!FileKept

\* A file of entries holds what is remembered of them.
LEMMA FileItself ==
  ASSUME H!HistoryAssumption, file' \in Entries, Len(file') <= Limit, entered' = file'
  PROVE  H!FileKept'
<1> DEFINE f == file'
<1>1. Cardinality(H!Remembered(f)) = Len(f) /\ Len(f) \in Nat /\ Len(f) <= Limit
      /\ \A i \in H!Remembered(f) : H!Place(f, i) = i /\ i \in 1 .. Len(f)
  <2>1. f \in Entries /\ f \in Seq(H!Text)
    BY DEF Entries
  <2> HIDE DEF f
  <2> QED BY <2>1, EntriesStay, PlaceIs DEF f
<1>2. /\ H!Remembered(entered)' = H!Remembered(f)
      /\ \A i \in H!Remembered(f) : H!Place(entered, i)' = H!Place(f, i)
  BY DEF H!Remembered, H!Place
<1> HIDE DEF f
<1>3. \A i \in H!Remembered(f) : f[H!Place(f, i) - 0] = f[i]
  BY <1>1
<1>4. Cardinality(H!Remembered(f)) - Len(f) = 0
  BY <1>1
<1> QED BY <1>1, <1>2, <1>3, <1>4, SameCount DEF H!FileKept, f

LEMMA HistoryStarts == ASSUME H!HistoryAssumption, H!Init PROVE HInv
<1>1. /\ history = <<>> /\ file = <<>> /\ entered = <<>> /\ line = H!Closed /\ arrow = 0
      /\ pending = Empty /\ own = Empty
  BY DEF H!Init
<1>2. Empty \in H!Text /\ <<>> \in Seq(H!Text) /\ Len(<<>>) = 0 /\ Limit \in Nat
  BY DEF H!Text, H!HistoryAssumption
<1>3. Lines
  BY <1>1, <1>2, NoneIs DEF Lines
<1>4. Arrows
  BY <1>1, <1>2 DEF Arrows, H!Bottom
<1>5. H!FileKept
  <2>1. Limit \in Nat /\ file \in Entries /\ file = <<>> /\ Len(file) = 0 /\ entered = file /\ file \in Seq(H!Text)
    BY <1>1, <1>2, NoneIs DEF H!HistoryAssumption
  <2>2. Cardinality(H!Remembered(file)) = 0 /\ \A i \in H!Remembered(file) : i \in 1 .. 0
    BY <2>1, EntriesStay, PlaceIs
  <2>3. Cardinality(H!Remembered(entered)) - Len(file) = 0 /\ H!Remembered(entered) = {}
    <3>1. H!Remembered(file) = {}
      BY <2>2
    <3> QED BY <2>1, <2>2, <3>1
  <2> QED BY <2>1, <2>3, SameCount DEF H!FileKept
<1> QED BY <1>1, <1>3, <1>4, <1>5 DEF HInv

\* Whatever the entries are that a new line is typed after.
LEMMA FreshKeeps ==
  ASSUME H!HistoryAssumption, HInv, NEW items \in Entries, H!Fresh(items), Recalls(items, entered'), UNCHANGED file
  PROVE  HInv'
<1>1. /\ history' = items /\ line' = Empty /\ arrow' = Len(items) /\ pending' = Empty /\ own' = Empty
  BY DEF H!Fresh
<1>2. Empty \in H!Text /\ items \in Seq(H!Text) /\ Len(items) \in Nat /\ Empty # H!Closed /\ entered' \in Seq(H!Text)
  BY DEF H!Text, Entries, H!HistoryAssumption, Recalls
<1>3. Lines'
  BY <1>1, <1>2 DEF Lines, HInv
<1>4. Arrows'
  BY <1>1, <1>2 DEF Arrows, H!Bottom
<1>5. H!FileKept'
  BY <1>1, <1>2 DEF H!FileKept
<1>6. Recalls(history, entered)'
  BY <1>1 DEF Recalls, Latest, H!Remembered, H!Place
<1> QED BY <1>1, <1>3, <1>4, <1>5, <1>6 DEF HInv

\* A session that ends, with these lines in the file.
LEMMA ClosingKeeps ==
  ASSUME H!HistoryAssumption, HInv, H!Closing, file' \in Entries, Len(file') <= Limit, entered' \in Seq(H!Text),
         H!FileKept'
  PROVE  HInv'
<1>1. history' = <<>> /\ line' = H!Closed /\ arrow' = 0 /\ pending' = Empty /\ own' = Empty
  BY DEF H!Closing
<1>2. Empty \in H!Text /\ Len(<<>>) = 0
  BY DEF H!Text
<1>3. Lines'
  BY <1>1, <1>2, NoneIs DEF Lines
<1>4. Arrows'
  BY <1>1, <1>2 DEF Arrows, H!Bottom
<1> QED BY <1>1, <1>3, <1>4 DEF HInv

\* The last entries are entries.
LEMMA SuffixIs ==
  ASSUME NEW items \in Entries, NEW k \in 0 .. Len(items), NEW s, s = SubSeq(items, k + 1, Len(items))
  PROVE  /\ s \in Entries /\ Len(s) = Len(items) - k
         /\ \A i \in 1 .. Len(s) : s[i] = items[k + i]
<1>1. items \in Seq(H!Text) /\ Apart(items) /\ Len(items) \in Nat /\ k \in Nat
  BY DEF Entries
<1>2. s \in Seq(H!Text) /\ Len(s) = Len(items) - k /\ \A i \in 1 .. Len(s) : s[i] = items[k + i]
  BY <1>1
<1>3. Apart(s)
  <2>1. ASSUME NEW i \in 1 .. Len(s) PROVE s[i] # Empty
    <3>1. k + i \in 1 .. Len(items)
      BY <1>1, <1>2
    <3> QED BY <1>1, <1>2, <3>1 DEF Apart
  <2>2. ASSUME NEW i \in 1 .. Len(s) - 1 PROVE s[i] # s[i + 1]
    <3>1. k + i \in 1 .. Len(items) - 1 /\ i \in 1 .. Len(s) /\ i + 1 \in 1 .. Len(s) /\ k + (i + 1) = k + i + 1
      BY <1>1, <1>2
    <3> QED BY <1>1, <1>2, <3>1 DEF Apart
  <2> QED BY <2>1, <2>2 DEF Apart
<1> QED BY <1>2, <1>3 DEF Entries

LEMMA EndKeeps == ASSUME H!HistoryAssumption, HInv, H!End PROVE HInv'
<1>1. line # H!Closed /\ H!Closing /\ Recalls(history, entered) /\ history \in Entries /\ file \in Entries
      /\ Len(file) <= Limit /\ entered \in Seq(H!Text) /\ history \in Seq(H!Text) /\ file \in Seq(H!Text)
  BY DEF H!End, HInv, Lines, Entries
<1>2. CASE history = <<>>
  <2>1. file' = file /\ entered' = file
    BY <1>2 DEF H!End
  <2> QED BY <1>1, <2>1, FileItself, ClosingKeeps
<1>3. CASE history # <<>>
  <2> DEFINE n == Len(history)
             k == IF n > Limit THEN n - Limit ELSE 0
  <2>1. file' = SubSeq(history, k + 1, n) /\ entered' = entered
    BY <1>1, <1>3 DEF H!End, H!Trimmed, H!Bottom
  <2>2. n \in Nat /\ Limit \in Nat
    BY <1>1 DEF H!HistoryAssumption
  <2>3. k \in 0 .. n /\ (k = 0 \/ n - k = Limit) /\ n - k <= Limit
    BY <2>2
  <2> HIDE DEF k
  <2>4. file' \in Entries /\ Len(file') = n - k /\ \A i \in 1 .. Len(file') : file'[i] = history[k + i]
    BY <1>1, <2>1, <2>3, SuffixIs
  <2>5. n = Cardinality(H!Remembered(entered)) /\ \A i \in H!Remembered(entered) : history[H!Place(entered, i)] = entered[i]
    BY <1>1 DEF Recalls
  <2>6. \A i \in H!Remembered(entered) : H!Place(entered, i) \in 1 .. n
    BY <1>1, <2>5, PlaceIs
  <2>7. /\ H!Remembered(entered)' = H!Remembered(entered)
        /\ \A i \in H!Remembered(entered) : H!Place(entered, i)' = H!Place(entered, i)
    BY <2>1 DEF H!Remembered, H!Place
  <2>8. n - Len(file') = k
    BY <2>2, <2>3, <2>4
  <2>9. \A i \in H!Remembered(entered) :
          H!Place(entered, i) > k => file'[H!Place(entered, i) - k] = entered[i]
    <3> TAKE i \in H!Remembered(entered)
    <3> DEFINE p == H!Place(entered, i)
    <3>1. p \in 1 .. n /\ history[p] = entered[i]
      BY <2>5, <2>6
    <3> HIDE DEF p
    <3>2. ASSUME p > k PROVE file'[p - k] = history[p]
      <4>1. p - k \in 1 .. Len(file') /\ k + (p - k) = p
        BY <2>2, <2>3, <2>4, <3>1, <3>2
      <4> QED BY <2>4, <4>1
    <3> QED BY <3>1, <3>2 DEF p
  <2>10. H!FileKept'
    <3>1. (H!Cardinality(H!Remembered(entered)) - Len(file))' = k
      BY <2>5, <2>7, <2>8, SameCount
    <3>2. k >= 0 /\ Len(file') <= Limit /\ (k = 0 \/ Len(file') = Limit)
      BY <2>2, <2>3, <2>4
    <3>3. \A i \in H!Remembered(entered)' :
            H!Place(entered, i)' > k => file'[H!Place(entered, i)' - k] = entered'[i]
      BY <2>1, <2>7, <2>9
    <3> QED BY <3>1, <3>2, <3>3 DEF H!FileKept
  <2> QED BY <1>1, <2>1, <2>3, <2>4, <2>10, ClosingKeeps
<1> QED BY <1>2, <1>3

LEMMA KillKeeps == ASSUME H!HistoryAssumption, HInv, H!Kill PROVE HInv'
<1>1. H!Closing /\ entered' = file /\ file' = file /\ file \in Entries /\ file \in Seq(H!Text) /\ Len(file) <= Limit
  BY DEF H!Kill, HInv, Lines, Entries
<1> QED BY <1>1, FileItself, ClosingKeeps

\* Neither of them changed.
LEMMA RecallsStill ==
  ASSUME Recalls(history, entered), UNCHANGED <<history, entered>> PROVE Recalls(history, entered)'
BY DEF Recalls, Latest, H!Remembered, H!Place

LEMMA EditKeeps == ASSUME H!HistoryAssumption, HInv, NEW text \in Entry \cup {Empty}, H!Edit(text) PROVE HInv'
<1>1. /\ line # H!Closed /\ line' = text /\ own' = (IF arrow = H!Bottom THEN text ELSE own)
      /\ UNCHANGED <<history, file, arrow, pending, entered>>
  BY DEF H!Edit
<1>2. text \in H!Text /\ text # H!Closed
  BY DEF H!Text, H!HistoryAssumption
<1>3. Lines'
  BY <1>1, <1>2 DEF HInv, Lines
<1>4. Arrows'
  BY <1>1, <1>2 DEF HInv, Arrows, H!Bottom
<1>5. H!FileKept'
  BY <1>1, <1>2 DEF H!FileKept
<1>6. Recalls(history, entered)'
  BY <1>1, RecallsStill DEF HInv
<1> QED BY <1>1, <1>3, <1>4, <1>5, <1>6 DEF HInv

LEMMA ArrowKeeps == ASSUME H!HistoryAssumption, HInv, NEW to \in 0 .. H!Bottom, H!Arrow(to) PROVE HInv'
<1>1. /\ line # H!Closed /\ pending' = (IF arrow = H!Bottom THEN line ELSE pending) /\ arrow' = to
      /\ line' = (IF to = H!Bottom THEN pending' ELSE history[to + 1])
      /\ UNCHANGED <<history, file, own, entered>>
  BY DEF H!Arrow, H!Kept
<1>2. pending' = own /\ own \in H!Text
  BY <1>1 DEF HInv, Arrows, Lines
<1>3. history \in Seq(H!Text) /\ H!Bottom = Len(history) /\ H!Bottom \in Nat
  BY DEF HInv, Lines, Entries, H!Bottom
<1>4. to # H!Bottom => history[to + 1] \in H!Text
  BY <1>3
<1>5. line' \in H!Text /\ line' # H!Closed
  BY <1>1, <1>2, <1>4 DEF H!HistoryAssumption
<1>6. Lines'
  BY <1>1, <1>2, <1>5 DEF HInv, Lines
<1>7. Arrows'
  BY <1>1, <1>2 DEF Arrows, H!Bottom
<1>8. H!FileKept'
  BY <1>5 DEF H!FileKept
<1>9. Recalls(history, entered)'
  BY <1>1, RecallsStill DEF HInv
<1> QED BY <1>1, <1>6, <1>7, <1>8, <1>9 DEF HInv

LEMMA HistoryStep == ASSUME H!HistoryAssumption, HInv, [H!Next]_(H!vars) PROVE HInv'
<1>1. CASE UNCHANGED H!vars
  <2>1. Lines' /\ Arrows'
    BY <1>1 DEF H!vars, HInv, Lines, Arrows, H!Bottom
  <2>2. H!FileKept'
    BY <1>1 DEF H!vars, HInv, H!FileKept, H!Remembered, H!Place
  <2>3. line' # H!Closed => Recalls(history, entered)'
    BY <1>1, RecallsStill DEF H!vars, HInv
  <2> QED BY <2>1, <2>2, <2>3 DEF HInv
<1>2. CASE H!Start
  <2> DEFINE lines == [i \in DOMAIN file |-> H!Piece(file[i])]
  <2>1. file \in Seq(H!Text)
    BY DEF HInv, Lines, Entries
  <2>2. Recalls(H!Loaded, lines)
    BY <2>1, LoadedIs
  <2>3. H!Fresh(H!Loaded) /\ entered' = lines /\ file' = file
    BY <1>2 DEF H!Start
  <2> HIDE DEF lines
  <2>4. H!Loaded \in Entries /\ Recalls(H!Loaded, entered')
    BY <2>2, <2>3 DEF Recalls
  <2> QED BY <2>3, <2>4, FreshKeeps
<1>3. CASE H!Up \/ H!Down
  <2>1. arrow \in 0 .. H!Bottom /\ H!Bottom \in Nat
    BY DEF HInv, Arrows, Lines, Entries, H!Bottom
  <2>2. (IF arrow > 0 THEN arrow - 1 ELSE 0) \in 0 .. H!Bottom
    BY <2>1
  <2>3. (IF arrow < H!Bottom THEN arrow + 1 ELSE arrow) \in 0 .. H!Bottom
    BY <2>1
  <2> QED BY <1>3, <2>2, <2>3, ArrowKeeps DEF H!Up, H!Down
<1>4. CASE H!Return
  <2> DEFINE items == H!Added(history, line)
             lines == Append(entered, line)
  <2>1. line \in H!Text /\ Recalls(history, entered) /\ entered \in Seq(H!Text)
    BY <1>4 DEF H!Return, HInv, Lines
  <2>2. /\ lines \in Seq(H!Text) /\ Len(lines) = Len(entered) + 1 /\ lines[Len(lines)] = line
        /\ \A i \in 1 .. Len(entered) : lines[i] = entered[i]
    BY <2>1
  <2>3. H!Fresh(items) /\ entered' = lines /\ file' = file
    BY <1>4 DEF H!Return
  <2> HIDE DEF lines
  <2>4. Recalls(items, lines)
    BY <2>1, <2>2, RecallsAdded
  <2> HIDE DEF items
  <2>5. items \in Entries /\ Recalls(items, entered')
    BY <2>3, <2>4 DEF Recalls
  <2> QED BY <2>3, <2>5, FreshKeeps
<1>5. CASE H!End
  BY <1>5, EndKeeps
<1>6. CASE H!Kill
  BY <1>6, KillKeeps
<1>7. ASSUME NEW text \in Entry \cup {Empty}, H!Edit(text) PROVE HInv'
  BY <1>7, EditKeeps
<1> QED BY <1>1, <1>2, <1>3, <1>4, <1>5, <1>6, <1>7 DEF H!Next

\* A line that is entered can be come back to, in its session and, if it is one of the
\* last and fits the buffer, in the next (line.c:65-79, 330, REFERENCE.md:175).
THEOREM HistoryHolds == H!Spec => []HistoryKept
<1>1. H!HistoryAssumption
  BY HostsAssumption DEF HostsAssumption
<1>2. H!Init => HInv
  BY <1>1, HistoryStarts
<1>3. HInv /\ [H!Next]_(H!vars) => HInv'
  BY <1>1, HistoryStep
<1>4. HInv => HistoryKept
  BY SameCount DEF HInv, Arrows, Recalls, HistoryKept, H!HistoryKept, H!LineComesBack, H!EntriesKept, H!Bottom
<1> QED BY <1>2, <1>3, <1>4, PTL DEF H!Spec

-----------------------------------------------------------------------------
(* Loading and Unwind are proved about in modules of their own.            *)
(* The instances here and the instances there are the same definitions of  *)
(* the same variables.                                                     *)

LP == INSTANCE LoadingProof
MP == INSTANCE UnwindProof WITH Wrap <- StepWrap

\* The two instances of Loading behave alike.
LEMMA SameLoading == (L!Spec => LP!Spec) /\ LP!LoadingAssumption
<1>1. L!Init <=> LP!Init
  BY DEF L!Init, LP!Init, L!Gone, LP!Gone, L!HostChunk, LP!HostChunk, L!HostBlock,
     LP!HostBlock, L!Chunk, LP!Chunk, L!NoSlot, LP!NoSlot
<1>2. L!Next <=> LP!Next
  BY DEF L!Next, LP!Next, L!NewMachine, LP!NewMachine, L!FreeMachine, LP!FreeMachine,
     L!Run, LP!Run, L!Ask, LP!Ask, L!File, LP!File, L!Recompile, LP!Recompile, L!Step,
     LP!Step, L!Gone, LP!Gone, L!Machine, LP!Machine, L!HostChunk, LP!HostChunk,
     L!Interned, LP!Interned, L!HostBlock, LP!HostBlock, L!Frame, LP!Frame, L!Read,
     LP!Read, L!Bind, LP!Bind, L!Load, LP!Load, L!Finish, LP!Finish, L!NoSlot,
     LP!NoSlot, L!Ready, LP!Ready, L!Statement, LP!Statement, L!Code, LP!Code,
     L!Resolved, LP!Resolved, L!This, LP!This, L!Past, LP!Past, L!Top, LP!Top,
     L!Unwinds, LP!Unwinds, L!Known, LP!Known, L!Refused, LP!Refused, L!TooDeep,
     LP!TooDeep, L!LoadFile, LP!LoadFile, L!Front, LP!Front, L!Current, LP!Current,
     L!Last, LP!Last, L!Trying, LP!Trying, L!Remembered, LP!Remembered, L!Chunk,
     LP!Chunk
<1>3. [L!Next]_(L!vars) <=> [LP!Next]_(LP!vars)
  BY <1>2 DEF L!vars, LP!vars
<1>4. LP!LoadingAssumption
  BY HostsAssumption DEF HostsAssumption, L!LoadingAssumption, LP!LoadingAssumption,
     L!Text, LP!Text, L!File, LP!File, L!Line, LP!Line
<1> QED BY <1>1, <1>3, <1>4, PTL DEF L!Spec, LP!Spec

\* However many machines of one host load whatever files, each runs a file once
\* at most (builtins.c:4998).
THEOREM LoadedHolds == L!Spec => []LoadedOnce
<1>1. LoadedOnce <=> LP!LoadedOnce
  BY DEF LoadedOnce, L!LoadedOnce, LP!LoadedOnce, L!Gone, LP!Gone, L!File, LP!File
<1> QED BY <1>1, SameLoading, LP!OnceLoaded, PTL

\* Unless the host asks a machine for what a chunk left there once another has run
\* it, a chunk that runs has its machine's names and slots (bytecode.h:144, 184).
THEOREM NamesHold == ~HostAsks => (L!Spec => []NamesOwn)
<1>1. NamesOwn <=> LP!NamesOwn
  BY DEF NamesOwn, L!NamesOwn, LP!NamesOwn, L!Code, LP!Code, L!NoSlot, LP!NoSlot
<1> SUFFICES ASSUME ~HostAsks PROVE L!Spec => []NamesOwn
  OBVIOUS
<1> QED BY <1>1, SameLoading, LP!OwnsNames, PTL

\* Each failure is in one place, beside the host's other parts as alone: limits of
\* memory, the renderer going on over a failure and stops that come over one
\* included; and no handler is given an exit (builtins.c:3697).
THEOREM FailuresAccountedFor == M!Spec => []FailuresAccounted
<1>1. M!Init <=> MP!Init
  BY DEF M!Init, MP!Init, M!NoText, MP!NoText, M!Start0, MP!Start0
<1>2. M!Next <=> MP!Next
  BY DEF M!Next, MP!Next, M!Start, MP!Start, M!Proceed, MP!Proceed, M!Waiting,
     MP!Waiting, M!Allocated, MP!Allocated, M!Fresh, MP!Fresh, M!Start0, MP!Start0,
     M!StepLimitReached, MP!StepLimitReached, M!Work, MP!Work, M!Fail, MP!Fail,
     M!Exit, MP!Exit, M!Return, MP!Return, M!CallPlain, MP!CallPlain, M!CallOnError,
     MP!CallOnError, M!CallEnsure, MP!CallEnsure, M!RunEnds, MP!RunEnds,
     M!PlainAnswered, MP!PlainAnswered, M!RenderingAnswered, MP!RenderingAnswered,
     M!FirstRefused, MP!FirstRefused, M!NextRefused, MP!NextRefused, M!Unasked, MP!Unasked,
     M!RenderNext, MP!RenderNext, M!Outranks, MP!Outranks, M!GuardedPasses,
     MP!GuardedPasses, M!GuardedFails, MP!GuardedFails, M!HandlerAnswered, MP!HandlerAnswered,
     M!EnsuredStopped, MP!EnsuredStopped, M!EnsuredFinished, MP!EnsuredFinished,
     M!EnsuredFailed, MP!EnsuredFailed, M!CleanupAnswered, MP!CleanupAnswered,
     M!AsideAnswered, MP!AsideAnswered, M!NothingSaved, MP!NothingSaved, M!Stopped,
     MP!Stopped, M!NoText, MP!NoText, M!history, MP!history, M!Instruction,
     MP!Instruction, M!EndInstruction, MP!EndInstruction, M!Ready, MP!Ready,
     M!RuntimeError, MP!RuntimeError, M!Exited, MP!Exited, M!Begin, MP!Begin,
     M!Answering, MP!Answering, M!Quiet, MP!Quiet, M!Resume, MP!Resume, M!CallNext,
     MP!CallNext, M!LetsPast, MP!LetsPast, M!InFlight, MP!InFlight, M!Caught,
     MP!Caught, M!CallRefused, MP!CallRefused, M!SetAside, MP!SetAside, M!Lifted,
     MP!Lifted, M!EnsureFails, MP!EnsureFails, M!Last, MP!Last, M!LimitText,
     MP!LimitText, M!AnswerOf, MP!AnswerOf, M!Front, MP!Front, M!PutBack, MP!PutBack,
     M!FailureOf, MP!FailureOf
<1>3. [M!Next]_(M!vars) <=> [MP!Next]_(MP!vars)
  BY <1>2 DEF M!vars, MP!vars, M!history, MP!history
<1>4. FailuresAccounted <=> MP!FailuresAccounted
  BY DEF FailuresAccounted, M!FailuresAccounted, MP!FailuresAccounted, M!InFlight,
     MP!InFlight, M!FailureOf, MP!FailureOf, M!Asides, MP!Asides, M!Cardinality,
     MP!Cardinality, M!LimitText, MP!LimitText
<1>5. MP!UnwindAssumption
  BY HostsAssumption DEF HostsAssumption, M!UnwindAssumption, MP!UnwindAssumption
<1> QED BY <1>1, <1>3, <1>4, <1>5, MP!StayAccounted, PTL DEF M!Spec
===============================================================================
