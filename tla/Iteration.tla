------------------------------- MODULE Iteration -------------------------------
(***************************************************************************)
(* Induction over numbers, for a set of them and not for an operator, and  *)
(* the function that iterates a step: what the proofs about recursive      *)
(* functions rest on.                                                      *)
(***************************************************************************)
EXTENDS Integers, WellFoundedInduction, TLAPS

\* A set of numbers that has one has a least one.
LEMMA Least ==
  ASSUME NEW T \in SUBSET Nat, T # {}
  PROVE  \E x \in T : \A y \in T : x <= y
<1>1. PICK x \in T : \A y \in T : <<y, x>> \notin OpToRel(<, Nat)
  BY NatLessThanWellFounded, WFMin
<1>2. \A y \in T : ~(y < x)
  BY <1>1 DEF OpToRel
<1> QED BY <1>2

\* A set of numbers that grows by one has them all.
LEMMA AllNumbers ==
  ASSUME NEW T \in SUBSET Nat, 0 \in T, \A n \in Nat : n \in T => n + 1 \in T
  PROVE  T = Nat
<1> SUFFICES ASSUME T # Nat PROVE FALSE
  OBVIOUS
<1> DEFINE U == Nat \ T
<1>1. PICK x \in U : \A y \in U : x <= y
  <2>1. U \in SUBSET Nat /\ U # {}
    OBVIOUS
  <2> HIDE DEF U
  <2> QED BY <2>1, Least
<1>2. x \in Nat /\ x # 0
  OBVIOUS
<1>3. x - 1 \in Nat /\ ~(x <= x - 1) /\ x - 1 + 1 = x
  BY <1>2
<1>4. x - 1 \in T
  BY <1>1, <1>3
<1>5. x \in T
  BY <1>3, <1>4
<1> QED BY <1>5

-----------------------------------------------------------------------------
(* Iterating a step                                                        *)

\* h is the first n steps from a, g all of them.
Begins(S, a, step, h, n) ==
  h \in [0 .. n -> S] /\ h[0] = a /\ \A m \in 0 .. n - 1 : h[m + 1] = step[h[m]]

Iterates(g, a, step) == g[0] = a /\ \A n \in Nat : g[n + 1] = step[g[n]]

\* A step that can always be taken can be taken over and over.
LEMMA Iterated ==
  ASSUME NEW S, NEW a \in S, NEW step \in [S -> S]
  PROVE  \E g \in [Nat -> S] : Iterates(g, a, step)
<1> DEFINE Begun(h, n) == Begins(S, a, step, h, n)
<1>1. \A n \in Nat : \E h : Begun(h, n)
  <2> DEFINE T == {n \in Nat : \E h : Begun(h, n)}
  <2>1. 0 \in T
    <3> DEFINE h == [m \in 0 .. 0 |-> a]
    <3>1. Begun(h, 0)
      BY DEF Begins
    <3> QED BY <3>1
  <2>2. ASSUME NEW n \in Nat, n \in T PROVE n + 1 \in T
    <3>1. PICK h : Begun(h, n)
      BY <2>2
    <3> DEFINE k == [m \in 0 .. n + 1 |-> IF m = n + 1 THEN step[h[n]] ELSE h[m]]
    <3>2. h \in [0 .. n -> S] /\ h[0] = a /\ \A m \in 0 .. n - 1 : h[m + 1] = step[h[m]]
      BY <3>1 DEF Begins
    <3>3. n \in 0 .. n /\ h[n] \in S /\ step[h[n]] \in S
      BY <3>2
    <3>4. k \in [0 .. n + 1 -> S]
      <4>1. ASSUME NEW m \in 0 .. n + 1 PROVE (IF m = n + 1 THEN step[h[n]] ELSE h[m]) \in S
        <5>1. CASE m = n + 1
          BY <3>3, <5>1
        <5>2. CASE m # n + 1
          <6>1. m \in 0 .. n
            BY <5>2
          <6> QED BY <3>2, <5>2, <6>1
        <5> QED BY <5>1, <5>2
      <4> QED BY <4>1
    <3>5. k[0] = a
      BY <3>2
    <3>6. ASSUME NEW m \in 0 .. (n + 1) - 1 PROVE k[m + 1] = step[k[m]]
      <4>1. m \in 0 .. n /\ m \in 0 .. n + 1 /\ m + 1 \in 0 .. n + 1 /\ m # n + 1
        OBVIOUS
      <4>2. k[m] = h[m] /\ k[m + 1] = IF m = n THEN step[h[n]] ELSE h[m + 1]
        BY <4>1
      <4>3. CASE m = n
        BY <4>2, <4>3
      <4>4. CASE m # n
        <5>1. m \in 0 .. n - 1
          BY <4>1, <4>4
        <5> QED BY <3>2, <4>2, <4>4, <5>1
      <4> QED BY <4>3, <4>4
    <3>7. Begun(k, n + 1)
      BY <3>4, <3>5, <3>6 DEF Begins
    <3> HIDE DEF k
    <3>8. n + 1 \in Nat
      OBVIOUS
    <3> QED BY <3>7, <3>8
  <2>3. T \in SUBSET Nat
    OBVIOUS
  <2> HIDE DEF T
  <2>4. T = Nat
    BY <2>1, <2>2, <2>3, AllNumbers
  <2> QED BY <2>4 DEF T
<1>2. ASSUME NEW n \in Nat, NEW h, NEW k, Begun(h, n), Begun(k, n + 1) PROVE h[n] = k[n]
  <2> DEFINE T == {m \in Nat : m <= n => h[m] = k[m]}
  <2>1. 0 \in T
    BY <1>2 DEF Begins
  <2>2. ASSUME NEW m \in Nat, m \in T PROVE m + 1 \in T
    <3> SUFFICES ASSUME m + 1 <= n PROVE h[m + 1] = k[m + 1]
      OBVIOUS
    <3>1. m \in 0 .. n - 1 /\ m \in 0 .. (n + 1) - 1 /\ m <= n
      OBVIOUS
    <3>2. h[m + 1] = step[h[m]] /\ k[m + 1] = step[k[m]]
      BY <1>2, <3>1 DEF Begins
    <3> QED BY <2>2, <3>1, <3>2
  <2>3. T \in SUBSET Nat
    OBVIOUS
  <2> HIDE DEF T
  <2>4. T = Nat
    BY <2>1, <2>2, <2>3, AllNumbers
  <2> QED BY <2>4 DEF T
<1> DEFINE at(n) == CHOOSE h : Begun(h, n)
           g == [n \in Nat |-> at(n)[n]]
<1>3. \A n \in Nat : Begun(at(n), n)
  BY <1>1
<1> HIDE DEF at
<1>4. g \in [Nat -> S]
  BY <1>3 DEF Begins
<1>5. g[0] = a
  BY <1>3 DEF Begins
<1>6. ASSUME NEW n \in Nat PROVE g[n + 1] = step[g[n]]
  <2>1. n \in 0 .. (n + 1) - 1 /\ n + 1 \in Nat
    OBVIOUS
  <2>2. at(n)[n] = at(n + 1)[n]
    BY <1>2, <1>3, <2>1
  <2>3. at(n + 1)[n + 1] = step[at(n + 1)[n]]
    BY <1>3, <2>1 DEF Begins
  <2> QED BY <2>1, <2>2, <2>3
<1> HIDE DEF g
<1> QED BY <1>4, <1>5, <1>6 DEF Iterates
\* g takes steps that depend on how many have been taken.
IteratesBy(g, a, step) == g[0] = a /\ \A n \in Nat : g[n + 1] = step[<<n, g[n]>>]

LEMMA IteratedByIndex ==
  ASSUME NEW S, NEW a \in S, NEW step \in [Nat \X S -> S]
  PROVE  \E g \in [Nat -> S] : IteratesBy(g, a, step)
<1> DEFINE P == Nat \X S
           both == [p \in P |-> <<p[1] + 1, step[<<p[1], p[2]>>]>>]
<1>1. <<0, a>> \in P /\ both \in [P -> P]
  OBVIOUS
<1>2. PICK h \in [Nat -> P] : h[0] = <<0, a>> /\ \A n \in Nat : h[n + 1] = both[h[n]]
  <2> HIDE DEF P, both
  <2>1. \E h \in [Nat -> P] : Iterates(h, <<0, a>>, both)
    BY <1>1, Iterated
  <2> QED BY <2>1 DEF Iterates
<1>3. \A n \in Nat : h[n] \in P /\ h[n + 1] = <<h[n][1] + 1, step[<<h[n][1], h[n][2]>>]>>
  BY <1>2
<1>4. \A n \in Nat : h[n][1] = n
  <2> DEFINE T == {n \in Nat : h[n][1] = n}
  <2>1. 0 \in T /\ T \in SUBSET Nat
    BY <1>2
  <2>2. \A n \in Nat : n \in T => n + 1 \in T
    BY <1>3
  <2> HIDE DEF T
  <2>3. T = Nat
    BY <2>1, <2>2, AllNumbers
  <2> QED BY <2>3 DEF T
<1> DEFINE g == [n \in Nat |-> h[n][2]]
<1>5. g \in [Nat -> S]
  BY <1>3
<1>6. g[0] = a
  BY <1>2
<1>7. \A n \in Nat : g[n + 1] = step[<<n, g[n]>>]
  BY <1>3, <1>4
<1> HIDE DEF g
<1> QED BY <1>5, <1>6, <1>7 DEF IteratesBy
===============================================================================
