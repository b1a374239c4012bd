--------------------------- MODULE ContainersProof ---------------------------
(***************************************************************************)
(* The table keeps its counters and the promise of a dictionary, for any   *)
(* keys, values and hashes, any number of walks and a table of any size;   *)
(* objects keep their index, their surface and what is private, for any    *)
(* names and lists, any number of objects and any growth refused; and      *)
(* walks, sorts and loops of an array answer of what they were given, for  *)
(* any elements and ranks, whatever their blocks do to it.                 *)
(***************************************************************************)
EXTENDS Containers, Iteration, FiniteSetTheorems, SequenceTheorems, TLAPS

\* What a seat holds.
Seat == {Empty, Gone} \cup [state : {"live"}, key : Key, value : Value]

\* The live seats of a table, and those under keys of Nan.
LiveAt(t) == {i \in DOMAIN t : t[i].state = "live"}
StraysAt(t) == {i \in LiveAt(t) : t[i].key \in Nan}

\* The probe for k comes to seat i, and meets no empty seat before it.
Way(t, k, i) ==
  \E d \in 0 .. Capacity(t) - 1 :
    Probe(t, k, d) = i /\ \A m \in 0 .. d - 1 : t[Probe(t, k, m)].state # "empty"

\* A table of n seats in which no key is twice, and probing comes to each.
Well(t, n) ==
  /\ n \in Nat /\ t \in [0 .. n - 1 -> Seat]
  /\ \A i, j \in LiveAt(t) : (t[i].key = t[j].key /\ t[i].key \notin Nan) => i = j
  /\ \A i \in LiveAt(t) : Way(t, t[i].key, i)

\* A probe for a key that is not there has somewhere to stop.
Room(t) == \E i \in DOMAIN t : t[i].state = "empty"

-----------------------------------------------------------------------------
(* Probing                                                                 *)

LEMMA Division ==
  ASSUME NEW n \in Nat \ {0}, NEW x \in Nat
  PROVE  x = n * (x \div n) + (x % n) /\ x % n \in 0 .. n - 1 /\ x \div n \in Nat
OBVIOUS

LEMMA Remainder ==
  ASSUME NEW n \in Nat \ {0}, NEW q \in Nat, NEW i \in 0 .. n - 1
  PROVE  (n * q + i) % n = i
OBVIOUS

LEMMA OneMore ==
  ASSUME NEW n \in Nat \ {0}, NEW q \in Nat, NEW i \in 0 .. n - 1
  PROVE  n * (q + 1) + i = n * q + n + i
OBVIOUS

\* n steps from anywhere lead to every remainder.
LEMMA StepsReachAll ==
  ASSUME NEW n \in Nat \ {0}, NEW x \in Nat, NEW i \in 0 .. n - 1
  PROVE  \E d \in 0 .. n - 1 : (x + d) % n = i
<1> DEFINE r == x % n
           q == x \div n
<1>1. x = n * q + r /\ r \in 0 .. n - 1 /\ q \in Nat
  BY Division
<1> HIDE DEF r, q
<1>2. n * q \in Nat
  BY <1>1
<1>3. CASE i >= r
  <2> DEFINE d == i - r
  <2>1. d \in 0 .. n - 1
    BY <1>1, <1>3
  <2>2. x + d = n * q + i
    BY <1>1, <1>2, <2>1
  <2>3. (x + d) % n = i
    BY <1>1, <2>2, Remainder
  <2> HIDE DEF d
  <2> QED BY <2>1, <2>3
<1>4. CASE i < r
  <2> DEFINE d == i - r + n
  <2>1. d \in 0 .. n - 1
    BY <1>1, <1>4
  <2>2. x + d = n * q + n + i
    BY <1>1, <1>2, <2>1
  <2>3. x + d = n * (q + 1) + i
    BY <1>1, <2>2, OneMore
  <2> HIDE DEF d
  <2>4. (x + d) % n = i
    BY <1>1, <2>3, Remainder
  <2> QED BY <2>1, <2>4
<1> QED BY <1>1, <1>3, <1>4

\* The number of seats.
LEMMA CapacityIs ==
  ASSUME NEW n \in Nat, NEW S, NEW t \in [0 .. n - 1 -> S]
  PROVE  Capacity(t) = n /\ DOMAIN t = 0 .. n - 1
<1>1. DOMAIN t = 0 .. n - 1
  OBVIOUS
<1>2. Cardinality(0 .. n - 1) = n
  BY FS_Interval
<1> QED BY <1>1, <1>2 DEF Capacity

\* A probe looks at seats, and at each of them sooner or later.
LEMMA ProbeSeats ==
  ASSUME NEW n \in Nat \ {0}, NEW t \in [0 .. n - 1 -> Seat], NEW k \in Key
  PROVE  /\ \A d \in Nat : Probe(t, k, d) \in 0 .. n - 1
         /\ \A i \in 0 .. n - 1 : \E d \in 0 .. n - 1 : Probe(t, k, d) = i
<1>1. Capacity(t) = n
  BY CapacityIs
<1>2. Hash[k] \in Nat
  BY DictAssumption
<1>3. \A d \in Nat : Hash[k] + d \in Nat /\ Probe(t, k, d) = (Hash[k] + d) % n
  BY <1>1, <1>2 DEF Probe
<1>4. \A d \in Nat : Probe(t, k, d) \in 0 .. n - 1
  BY <1>3, Division
<1>5. \A i \in 0 .. n - 1 : \E d \in 0 .. n - 1 : (Hash[k] + d) % n = i
  BY <1>2, StepsReachAll
<1> QED BY <1>3, <1>4, <1>5

\* The first number of a set is the one Min chooses.
LEMMA MinIsLeast ==
  ASSUME NEW T \in SUBSET Nat, T # {}
  PROVE  Min(T) \in T /\ \A y \in T : Min(T) <= y
BY Least DEF Min

\* The probe stops, at the first seat it can.
LEMMA StepsStop ==
  ASSUME NEW n, NEW t, Well(t, n), Room(t), NEW k \in Key
  PROVE  /\ n \in Nat \ {0} /\ Capacity(t) = n
         /\ Steps(t, k) \in 0 .. n - 1
         /\ StopsAt(t, k, Steps(t, k))
         /\ \A m \in 0 .. n - 1 : StopsAt(t, k, m) => Steps(t, k) <= m
<1>1. t \in [0 .. n - 1 -> Seat] /\ n \in Nat /\ n # 0
  BY DEF Well, Room
<1>2. Capacity(t) = n
  BY <1>1, CapacityIs
<1> DEFINE T == {m \in 0 .. n - 1 : StopsAt(t, k, m)}
<1>3. PICK i \in 0 .. n - 1 : t[i].state = "empty"
  BY <1>1 DEF Room
<1>4. PICK d \in 0 .. n - 1 : Probe(t, k, d) = i
  BY <1>1, ProbeSeats
<1>5. d \in T
  BY <1>3, <1>4 DEF StopsAt
<1>6. T \in SUBSET Nat /\ Steps(t, k) = Min(T)
  BY <1>2 DEF Steps
<1>7. \A m \in T : m \in 0 .. n - 1 /\ StopsAt(t, k, m)
  OBVIOUS
<1>8. \A m \in 0 .. n - 1 : StopsAt(t, k, m) => m \in T
  OBVIOUS
<1> HIDE DEF T
<1>9. Min(T) \in T /\ \A y \in T : Min(T) <= y
  BY <1>5, <1>6, MinIsLeast
<1> QED BY <1>1, <1>2, <1>6, <1>7, <1>8, <1>9

\* Where find_entry comes to: the seat of k if there is one, and otherwise a
\* seat k may be put in, which probing will come to again.
LEMMA EntryFound ==
  ASSUME NEW n, NEW t, Well(t, n), Room(t), NEW k \in Key
  PROVE  /\ FindEntry(t, k) \in 0 .. n - 1
         /\ Way(t, k, FindEntry(t, k))
         /\ \/ t[FindEntry(t, k)].state = "live" /\ t[FindEntry(t, k)].key = k /\ k \notin Nan
            \/ /\ t[FindEntry(t, k)].state # "live"
               /\ k \notin Nan => \A i \in LiveAt(t) : t[i].key # k
<1> DEFINE last == Steps(t, k)
           at(m) == Probe(t, k, m)
           gone == {m \in 0 .. last - 1 : t[at(m)].state = "gone"}
<1>1. /\ n \in Nat \ {0} /\ Capacity(t) = n /\ t \in [0 .. n - 1 -> Seat]
      /\ last \in 0 .. n - 1 /\ StopsAt(t, k, last)
      /\ \A m \in 0 .. n - 1 : StopsAt(t, k, m) => last <= m
  BY StepsStop DEF Well
<1>2. FindEntry(t, k) = IF t[at(last)].state = "live" \/ gone = {} THEN at(last) ELSE at(Min(gone))
  BY DEF FindEntry
<1>3. gone \in SUBSET Nat /\ \A m \in gone : m \in 0 .. last - 1 /\ t[at(m)].state = "gone"
  BY <1>1
<1>4. \A m \in Nat : at(m) \in 0 .. n - 1
  BY <1>1, ProbeSeats
<1> HIDE DEF last, at, gone
<1>5. \A m \in 0 .. n - 1 : StopsAt(t, k, m) <=>
         t[at(m)].state = "empty" \/ (t[at(m)].state = "live" /\ t[at(m)].key = k /\ k \notin Nan)
  BY DEF StopsAt, Equals, at
<1>6. \A m \in 0 .. last - 1 : m \in 0 .. n - 1 /\ t[at(m)].state # "empty"
  BY <1>1, <1>5
<1>7. \A d \in 0 .. last : Way(t, k, at(d))
  BY <1>1, <1>6 DEF Way, at
<1>8. CASE t[at(last)].state = "live"
  <2>1. FindEntry(t, k) = at(last)
    BY <1>2, <1>8
  <2>2. t[at(last)].key = k /\ k \notin Nan
    BY <1>1, <1>5, <1>8
  <2> QED BY <1>1, <1>4, <1>7, <1>8, <2>1, <2>2
<1>9. CASE t[at(last)].state # "live"
  <2>1. t[at(last)].state = "empty"
    BY <1>1, <1>5, <1>9
  <2>2. ASSUME k \notin Nan, NEW i \in LiveAt(t), t[i].key = k PROVE FALSE
    <3>1. Way(t, k, i)
      BY <2>2 DEF Well
    <3>2. PICK d \in 0 .. n - 1 :
             Probe(t, k, d) = i /\ \A m \in 0 .. d - 1 : t[Probe(t, k, m)].state # "empty"
      BY <1>1, <3>1 DEF Way
    <3>3. at(d) = i /\ t[i].state = "live" /\ \A m \in 0 .. d - 1 : t[at(m)].state # "empty"
      BY <3>2 DEF at, LiveAt
    <3>4. StopsAt(t, k, d)
      BY <1>5, <2>2, <3>3
    <3>5. last <= d
      BY <1>1, <3>4
    <3>6. last # d
      BY <1>9, <3>3
    <3>7. last \in 0 .. d - 1
      BY <1>1, <3>5, <3>6
    <3> QED BY <2>1, <3>3, <3>7
  <2>3. k \notin Nan => \A i \in LiveAt(t) : t[i].key # k
    BY <2>2
  <2>4. PICK d \in 0 .. last : FindEntry(t, k) = at(d) /\ t[at(d)].state # "live"
    <3>1. CASE gone = {}
      <4>1. last \in 0 .. last
        BY <1>1
      <4> QED BY <1>2, <1>9, <3>1, <4>1
    <3>2. CASE gone # {}
      <4>1. Min(gone) \in gone
        BY <1>3, <3>2, MinIsLeast
      <4>2. Min(gone) \in 0 .. last - 1 /\ t[at(Min(gone))].state = "gone"
        BY <1>3, <4>1
      <4>3. Min(gone) \in 0 .. last
        BY <1>1, <4>2
      <4>4. FindEntry(t, k) = at(Min(gone))
        BY <1>2, <1>9, <3>2
      <4> QED BY <4>2, <4>3, <4>4
    <3> QED BY <3>1, <3>2
  <2>5. at(d) \in 0 .. n - 1 /\ Way(t, k, at(d))
    BY <1>1, <1>4, <1>7
  <2> QED BY <2>3, <2>4, <2>5
<1> QED BY <1>8, <1>9
-----------------------------------------------------------------------------
(* One seat changed                                                        *)

GoneAt(t) == {i \in DOMAIN t : t[i].state = "gone"}

\* The table says v of k.
Binds(t, k, v) == \E i \in LiveAt(t) : t[i].key = k /\ t[i].value = v

\* No seat of u is empty that was not in t.
FillsNoLess(t, u) == \A i \in DOMAIN t : t[i].state # "empty" => u[i].state # "empty"

\* As long as no seat becomes empty, a probe gets as far as it did.
LEMMA WayStays ==
  ASSUME NEW n \in Nat, NEW t \in [0 .. n - 1 -> Seat], NEW u \in [0 .. n - 1 -> Seat],
         FillsNoLess(t, u)
  PROVE  \A k \in Key : \A i : Way(t, k, i) => Way(u, k, i)
<1> SUFFICES ASSUME NEW k \in Key, NEW i, Way(t, k, i) PROVE Way(u, k, i)
  OBVIOUS
<1>1. Capacity(t) = n /\ Capacity(u) = n
  BY CapacityIs
<1>2. \A m : Probe(u, k, m) = Probe(t, k, m)
  BY <1>1 DEF Probe
<1>3. PICK d \in 0 .. n - 1 :
         Probe(t, k, d) = i /\ \A m \in 0 .. d - 1 : t[Probe(t, k, m)].state # "empty"
  BY <1>1 DEF Way
<1>4. ASSUME NEW m \in 0 .. d - 1 PROVE u[Probe(u, k, m)].state # "empty"
  <2>1. n \in Nat \ {0} /\ m \in Nat
    OBVIOUS
  <2>2. Probe(t, k, m) \in 0 .. n - 1
    BY <2>1, ProbeSeats
  <2>3. t[Probe(t, k, m)].state # "empty"
    BY <1>3
  <2> QED BY <1>2, <2>2, <2>3 DEF FillsNoLess
<1> QED BY <1>1, <1>2, <1>3, <1>4 DEF Way

\* u is t with an entry for k in seat f: it says v of k, and of the others what
\* t does.
TakesIn(t, u, f, k, v) ==
  /\ LiveAt(u) = LiveAt(t) \cup {f}
  /\ GoneAt(u) = GoneAt(t) \ {f}
  /\ k \in Nan => StraysAt(u) = StraysAt(t) \cup {f} /\ f \notin LiveAt(t)
  /\ k \notin Nan => StraysAt(u) = StraysAt(t)
  /\ f \in LiveAt(t) => t[f].key = k
  /\ \A l \in Key \ Nan : \A w : Binds(u, l, w) <=> IF l = k THEN w = v ELSE Binds(t, l, w)

\* An entry put in the seat that was found for its key.
LEMMA EntryPut ==
  ASSUME NEW n, NEW t, Well(t, n), Room(t), NEW k \in Key, NEW v \in Value,
         NEW u, u = [t EXCEPT ![FindEntry(t, k)] = Live(k, v)]
  PROVE  Well(u, n) /\ TakesIn(t, u, FindEntry(t, k), k, v)
<1> DEFINE f == FindEntry(t, k)
<1>1. /\ f \in 0 .. n - 1 /\ Way(t, k, f)
      /\ \/ t[f].state = "live" /\ t[f].key = k /\ k \notin Nan
         \/ t[f].state # "live" /\ (k \notin Nan => \A i \in LiveAt(t) : t[i].key # k)
  BY EntryFound
<1>2. u = [t EXCEPT ![f] = Live(k, v)]
  OBVIOUS
<1> HIDE DEF f
<1>3. n \in Nat /\ t \in [0 .. n - 1 -> Seat] /\ DOMAIN t = 0 .. n - 1
  BY DEF Well
<1>4. Live(k, v) \in Seat /\ Live(k, v).state = "live" /\ Live(k, v).key = k /\ Live(k, v).value = v
  BY DEF Live, Seat
<1>5. /\ u \in [0 .. n - 1 -> Seat] /\ DOMAIN u = 0 .. n - 1
      /\ u[f].state = "live" /\ u[f].key = k /\ u[f].value = v
      /\ \A i \in 0 .. n - 1 : i # f => u[i] = t[i]
  BY <1>1, <1>2, <1>3, <1>4
<1>6. LiveAt(u) = LiveAt(t) \cup {f}
  BY <1>1, <1>3, <1>5 DEF LiveAt
<1>7. GoneAt(u) = GoneAt(t) \ {f}
  BY <1>1, <1>3, <1>5 DEF GoneAt
<1>8. \A i \in LiveAt(t) : i \in 0 .. n - 1 /\ (i # f => u[i] = t[i])
  BY <1>3, <1>5 DEF LiveAt
<1>9. \A i \in LiveAt(t) : t[i].key = k /\ k \notin Nan => i = f
  <2>1. CASE t[f].state = "live" /\ t[f].key = k /\ k \notin Nan
    <3>1. f \in LiveAt(t)
      BY <1>1, <1>3, <2>1 DEF LiveAt
    <3> QED BY <2>1, <3>1 DEF Well
  <2>2. CASE t[f].state # "live" /\ (k \notin Nan => \A i \in LiveAt(t) : t[i].key # k)
    BY <2>2
  <2> QED BY <1>1, <2>1, <2>2
<1>10. f \in LiveAt(t) => t[f].key = k /\ k \notin Nan
  BY <1>1 DEF LiveAt
<1>11. \A i, j \in LiveAt(u) : (u[i].key = u[j].key /\ u[i].key \notin Nan) => i = j
  <2> SUFFICES ASSUME NEW i \in LiveAt(u), NEW j \in LiveAt(u), u[i].key = u[j].key, u[i].key \notin Nan
               PROVE  i = j
    OBVIOUS
  <2>1. CASE i = f \/ j = f
    BY <1>5, <1>6, <1>8, <1>9, <2>1
  <2>2. CASE i # f /\ j # f
    BY <1>6, <1>8, <2>2 DEF Well
  <2> QED BY <2>1, <2>2
<1>12. \A i \in LiveAt(u) : Way(u, u[i].key, i)
  <2> SUFFICES ASSUME NEW i \in LiveAt(u) PROVE Way(u, u[i].key, i)
    OBVIOUS
  <2>0. FillsNoLess(t, u)
    BY <1>3, <1>5 DEF FillsNoLess
  <2>1. \A l \in Key : \A j : Way(t, l, j) => Way(u, l, j)
    BY <1>3, <1>5, <2>0, WayStays
  <2>2. CASE i = f
    <3>1. Way(u, k, f)
      BY <1>1, <2>1
    <3> QED BY <1>5, <2>2, <3>1
  <2>3. CASE i # f
    <3>1. i \in LiveAt(t) /\ u[i] = t[i]
      BY <1>6, <1>8, <2>3
    <3>2. t[i].key \in Key /\ Way(t, t[i].key, i)
      BY <1>3, <1>8, <3>1 DEF Well, LiveAt, Seat, Empty, Gone
    <3>3. Way(u, t[i].key, i)
      BY <2>1, <3>2
    <3> QED BY <3>1, <3>3
  <2> QED BY <2>2, <2>3
<1>13. Well(u, n)
  BY <1>3, <1>5, <1>11, <1>12 DEF Well
<1>14. k \in Nan => StraysAt(u) = StraysAt(t) \cup {f} /\ f \notin LiveAt(t)
  BY <1>5, <1>6, <1>8, <1>10 DEF StraysAt
<1>15. k \notin Nan => StraysAt(u) = StraysAt(t)
  BY <1>5, <1>6, <1>8, <1>10 DEF StraysAt
<1>16. ASSUME NEW l \in Key \ Nan, NEW w
       PROVE  Binds(u, l, w) <=> IF l = k THEN w = v ELSE Binds(t, l, w)
  <2>1. CASE l = k
    <3>1. \A i \in LiveAt(u) : u[i].key = l => i = f
      BY <1>6, <1>8, <1>9, <2>1
    <3> QED BY <1>5, <1>6, <2>1, <3>1 DEF Binds
  <2>2. CASE l # k
    <3>1. \A i \in LiveAt(u) : u[i].key = l => i \in LiveAt(t) /\ i # f
      BY <1>5, <1>6, <2>2
    <3>2. \A i \in LiveAt(t) : t[i].key = l => i \in LiveAt(u) /\ i # f
      BY <1>6, <1>10, <2>2
    <3> QED BY <1>8, <2>2, <3>1, <3>2 DEF Binds
  <2> QED BY <2>1, <2>2
<1>17. TakesIn(t, u, f, k, v)
  BY <1>6, <1>7, <1>10, <1>14, <1>15, <1>16 DEF TakesIn
<1> QED BY <1>13, <1>17 DEF f
\* An entry removed: the table no longer says anything of its key.
LEMMA EntryRemoved ==
  ASSUME NEW n, NEW t, Well(t, n), NEW f \in LiveAt(t), t[f].key \notin Nan,
         NEW u, u = [t EXCEPT ![f] = Gone]
  PROVE  /\ Well(u, n)
         /\ LiveAt(u) = LiveAt(t) \ {f}
         /\ GoneAt(u) = GoneAt(t) \cup {f}
         /\ StraysAt(u) = StraysAt(t)
         /\ \A l, w : Binds(u, l, w) <=> l # t[f].key /\ Binds(t, l, w)
<1>1. n \in Nat /\ t \in [0 .. n - 1 -> Seat] /\ DOMAIN t = 0 .. n - 1
  BY DEF Well
<1>2. f \in 0 .. n - 1 /\ t[f].state = "live"
  BY <1>1 DEF LiveAt
<1>3. Gone \in Seat /\ Gone.state = "gone"
  BY DEF Gone, Seat
<1>4. /\ u \in [0 .. n - 1 -> Seat] /\ DOMAIN u = 0 .. n - 1
      /\ u[f].state = "gone" /\ \A i \in 0 .. n - 1 : i # f => u[i] = t[i]
  BY <1>1, <1>2, <1>3
<1>5. LiveAt(u) = LiveAt(t) \ {f}
  BY <1>1, <1>4 DEF LiveAt
<1>6. GoneAt(u) = GoneAt(t) \cup {f}
  BY <1>1, <1>2, <1>4 DEF GoneAt
<1>7. \A i \in LiveAt(u) : i \in 0 .. n - 1 /\ i \in LiveAt(t) /\ u[i] = t[i] /\ t[i].key \in Key
  BY <1>1, <1>4, <1>5 DEF LiveAt, Seat, Empty, Gone
<1>8. StraysAt(u) = StraysAt(t)
  BY <1>5, <1>7 DEF StraysAt
<1>9. Well(u, n)
  <2>1. FillsNoLess(t, u)
    BY <1>1, <1>4 DEF FillsNoLess
  <2>2. \A l \in Key : \A j : Way(t, l, j) => Way(u, l, j)
    BY <1>1, <1>4, <2>1, WayStays
  <2>3. \A i \in LiveAt(u) : Way(u, u[i].key, i)
    BY <1>7, <2>2 DEF Well
  <2>4. \A i, j \in LiveAt(u) : (u[i].key = u[j].key /\ u[i].key \notin Nan) => i = j
    BY <1>7 DEF Well
  <2> QED BY <1>1, <1>4, <2>3, <2>4 DEF Well
<1>10. ASSUME NEW l, NEW w PROVE Binds(u, l, w) <=> l # t[f].key /\ Binds(t, l, w)
  <2>1. \A i \in LiveAt(u) : t[i].key # t[f].key
    BY <1>5, <1>7 DEF Well
  <2>2. \A i \in LiveAt(t) : t[i].key # t[f].key => i \in LiveAt(u)
    BY <1>5
  <2> QED BY <1>7, <2>1, <2>2 DEF Binds
<1> QED BY <1>5, <1>6, <1>8, <1>9, <1>10

-----------------------------------------------------------------------------
(* The table rebuilt                                                       *)

\* Rebuilt is what its definition says, seat by seat.
LEMMA RebuiltIs ==
  ASSUME NEW n, Well(entries, n)
  PROVE  /\ Rebuilt[0] = [i \in 0 .. NewCapacity - 1 |-> Empty]
         /\ \A i \in 0 .. n - 1 : Rebuilt[i + 1] = Placed(Rebuilt[i], entries[i])
<1>1. n \in Nat /\ entries \in [0 .. n - 1 -> Seat] /\ capacity = n
  BY CapacityIs DEF Well, capacity
<1> DEFINE S == [0 .. NewCapacity - 1 -> Seat]
           blank == [i \in 0 .. NewCapacity - 1 |-> Empty]
           next(i, t) == IF i < n THEN Placed(t, entries[i]) ELSE t
           step == [p \in Nat \X S |-> next(p[1], p[2])]
<1>2. blank \in S
  BY DEF Seat
<1>3. ASSUME NEW i \in Nat, NEW t \in S PROVE next(i, t) \in S
  <2>1. CASE i < n
    <3>1. entries[i] \in Seat
      BY <1>1, <2>1
    <3>2. \A e \in Seat : Placed(t, e) \in S
      BY DEF Placed
    <3> QED BY <2>1, <3>1, <3>2
  <2>2. CASE ~(i < n)
    BY <2>2
  <2> QED BY <2>1, <2>2
<1> HIDE DEF S, blank, next
<1>4. step \in [Nat \X S -> S]
  BY <1>3
<1>5. PICK g \in [Nat -> S] : g[0] = blank /\ \A i \in Nat : g[i + 1] = step[<<i, g[i]>>]
  <2> HIDE DEF step
  <2>1. \E g \in [Nat -> S] : IteratesBy(g, blank, step)
    BY <1>2, <1>4, IteratedByIndex
  <2> QED BY <2>1 DEF IteratesBy
<1>6. \A i \in Nat : g[i + 1] = next(i, g[i])
  BY <1>5
<1>7. \A i \in 0 .. n - 1 : g[i + 1] = Placed(g[i], entries[i])
  BY <1>1, <1>6 DEF next
<1> DEFINE h == [i \in 0 .. n |-> g[i]]
<1>8. h = [i \in 0 .. n |-> IF i = 0 THEN blank ELSE Placed(h[i - 1], entries[i - 1])]
  <2>1. ASSUME NEW i \in 0 .. n
        PROVE  g[i] = IF i = 0 THEN blank ELSE Placed(h[i - 1], entries[i - 1])
    <3>1. CASE i = 0
      BY <1>5, <3>1
    <3>2. CASE i # 0
      <4>1. i - 1 \in 0 .. n - 1 /\ i - 1 + 1 = i /\ i - 1 \in 0 .. n
        BY <1>1, <3>2
      <4>2. h[i - 1] = g[i - 1]
        BY <4>1
      <4>3. g[i] = Placed(g[i - 1], entries[i - 1])
        BY <1>7, <4>1
      <4> QED BY <3>2, <4>2, <4>3
    <3> QED BY <3>1, <3>2
  <2> QED BY <2>1
<1> HIDE DEF h
<1>9. Rebuilt = [i \in 0 .. n |-> IF i = 0 THEN blank ELSE Placed(Rebuilt[i - 1], entries[i - 1])]
  BY <1>1, <1>8 DEF Rebuilt, blank
<1>10. \A j \in 0 .. n : Rebuilt[j] = IF j = 0 THEN blank ELSE Placed(Rebuilt[j - 1], entries[j - 1])
  <2> DEFINE body(j) == IF j = 0 THEN blank ELSE Placed(Rebuilt[j - 1], entries[j - 1])
  <2>1. Rebuilt = [j \in 0 .. n |-> body(j)]
    BY <1>9
  <2> HIDE DEF body
  <2>2. \A j \in 0 .. n : Rebuilt[j] = body(j)
    BY <2>1
  <2> QED BY <2>2 DEF body
<1>11. Rebuilt[0] = blank
  BY <1>1, <1>10
<1>12. ASSUME NEW i \in 0 .. n - 1 PROVE Rebuilt[i + 1] = Placed(Rebuilt[i], entries[i])
  <2>1. i + 1 \in 0 .. n /\ i + 1 # 0 /\ i + 1 - 1 = i
    BY <1>1
  <2> QED BY <1>10, <2>1
<1> QED BY <1>11, <1>12 DEF blank
LEMMA SeatsFinite ==
  ASSUME NEW n, NEW t, Well(t, n)
  PROVE  /\ IsFiniteSet(LiveAt(t)) /\ IsFiniteSet(GoneAt(t)) /\ IsFiniteSet(StraysAt(t))
         /\ Cardinality(LiveAt(t)) \in Nat /\ Cardinality(GoneAt(t)) \in Nat
         /\ Cardinality(StraysAt(t)) \in Nat
<1>1. DOMAIN t = 0 .. n - 1 /\ n \in Nat
  BY DEF Well
<1>2. IsFiniteSet(0 .. n - 1)
  BY <1>1, FS_Interval
<1>3. LiveAt(t) \subseteq 0 .. n - 1 /\ GoneAt(t) \subseteq 0 .. n - 1 /\ StraysAt(t) \subseteq 0 .. n - 1
  BY <1>1 DEF LiveAt, GoneAt, StraysAt
<1>4. IsFiniteSet(LiveAt(t)) /\ IsFiniteSet(GoneAt(t)) /\ IsFiniteSet(StraysAt(t))
  BY <1>2, <1>3, FS_Subset
<1> QED BY <1>4, FS_CardinalityType

\* As long as fewer seats are taken than there are, one is empty.
LEMMA RoomLeft ==
  ASSUME NEW n, NEW t, Well(t, n), Cardinality(LiveAt(t)) + Cardinality(GoneAt(t)) < n
  PROVE  Room(t)
<1> SUFFICES ASSUME ~Room(t) PROVE FALSE
  OBVIOUS
<1> DEFINE L == LiveAt(t)
           G == GoneAt(t)
<1>1. DOMAIN t = 0 .. n - 1 /\ n \in Nat /\ t \in [0 .. n - 1 -> Seat]
  BY DEF Well
<1>2. \A i \in DOMAIN t : t[i].state \in {"live", "gone"}
  BY <1>1 DEF Room, Seat, Empty, Gone
<1>3. 0 .. n - 1 = L \cup G /\ L \cap G = {}
  BY <1>1, <1>2 DEF LiveAt, GoneAt
<1>4. IsFiniteSet(L) /\ IsFiniteSet(G) /\ Cardinality(L) \in Nat /\ Cardinality(G) \in Nat
  BY SeatsFinite
<1>5. Cardinality(0 .. n - 1) = n
  BY <1>1, FS_Interval
<1>6. Cardinality(L) + Cardinality(G) < n
  OBVIOUS
<1> HIDE DEF L, G
<1>7. Cardinality(L \cup G) = Cardinality(L) + Cardinality(G) - Cardinality(L \cap G)
  BY <1>4, FS_Union
<1>8. Cardinality(L \cap G) = 0
  BY <1>3, FS_EmptySet
<1>9. Cardinality(L \cup G) = n
  BY <1>3, <1>5
<1> QED BY <1>1, <1>4, <1>6, <1>7, <1>8, <1>9

\* The live entries among the first i seats, and what t must hold when they
\* have been moved to it.
UpTo(i) == {j \in LiveAt(entries) : j < i}
StraysUpTo(i) == {j \in UpTo(i) : entries[j].key \in Nan}
Moved(t, i) ==
  /\ Well(t, NewCapacity) /\ GoneAt(t) = {}
  /\ Cardinality(LiveAt(t)) = Cardinality(UpTo(i))
  /\ Cardinality(StraysAt(t)) = Cardinality(StraysUpTo(i))
  /\ \A l \in Key \ Nan : \A w : Binds(t, l, w) <=>
       \E j \in UpTo(i) : entries[j].key = l /\ entries[j].value = w

LEMMA UpToFinite ==
  ASSUME NEW n, Well(entries, n), NEW i \in 0 .. n
  PROVE  IsFiniteSet(UpTo(i)) /\ Cardinality(UpTo(i)) \in Nat /\ Cardinality(UpTo(i)) <= i
<1>1. n \in Nat /\ UpTo(i) \subseteq 0 .. i - 1
  BY DEF UpTo, LiveAt, Well
<1>2. IsFiniteSet(0 .. i - 1) /\ Cardinality(0 .. i - 1) = i
  BY FS_Interval
<1>3. IsFiniteSet(UpTo(i)) /\ Cardinality(UpTo(i)) <= i
  BY <1>1, <1>2, FS_Subset
<1> QED BY <1>3, FS_CardinalityType

LEMMA MovesOn ==
  ASSUME NEW n, Well(entries, n), n < NewCapacity, NewCapacity \in Nat,
         NEW i \in 0 .. n - 1, NEW t, Moved(t, i)
  PROVE  Moved(Placed(t, entries[i]), i + 1)
<1>1. n \in Nat /\ entries \in [0 .. n - 1 -> Seat] /\ i \in 0 .. n /\ DOMAIN entries = 0 .. n - 1
  BY DEF Well
<1>2. Well(t, NewCapacity) /\ GoneAt(t) = {}
  BY DEF Moved
<1>3. CASE entries[i].state # "live"
  <2>1. UpTo(i + 1) = UpTo(i) /\ StraysUpTo(i + 1) = StraysUpTo(i)
    BY <1>1, <1>3 DEF UpTo, LiveAt, StraysUpTo
  <2>2. Placed(t, entries[i]) = t
    BY <1>3 DEF Placed
  <2> QED BY <2>1, <2>2 DEF Moved
<1>4. CASE entries[i].state = "live"
  <2> DEFINE k == entries[i].key
             v == entries[i].value
             f == FindEntry(t, k)
             u == [t EXCEPT ![f] = Live(k, v)]
  <2>1. k \in Key /\ v \in Value /\ entries[i] = Live(k, v) /\ i \in LiveAt(entries)
    BY <1>1, <1>4 DEF Seat, Live, Empty, Gone, LiveAt
  <2>2. Placed(t, entries[i]) = u
    BY <1>4, <2>1 DEF Placed
  <2>3. UpTo(i + 1) = UpTo(i) \cup {i} /\ i \notin UpTo(i)
    BY <1>1, <2>1 DEF UpTo, LiveAt
  <2>4. Room(t)
    <3>1. Cardinality(GoneAt(t)) = 0
      BY <1>2, FS_EmptySet
    <3>2. Cardinality(LiveAt(t)) <= i /\ Cardinality(LiveAt(t)) \in Nat
      BY <1>1, UpToFinite DEF Moved
    <3>3. Cardinality(LiveAt(t)) + Cardinality(GoneAt(t)) < NewCapacity
      BY <1>1, <3>1, <3>2
    <3> QED BY <1>2, <3>3, RoomLeft
  <2> HIDE DEF u
  <2>5. /\ Well(u, NewCapacity)
        /\ LiveAt(u) = LiveAt(t) \cup {f}
        /\ GoneAt(u) = GoneAt(t) \ {f}
        /\ k \in Nan => StraysAt(u) = StraysAt(t) \cup {f} /\ f \notin LiveAt(t)
        /\ k \notin Nan => StraysAt(u) = StraysAt(t)
        /\ f \in LiveAt(t) => t[f].key = k
        /\ \A l \in Key \ Nan : \A w : Binds(u, l, w) <=> IF l = k THEN w = v ELSE Binds(t, l, w)
    <3>1. Well(u, NewCapacity) /\ TakesIn(t, u, f, k, v)
      BY <1>2, <2>1, <2>4, EntryPut DEF u
    <3> QED BY <3>1 DEF TakesIn
  <2> HIDE DEF f
  <2>6. k \notin Nan => \A j \in UpTo(i) : entries[j].key # k
    BY <2>1, <2>3 DEF UpTo, Well
  <2>7. f \notin LiveAt(t)
    <3> SUFFICES ASSUME f \in LiveAt(t) PROVE FALSE
      OBVIOUS
    <3>1. t[f].key = k /\ k \notin Nan
      BY <2>5
    <3>2. Binds(t, k, t[f].value)
      BY <3>1 DEF Binds
    <3>3. \E j \in UpTo(i) : entries[j].key = k
      BY <2>1, <3>1, <3>2 DEF Moved
    <3> QED BY <2>6, <3>1, <3>3
  <2> HIDE DEF k, v
  <2>8. /\ IsFiniteSet(LiveAt(t)) /\ IsFiniteSet(StraysAt(t)) /\ IsFiniteSet(UpTo(i))
        /\ StraysAt(t) \subseteq LiveAt(t)
    BY <1>1, <1>2, SeatsFinite, UpToFinite DEF StraysAt
  <2>9. Cardinality(LiveAt(u)) = Cardinality(UpTo(i + 1))
    <3>1. Cardinality(LiveAt(u)) = Cardinality(LiveAt(t)) + 1
      BY <2>5, <2>7, <2>8, FS_AddElement
    <3>2. Cardinality(UpTo(i + 1)) = Cardinality(UpTo(i)) + 1
      BY <2>3, <2>8, FS_AddElement
    <3> QED BY <3>1, <3>2 DEF Moved
  <2>10. Cardinality(StraysAt(u)) = Cardinality(StraysUpTo(i + 1))
    <3>1. Cardinality(StraysAt(t)) = Cardinality(StraysUpTo(i))
      BY DEF Moved
    <3>2. CASE k \in Nan
      <4>1. StraysUpTo(i + 1) = StraysUpTo(i) \cup {i} /\ i \notin StraysUpTo(i) /\ StraysUpTo(i) \in SUBSET UpTo(i)
        BY <2>3, <3>2 DEF k, StraysUpTo
      <4>2. IsFiniteSet(StraysUpTo(i))
        BY <2>8, <4>1, FS_Subset
      <4>3. Cardinality(StraysUpTo(i + 1)) = Cardinality(StraysUpTo(i)) + 1
        BY <4>1, <4>2, FS_AddElement
      <4>4. Cardinality(StraysAt(u)) = Cardinality(StraysAt(t)) + 1
        <5>1. StraysAt(u) = StraysAt(t) \cup {f} /\ f \notin StraysAt(t)
          BY <2>5, <2>7, <2>8, <3>2
        <5> QED BY <2>8, <5>1, FS_AddElement
      <4> QED BY <3>1, <4>3, <4>4
    <3>3. CASE k \notin Nan
      <4>1. StraysUpTo(i + 1) = StraysUpTo(i)
        BY <2>3, <3>3 DEF k, StraysUpTo
      <4> QED BY <2>5, <3>1, <3>3, <4>1
    <3> QED BY <3>2, <3>3
  <2>11. ASSUME NEW l \in Key \ Nan, NEW w
         PROVE  Binds(u, l, w) <=> \E j \in UpTo(i + 1) : entries[j].key = l /\ entries[j].value = w
    <3>1. Binds(u, l, w) <=> IF l = k THEN w = v ELSE Binds(t, l, w)
      BY <2>5
    <3>2. Binds(t, l, w) <=> \E j \in UpTo(i) : entries[j].key = l /\ entries[j].value = w
      BY DEF Moved
    <3>3. entries[i].key = k /\ entries[i].value = v
      BY DEF k, v
    <3> QED BY <2>3, <2>6, <3>1, <3>2, <3>3
  <2>12. GoneAt(u) = {}
    BY <1>2, <2>5
  <2> QED BY <2>2, <2>5, <2>9, <2>10, <2>11, <2>12 DEF Moved
<1> QED BY <1>3, <1>4
\* When every entry has been moved, the new table says what the old one did.
LEMMA GrownIs ==
  ASSUME NEW n, Well(entries, n), capacity < NewCapacity, NewCapacity \in Nat
  PROVE  /\ Well(Grown, NewCapacity) /\ GoneAt(Grown) = {}
         /\ Cardinality(LiveAt(Grown)) = Cardinality(LiveAt(entries))
         /\ Cardinality(StraysAt(Grown)) = Cardinality(StraysAt(entries))
         /\ \A l \in Key \ Nan : \A w : Binds(Grown, l, w) <=> Binds(entries, l, w)
<1>1. n \in Nat /\ entries \in [0 .. n - 1 -> Seat] /\ capacity = n
  BY CapacityIs DEF Well, capacity
<1>2. Moved(Rebuilt[0], 0)
  <2> DEFINE t == [i \in 0 .. NewCapacity - 1 |-> Empty]
  <2>1. t \in [0 .. NewCapacity - 1 -> Seat]
    BY DEF Seat
  <2>2. LiveAt(t) = {} /\ GoneAt(t) = {} /\ StraysAt(t) = {}
    BY DEF LiveAt, GoneAt, StraysAt, Empty
  <2>3. Well(t, NewCapacity)
    BY <2>1, <2>2 DEF Well
  <2>4. UpTo(0) = {} /\ StraysUpTo(0) = {}
    BY <1>1 DEF UpTo, StraysUpTo, LiveAt
  <2> HIDE DEF t
  <2>5. Moved(t, 0)
    BY <2>2, <2>3, <2>4 DEF Moved, Binds
  <2> QED BY <2>5, RebuiltIs DEF t
<1>3. ASSUME NEW i \in 0 .. n - 1, Moved(Rebuilt[i], i) PROVE Moved(Rebuilt[i + 1], i + 1)
  <2>1. Moved(Placed(Rebuilt[i], entries[i]), i + 1)
    BY <1>1, <1>3, MovesOn
  <2>2. Rebuilt[i + 1] = Placed(Rebuilt[i], entries[i])
    BY RebuiltIs
  <2> QED BY <2>1, <2>2
<1>4. Moved(Grown, n)
  <2> DEFINE T == {i \in Nat : i <= n => Moved(Rebuilt[i], i)}
  <2>1. 0 \in T /\ T \in SUBSET Nat
    BY <1>2
  <2>2. ASSUME NEW i \in Nat, i \in T PROVE i + 1 \in T
    <3> SUFFICES ASSUME i + 1 <= n PROVE Moved(Rebuilt[i + 1], i + 1)
      OBVIOUS
    <3>1. i \in 0 .. n - 1 /\ Moved(Rebuilt[i], i)
      BY <1>1, <2>2
    <3> QED BY <1>3, <3>1
  <2> HIDE DEF T
  <2>3. T = Nat
    BY <2>1, <2>2, AllNumbers
  <2> QED BY <1>1, <2>3 DEF T, Grown
<1>5. UpTo(n) = LiveAt(entries) /\ StraysUpTo(n) = StraysAt(entries)
  BY <1>1 DEF UpTo, StraysUpTo, StraysAt, LiveAt
<1> QED BY <1>4, <1>5 DEF Moved, Binds

-----------------------------------------------------------------------------
(* The counters                                                            *)

\* A table has no seats, or those of the first one doubled some times.
Sized == (capacity = 0 \/ capacity >= MinCapacity) /\ \E q \in Nat : capacity = 4 * q

\* A walk goes through keys, and meets none but those of Nan twice.
Snapshot(list) ==
  /\ list \in Seq(Key)
  /\ \A i, j \in DOMAIN list : (list[i] = list[j] /\ list[i] \notin Nan) => i = j

Snapshots == walks \in Seq(Seq(Key)) /\ \A i \in DOMAIN walks : Snapshot(walks[i])

IInv == Well(entries, capacity) /\ Sized /\ CountsExact /\ Snapshots

\* The table a put works on, and how many of its seats are taken.
Base == IF Crowded THEN Grown ELSE entries
Full == IF Crowded THEN count ELSE used

LEMMA CountsAre ==
  ASSUME IInv
  PROVE  /\ capacity \in Nat /\ count = Cardinality(LiveAt(entries)) /\ count \in Nat
         /\ used = count + Cardinality(GoneAt(entries)) /\ used \in Nat
         /\ 4 * (capacity - used) >= capacity
<1>1. Seats("live") = LiveAt(entries) /\ Seats("gone") = GoneAt(entries)
  BY DEF Seats, LiveAt, GoneAt
<1>2. Cardinality(LiveAt(entries)) \in Nat /\ Cardinality(GoneAt(entries)) \in Nat
  BY SeatsFinite DEF IInv
<1> QED BY <1>1, <1>2 DEF IInv, CountsExact, Well

\* A key that is looked for in a table with seats finds room.
LEMMA EntriesRoom ==
  ASSUME IInv, capacity # 0
  PROVE  Room(entries)
<1>1. /\ capacity \in Nat /\ count = Cardinality(LiveAt(entries)) /\ count \in Nat
      /\ used = count + Cardinality(GoneAt(entries)) /\ used \in Nat
      /\ 4 * (capacity - used) >= capacity
  BY CountsAre
<1>2. Cardinality(LiveAt(entries)) + Cardinality(GoneAt(entries)) < capacity
  BY <1>1
<1> QED BY <1>2, RoomLeft DEF IInv

\* Rebuilt or not, the table a put works on says what the table said, has room
\* for one more, and keeps a quarter of its seats empty when it has taken it.
LEMMA BaseIs ==
  ASSUME IInv
  PROVE  \E n \in Nat :
           /\ Well(Base, n) /\ n >= MinCapacity /\ \E q \in Nat : n = 4 * q
           /\ Cardinality(LiveAt(Base)) = count
           /\ Cardinality(StraysAt(Base)) = Cardinality(StraysAt(entries))
           /\ Full = count + Cardinality(GoneAt(Base)) /\ Full \in Nat
           /\ 4 * (Full + 1) <= 3 * n
           /\ \A l \in Key \ Nan : \A w : Binds(Base, l, w) <=> Binds(entries, l, w)
<1>1. /\ capacity \in Nat /\ count = Cardinality(LiveAt(entries)) /\ count \in Nat
      /\ used = count + Cardinality(GoneAt(entries)) /\ used \in Nat
      /\ 4 * (capacity - used) >= capacity
  BY CountsAre
<1>2. Cardinality(GoneAt(entries)) \in Nat
  BY SeatsFinite DEF IInv
<1>3. PICK q \in Nat : capacity = 4 * q
  BY DEF IInv, Sized
<1>4. PICK p \in Nat : MinCapacity = 4 * p /\ p > 0
  <2>1. MinCapacity \in Nat /\ MinCapacity # 0 /\ MinCapacity % 4 = 0
    BY DictAssumption
  <2>2. MinCapacity = 4 * (MinCapacity \div 4) /\ MinCapacity \div 4 \in Nat
    BY <2>1
  <2> QED BY <2>1, <2>2
<1>5. capacity = 0 \/ capacity >= MinCapacity
  BY DEF IInv, Sized
<1>6. CASE Crowded
  <2>1. NewCapacity = IF capacity = 0 THEN MinCapacity ELSE 2 * capacity
    BY <1>1, <1>4, <1>5 DEF NewCapacity
  <2>2. /\ NewCapacity \in Nat /\ capacity < NewCapacity /\ NewCapacity >= MinCapacity
        /\ 4 * (count + 1) <= 3 * NewCapacity
    <3>1. 4 * used <= 3 * capacity
      BY <1>1
    <3>2. count <= used
      BY <1>1, <1>2
    <3>3. 4 * count <= 3 * capacity
      BY <1>1, <3>1, <3>2
    <3>4. MinCapacity >= 4 /\ MinCapacity \in Nat
      BY <1>4
    <3>5. CASE capacity = 0
      BY <1>1, <2>1, <3>3, <3>4, <3>5
    <3>6. CASE capacity # 0
      BY <1>1, <1>5, <2>1, <3>3, <3>4, <3>6
    <3> QED BY <3>5, <3>6
  <2>3. \E r \in Nat : NewCapacity = 4 * r
    <3>1. CASE capacity = 0
      BY <1>4, <2>1, <3>1
    <3>2. CASE capacity # 0
      <4>1. 2 * q \in Nat /\ NewCapacity = 4 * (2 * q)
        BY <1>3, <2>1, <3>2
      <4> QED BY <4>1
    <3> QED BY <3>1, <3>2
  <2>4. /\ Well(Grown, NewCapacity) /\ GoneAt(Grown) = {}
        /\ Cardinality(LiveAt(Grown)) = Cardinality(LiveAt(entries))
        /\ Cardinality(StraysAt(Grown)) = Cardinality(StraysAt(entries))
        /\ \A l \in Key \ Nan : \A w : Binds(Grown, l, w) <=> Binds(entries, l, w)
    BY <2>2, GrownIs DEF IInv
  <2>5. Cardinality(GoneAt(Grown)) = 0
    BY <2>4, FS_EmptySet
  <2>6. Base = Grown /\ Full = count
    BY <1>6 DEF Base, Full
  <2>7. Full = count + Cardinality(GoneAt(Base)) /\ Full \in Nat
    BY <1>1, <2>5, <2>6
  <2>8. Cardinality(LiveAt(Base)) = count
    BY <1>1, <2>4, <2>6
  <2>9. 4 * (Full + 1) <= 3 * NewCapacity
    BY <2>2, <2>6
  <2> QED BY <2>2, <2>3, <2>4, <2>6, <2>7, <2>8, <2>9
<1>7. CASE ~Crowded
  <2>1. Base = entries /\ Full = used
    BY <1>7 DEF Base, Full
  <2>2. used + 1 <= capacity - capacity \div 4
    BY <1>1, <1>7 DEF Crowded
  <2>3. capacity \div 4 = q
    BY <1>3
  <2>4. 4 * (used + 1) <= 3 * capacity /\ capacity # 0
    BY <1>1, <1>3, <2>2, <2>3
  <2>5. capacity >= MinCapacity
    BY <1>5, <2>4
  <2> QED BY <1>1, <1>3, <2>1, <2>4, <2>5 DEF IInv
<1> QED BY <1>6, <1>7
\* What a put leaves: a table as good as it was, with one entry more or one
\* entry changed.
LEMMA PutIs ==
  ASSUME IInv, NEW k \in Key, NEW v \in Value, Put(k, v)
  PROVE  /\ (Well(entries, capacity) /\ Sized /\ CountsExact)'
         /\ k \in Nan => Cardinality(StraysAt(entries')) = Cardinality(StraysAt(entries)) + 1
         /\ k \notin Nan => Cardinality(StraysAt(entries')) = Cardinality(StraysAt(entries))
         /\ \A l \in Key \ Nan : \A w :
              Binds(entries', l, w) <=> IF l = k THEN w = v ELSE Binds(entries, l, w)
<1> DEFINE f == FindEntry(Base, k)
           was == Base[f].state
<1>1. /\ entries' = [Base EXCEPT ![f] = Live(k, v)]
      /\ count' = IF was = "live" THEN count ELSE count + 1
      /\ used' = IF was = "empty" THEN Full + 1 ELSE Full
  BY DEF Put, Base, Full
<1>2. PICK n \in Nat :
        /\ Well(Base, n) /\ n >= MinCapacity /\ \E q \in Nat : n = 4 * q
        /\ Cardinality(LiveAt(Base)) = count
        /\ Cardinality(StraysAt(Base)) = Cardinality(StraysAt(entries))
        /\ Full = count + Cardinality(GoneAt(Base)) /\ Full \in Nat
        /\ 4 * (Full + 1) <= 3 * n
        /\ \A l \in Key \ Nan : \A w : Binds(Base, l, w) <=> Binds(entries, l, w)
  BY BaseIs
<1>3. count \in Nat
  BY CountsAre
<1>4. Room(Base)
  <2>1. Cardinality(LiveAt(Base)) + Cardinality(GoneAt(Base)) < n
    <3>1. Cardinality(GoneAt(Base)) \in Nat
      BY <1>2, SeatsFinite
    <3> QED BY <1>2, <1>3, <3>1
  <2> QED BY <1>2, <2>1, RoomLeft
<1>5. f \in 0 .. n - 1 /\ DOMAIN Base = 0 .. n - 1 /\ Base[f] \in Seat
  <2>1. f \in 0 .. n - 1
    BY <1>2, <1>4, EntryFound
  <2> QED BY <1>2, <2>1 DEF Well
<1>6. was = "live" <=> f \in LiveAt(Base)
  BY <1>5 DEF LiveAt
<1>7. was = "gone" <=> f \in GoneAt(Base)
  BY <1>5 DEF GoneAt
<1>8. was \in {"live", "gone", "empty"}
  BY <1>5 DEF Seat, Empty, Gone
<1>9. Well(entries', n) /\ TakesIn(Base, entries', f, k, v)
  BY <1>1, <1>2, <1>4, EntryPut
<1> HIDE DEF f, was
<1>10. /\ IsFiniteSet(LiveAt(Base)) /\ IsFiniteSet(GoneAt(Base)) /\ IsFiniteSet(StraysAt(Base))
       /\ Cardinality(GoneAt(Base)) \in Nat
  BY <1>2, SeatsFinite
<1>11. Cardinality(LiveAt(entries')) = count'
  <2>1. LiveAt(entries') = LiveAt(Base) \cup {f}
    BY <1>9 DEF TakesIn
  <2>2. Cardinality(LiveAt(Base) \cup {f})
          = IF f \in LiveAt(Base) THEN Cardinality(LiveAt(Base)) ELSE Cardinality(LiveAt(Base)) + 1
    BY <1>10, FS_AddElement
  <2> QED BY <1>1, <1>2, <1>6, <2>1, <2>2
<1>12. used' = count' + Cardinality(GoneAt(entries')) /\ used' <= Full + 1 /\ used' \in Nat
  <2>1. GoneAt(entries') = GoneAt(Base) \ {f}
    BY <1>9 DEF TakesIn
  <2>2. Cardinality(GoneAt(Base) \ {f})
          = IF f \in GoneAt(Base) THEN Cardinality(GoneAt(Base)) - 1 ELSE Cardinality(GoneAt(Base))
    BY <1>10, FS_RemoveElement
  <2>3. Full = count + Cardinality(GoneAt(Base)) /\ Full \in Nat
    BY <1>2
  <2>4. Cardinality(GoneAt(entries'))
          = IF was = "gone" THEN Cardinality(GoneAt(Base)) - 1 ELSE Cardinality(GoneAt(Base))
    BY <1>7, <2>1, <2>2
  <2>5. CASE was = "live"
    BY <1>1, <1>3, <1>10, <2>3, <2>4, <2>5
  <2>6. CASE was = "gone"
    BY <1>1, <1>3, <1>10, <2>3, <2>4, <2>6
  <2>7. CASE was = "empty"
    BY <1>1, <1>3, <1>10, <2>3, <2>4, <2>7
  <2> QED BY <1>8, <2>5, <2>6, <2>7
<1>13. capacity' = n
  BY <1>9, CapacityIs DEF Well, capacity
<1>14. 4 * (capacity' - used') >= capacity'
  BY <1>2, <1>12, <1>13
<1>15. Seats("live")' = LiveAt(entries') /\ Seats("gone")' = GoneAt(entries')
  BY DEF Seats, LiveAt, GoneAt
<1>16. CountsExact'
  BY <1>11, <1>12, <1>14, <1>15 DEF CountsExact
<1>17. Well(entries, capacity)' /\ Sized'
  BY <1>2, <1>9, <1>13 DEF Sized
<1>18. k \in Nan => Cardinality(StraysAt(entries')) = Cardinality(StraysAt(entries)) + 1
  <2> SUFFICES ASSUME k \in Nan
               PROVE  Cardinality(StraysAt(entries')) = Cardinality(StraysAt(entries)) + 1
    OBVIOUS
  <2>1. StraysAt(entries') = StraysAt(Base) \cup {f} /\ f \notin StraysAt(Base)
    BY <1>9 DEF TakesIn, StraysAt
  <2> QED BY <1>2, <1>10, <2>1, FS_AddElement
<1>19. k \notin Nan => Cardinality(StraysAt(entries')) = Cardinality(StraysAt(entries))
  BY <1>2, <1>9 DEF TakesIn
<1>20. \A l \in Key \ Nan : \A w :
         Binds(entries', l, w) <=> IF l = k THEN w = v ELSE Binds(entries, l, w)
  BY <1>2, <1>9 DEF TakesIn
<1> QED BY <1>16, <1>17, <1>18, <1>19, <1>20

\* What get finds is what the table says, and nothing under a key of Nan.
LEMMA LookupIs ==
  ASSUME IInv, NEW k \in Key
  PROVE  /\ \A w : w \in Lookup(k) <=> k \notin Nan /\ Binds(entries, k, w)
         /\ Lookup(k) # {} => /\ FindEntry(entries, k) \in LiveAt(entries)
                              /\ entries[FindEntry(entries, k)].key = k /\ k \notin Nan
                              /\ Lookup(k) = {entries[FindEntry(entries, k)].value}
<1> DEFINE f == FindEntry(entries, k)
<1>1. count = Cardinality(LiveAt(entries)) /\ IsFiniteSet(LiveAt(entries))
  BY CountsAre, SeatsFinite DEF IInv
<1>2. CASE count = 0
  <2>1. LiveAt(entries) = {}
    BY <1>1, <1>2, FS_EmptySet
  <2> QED BY <1>2, <2>1 DEF Lookup, Binds
<1>3. CASE count # 0
  <2>1. LiveAt(entries) # {}
    BY <1>1, <1>3, FS_EmptySet
  <2>2. capacity # 0
    BY <2>1 DEF IInv, Well, LiveAt
  <2>3. Room(entries)
    BY <2>2, EntriesRoom
  <2>4. /\ f \in 0 .. capacity - 1
        /\ \/ entries[f].state = "live" /\ entries[f].key = k /\ k \notin Nan
           \/ entries[f].state # "live" /\ (k \notin Nan => \A i \in LiveAt(entries) : entries[i].key # k)
    BY <2>3, EntryFound DEF IInv
  <2>5. DOMAIN entries = 0 .. capacity - 1
    BY DEF IInv, Well
  <2>6. Lookup(k) = IF entries[f].state = "live" THEN {entries[f].value} ELSE {}
    BY <1>3 DEF Lookup
  <2> HIDE DEF f
  <2>7. CASE entries[f].state = "live" /\ entries[f].key = k /\ k \notin Nan
    <3>1. f \in LiveAt(entries)
      BY <2>4, <2>5, <2>7 DEF LiveAt
    <3>2. \A i \in LiveAt(entries) : entries[i].key = k => i = f
      BY <2>7, <3>1 DEF IInv, Well
    <3>3. \A w : Binds(entries, k, w) <=> w = entries[f].value
      BY <2>7, <3>1, <3>2 DEF Binds
    <3> QED BY <2>6, <2>7, <3>1, <3>3 DEF f
  <2>8. CASE entries[f].state # "live" /\ (k \notin Nan => \A i \in LiveAt(entries) : entries[i].key # k)
    <3>1. \A w : k \notin Nan => ~Binds(entries, k, w)
      BY <2>8 DEF Binds
    <3> QED BY <2>6, <2>8, <3>1
  <2> QED BY <2>4, <2>7, <2>8
<1> QED BY <1>2, <1>3

\* What a remove leaves.
LEMMA RemoveIs ==
  ASSUME IInv, NEW k \in Key, RemoveKey(k)
  PROVE  /\ (Well(entries, capacity) /\ Sized /\ CountsExact)'
         /\ Cardinality(StraysAt(entries')) = Cardinality(StraysAt(entries))
         /\ \A l \in Key \ Nan : \A w : Binds(entries', l, w) <=> l # k /\ Binds(entries, l, w)
<1>1. used' = used
  BY DEF RemoveKey
<1>2. CASE Lookup(k) = {}
  <2>1. entries' = entries /\ count' = count
    BY <1>2 DEF RemoveKey
  <2>2. \A w : k \notin Nan => ~Binds(entries, k, w)
    BY <1>2, LookupIs
  <2>3. (Well(entries, capacity) /\ Sized /\ CountsExact)'
    BY <1>1, <2>1 DEF IInv, capacity, Sized, CountsExact, Seats
  <2> QED BY <2>1, <2>2, <2>3
<1>3. CASE Lookup(k) # {}
  <2> DEFINE f == FindEntry(entries, k)
  <2>1. f \in LiveAt(entries) /\ entries[f].key = k /\ k \notin Nan
    BY <1>3, LookupIs
  <2>2. entries' = [entries EXCEPT ![f] = Gone] /\ count' = count - 1
    BY <1>3 DEF RemoveKey, Removed
  <2>3. Well(entries, capacity)
    BY DEF IInv
  <2> HIDE DEF f
  <2>4. /\ Well(entries', capacity)
        /\ LiveAt(entries') = LiveAt(entries) \ {f}
        /\ GoneAt(entries') = GoneAt(entries) \cup {f}
        /\ StraysAt(entries') = StraysAt(entries)
        /\ \A l, w : Binds(entries', l, w) <=> l # entries[f].key /\ Binds(entries, l, w)
    BY <2>1, <2>2, <2>3, EntryRemoved
  <2>5. capacity' = capacity
    BY <2>2 DEF capacity, Capacity
  <2>6. /\ count = Cardinality(LiveAt(entries)) /\ count \in Nat
        /\ used = count + Cardinality(GoneAt(entries)) /\ used \in Nat
        /\ 4 * (capacity - used) >= capacity
    BY CountsAre
  <2>7. IsFiniteSet(LiveAt(entries)) /\ IsFiniteSet(GoneAt(entries)) /\ Cardinality(GoneAt(entries)) \in Nat
    BY <2>3, SeatsFinite
  <2>8. Cardinality(LiveAt(entries')) = count'
    BY <2>1, <2>2, <2>4, <2>6, <2>7, FS_RemoveElement
  <2>9. Cardinality(GoneAt(entries')) = Cardinality(GoneAt(entries)) + 1
    <3>1. f \notin GoneAt(entries)
      BY <2>1 DEF LiveAt, GoneAt
    <3> QED BY <2>4, <2>7, <3>1, FS_AddElement
  <2>10. Seats("live")' = LiveAt(entries') /\ Seats("gone")' = GoneAt(entries')
    BY DEF Seats, LiveAt, GoneAt
  <2>11. used' = count' + Cardinality(GoneAt(entries'))
    BY <1>1, <2>2, <2>6, <2>7, <2>9
  <2>12. CountsExact'
    BY <1>1, <2>5, <2>6, <2>8, <2>10, <2>11 DEF CountsExact
  <2>13. Well(entries, capacity)' /\ Sized'
    BY <2>4, <2>5 DEF IInv, Sized
  <2> QED BY <2>1, <2>4, <2>12, <2>13
<1> QED BY <1>2, <1>3
-----------------------------------------------------------------------------
(* The walks                                                               *)

\* KeysUpTo is what its definition says, seat by seat.
LEMMA KeysUpToIs ==
  ASSUME NEW n, Well(entries, n)
  PROVE  /\ KeysUpTo[0] = <<>>
         /\ \A i \in 0 .. n - 1 :
              KeysUpTo[i + 1] = IF entries[i].state = "live"
                                THEN Append(KeysUpTo[i], entries[i].key) ELSE KeysUpTo[i]
<1>1. n \in Nat /\ entries \in [0 .. n - 1 -> Seat] /\ capacity = n
  BY CapacityIs DEF Well, capacity
<1> DEFINE S == Seq(Key)
           more(i, list) == IF entries[i].state = "live" THEN Append(list, entries[i].key) ELSE list
           next(i, list) == IF i < n THEN more(i, list) ELSE list
           step == [p \in Nat \X S |-> next(p[1], p[2])]
<1>2. <<>> \in S
  OBVIOUS
<1>3. ASSUME NEW i \in Nat, NEW list \in S PROVE next(i, list) \in S
  <2>1. i < n /\ entries[i].state = "live" => entries[i].key \in Key
    BY <1>1 DEF Seat, Empty, Gone
  <2> QED BY <2>1
<1> HIDE DEF S, next, more
<1>4. step \in [Nat \X S -> S]
  BY <1>3
<1>5. PICK g \in [Nat -> S] : g[0] = <<>> /\ \A i \in Nat : g[i + 1] = step[<<i, g[i]>>]
  <2> HIDE DEF step
  <2>1. \E g \in [Nat -> S] : IteratesBy(g, <<>>, step)
    BY <1>2, <1>4, IteratedByIndex
  <2> QED BY <2>1 DEF IteratesBy
<1>6. \A i \in Nat : g[i + 1] = next(i, g[i])
  BY <1>5
<1>7. \A i \in 0 .. n - 1 : g[i + 1] = more(i, g[i])
  BY <1>1, <1>6 DEF next
<1> DEFINE h == [i \in 0 .. n |-> g[i]]
<1>8. h = [i \in 0 .. n |-> IF i = 0 THEN <<>> ELSE more(i - 1, h[i - 1])]
  <2>1. ASSUME NEW i \in 0 .. n PROVE g[i] = IF i = 0 THEN <<>> ELSE more(i - 1, h[i - 1])
    <3>1. CASE i = 0
      BY <1>5, <3>1
    <3>2. CASE i # 0
      <4>1. i - 1 \in 0 .. n - 1 /\ i - 1 + 1 = i /\ i - 1 \in 0 .. n
        BY <1>1, <3>2
      <4>2. h[i - 1] = g[i - 1]
        BY <4>1
      <4>3. g[i] = more(i - 1, g[i - 1])
        BY <1>7, <4>1
      <4> QED BY <3>2, <4>2, <4>3
    <3> QED BY <3>1, <3>2
  <2> QED BY <2>1
<1> HIDE DEF h
<1>9. KeysUpTo = [i \in 0 .. n |-> IF i = 0 THEN <<>> ELSE more(i - 1, KeysUpTo[i - 1])]
  BY <1>1, <1>8 DEF KeysUpTo, more
<1>10. \A i \in 0 .. n : KeysUpTo[i] = IF i = 0 THEN <<>> ELSE more(i - 1, KeysUpTo[i - 1])
  <2> DEFINE body(i) == IF i = 0 THEN <<>> ELSE more(i - 1, KeysUpTo[i - 1])
  <2>1. KeysUpTo = [i \in 0 .. n |-> body(i)]
    BY <1>9
  <2> HIDE DEF body
  <2>2. \A i \in 0 .. n : KeysUpTo[i] = body(i)
    BY <2>1
  <2> QED BY <2>2 DEF body
<1>11. KeysUpTo[0] = <<>>
  BY <1>1, <1>10
<1>12. ASSUME NEW i \in 0 .. n - 1 PROVE KeysUpTo[i + 1] = more(i, KeysUpTo[i])
  <2>1. i + 1 \in 0 .. n /\ i + 1 # 0 /\ i + 1 - 1 = i
    BY <1>1
  <2> QED BY <1>10, <2>1
<1> QED BY <1>11, <1>12 DEF more

\* The keys of the first i seats, each of them once.
Gathered(list, i) ==
  Snapshot(list) /\ \A k : (\E m \in DOMAIN list : list[m] = k) <=>
                           (\E j \in UpTo(i) : entries[j].key = k)

LEMMA GathersOn ==
  ASSUME NEW n, Well(entries, n), NEW i \in 0 .. n - 1, NEW list, Gathered(list, i)
  PROVE  Gathered(IF entries[i].state = "live" THEN Append(list, entries[i].key) ELSE list, i + 1)
<1>1. n \in Nat /\ entries \in [0 .. n - 1 -> Seat] /\ DOMAIN entries = 0 .. n - 1
  BY DEF Well
<1>2. CASE entries[i].state # "live"
  <2>1. UpTo(i + 1) = UpTo(i)
    BY <1>1, <1>2 DEF UpTo, LiveAt
  <2> QED BY <1>2, <2>1 DEF Gathered
<1>3. CASE entries[i].state = "live"
  <2> DEFINE k == entries[i].key
             long == Append(list, k)
  <2>1. k \in Key /\ i \in LiveAt(entries)
    BY <1>1, <1>3 DEF Seat, Empty, Gone, LiveAt
  <2>2. UpTo(i + 1) = UpTo(i) \cup {i} /\ i \notin UpTo(i)
    BY <1>1, <2>1 DEF UpTo, LiveAt
  <2>3. list \in Seq(Key) /\ \A a, b \in DOMAIN list : (list[a] = list[b] /\ list[a] \notin Nan) => a = b
    BY DEF Gathered, Snapshot
  <2>4. \A l : (\E m \in DOMAIN list : list[m] = l) <=> (\E j \in UpTo(i) : entries[j].key = l)
    BY DEF Gathered
  <2>5. k \notin Nan => \A m \in DOMAIN list : list[m] # k
    BY <2>1, <2>2, <2>4 DEF UpTo, Well
  <2>6. entries[i].key = k
    OBVIOUS
  <2> HIDE DEF k
  <2>7. /\ long \in Seq(Key) /\ DOMAIN long = DOMAIN list \cup {Len(list) + 1}
        /\ \A m \in DOMAIN list : long[m] = list[m] /\ m # Len(list) + 1
        /\ long[Len(list) + 1] = k
    BY <2>1, <2>3
  <2> HIDE DEF long
  <2>8. \A a, b \in DOMAIN long : (long[a] = long[b] /\ long[a] \notin Nan) => a = b
    BY <2>3, <2>5, <2>7
  <2>9. \A l : (\E m \in DOMAIN long : long[m] = l) <=> (\E j \in UpTo(i + 1) : entries[j].key = l)
    BY <2>2, <2>4, <2>6, <2>7
  <2>10. Gathered(long, i + 1)
    BY <2>7, <2>8, <2>9 DEF Gathered, Snapshot
  <2> QED BY <1>3, <2>10 DEF long, k
<1> QED BY <1>2, <1>3

\* A walk begins with the keys of the table.
LEMMA KeysIs ==
  ASSUME IInv
  PROVE  Snapshot(Keys) /\ \A k : k \in ToSet(Keys) <=> \E j \in LiveAt(entries) : entries[j].key = k
<1> DEFINE n == capacity
<1>1. n \in Nat /\ Well(entries, n) /\ DOMAIN entries = 0 .. n - 1
  BY DEF IInv, Well
<1> HIDE DEF n
<1>2. Gathered(KeysUpTo[0], 0)
  <2>1. UpTo(0) = {}
    BY <1>1 DEF UpTo, LiveAt
  <2>2. Gathered(<<>>, 0)
    BY <2>1 DEF Gathered, Snapshot
  <2> QED BY <1>1, <2>2, KeysUpToIs
<1>3. ASSUME NEW i \in 0 .. n - 1, Gathered(KeysUpTo[i], i) PROVE Gathered(KeysUpTo[i + 1], i + 1)
  <2>1. Gathered(IF entries[i].state = "live" THEN Append(KeysUpTo[i], entries[i].key)
                                              ELSE KeysUpTo[i], i + 1)
    BY <1>1, <1>3, GathersOn
  <2>2. KeysUpTo[i + 1] = IF entries[i].state = "live"
                          THEN Append(KeysUpTo[i], entries[i].key) ELSE KeysUpTo[i]
    BY <1>1, KeysUpToIs
  <2> QED BY <2>1, <2>2
<1>4. Gathered(KeysUpTo[n], n)
  <2> DEFINE T == {i \in Nat : i <= n => Gathered(KeysUpTo[i], i)}
  <2>1. 0 \in T /\ T \in SUBSET Nat
    BY <1>2
  <2>2. ASSUME NEW i \in Nat, i \in T PROVE i + 1 \in T
    <3> SUFFICES ASSUME i + 1 <= n PROVE Gathered(KeysUpTo[i + 1], i + 1)
      OBVIOUS
    <3>1. i \in 0 .. n - 1 /\ Gathered(KeysUpTo[i], i)
      BY <1>1, <2>2
    <3> QED BY <1>3, <3>1
  <2> HIDE DEF T
  <2>3. T = Nat
    BY <2>1, <2>2, AllNumbers
  <2> QED BY <1>1, <2>3 DEF T
<1>5. UpTo(n) = LiveAt(entries)
  BY <1>1 DEF UpTo, LiveAt
<1>6. Gathered(Keys, n)
  BY <1>4 DEF Keys, n
<1> QED BY <1>5, <1>6 DEF Gathered, ToSet
\* A walk passes over keys that are not there, to the first that is.
LEMMA AheadIs ==
  ASSUME IInv, NEW list, Snapshot(list)
  PROVE  /\ Ahead(list) = <<>> => \A k \in ToSet(list) : Lookup(k) = {}
         /\ Ahead(list) # <<>> =>
              /\ Ahead(list) \in Seq(Key) /\ Head(Ahead(list)) \in ToSet(list)
              /\ Lookup(Head(Ahead(list))) # {}
              /\ Snapshot(Tail(Ahead(list)))
              /\ ToSet(Tail(Ahead(list))) \subseteq ToSet(list) \ ({Head(Ahead(list))} \ Nan)
              /\ \A k \in ToSet(list) \ ToSet(Tail(Ahead(list))) :
                   k # Head(Ahead(list)) => Lookup(k) = {}
<1> DEFINE there == {i \in DOMAIN list : Lookup(list[i]) # {}}
           m == Min(there)
           rest == SubSeq(list, m, Len(list))
           tail == Tail(rest)
<1>1. /\ list \in Seq(Key) /\ Len(list) \in Nat /\ DOMAIN list = 1 .. Len(list)
      /\ \A i, j \in DOMAIN list : (list[i] = list[j] /\ list[i] \notin Nan) => i = j
  BY DEF Snapshot
<1>2. Ahead(list) = IF there = {} THEN <<>> ELSE rest
  BY DEF Ahead
<1>3. CASE there = {}
  <2>1. \A k \in ToSet(list) : Lookup(k) = {}
    BY <1>3 DEF ToSet
  <2> QED BY <1>2, <1>3, <2>1
<1>4. CASE there # {}
  <2>1. there \in SUBSET Nat
    BY <1>1
  <2>2. \A i \in DOMAIN list : i \in there <=> Lookup(list[i]) # {}
    OBVIOUS
  <2>3. \A i \in there : i \in DOMAIN list
    OBVIOUS
  <2> HIDE DEF there
  <2>4. m \in there /\ \A i \in there : m <= i
    BY <1>4, <2>1, MinIsLeast
  <2>5. m \in 1 .. Len(list) /\ Lookup(list[m]) # {}
    BY <1>1, <2>2, <2>3, <2>4
  <2>6. \A i \in DOMAIN list : i < m => Lookup(list[i]) = {}
    <3> SUFFICES ASSUME NEW i \in DOMAIN list, i < m, Lookup(list[i]) # {} PROVE FALSE
      OBVIOUS
    <3>1. m <= i
      BY <2>2, <2>4
    <3> QED BY <1>1, <2>5, <3>1
  <2> HIDE DEF m
  <2>7. /\ rest \in Seq(Key) /\ Len(rest) = Len(list) - m + 1 /\ rest # <<>>
        /\ \A i \in 1 .. Len(list) - m + 1 : rest[i] = list[m + i - 1]
    BY <1>1, <2>5
  <2> HIDE DEF rest
  <2>8. Head(rest) = list[m] /\ tail \in Seq(Key) /\ Len(tail) = Len(list) - m
    BY <1>1, <2>5, <2>7
  <2>9. ASSUME NEW i \in 1 .. Len(list) - m
        PROVE  tail[i] = list[m + i] /\ m + i \in DOMAIN list
    <3>1. tail[i] = rest[i + 1]
      BY <1>1, <2>5, <2>7, <2>8
    <3>2. i + 1 \in 1 .. Len(list) - m + 1 /\ m + (i + 1) - 1 = m + i
      BY <1>1, <2>5
    <3>3. rest[i + 1] = list[m + (i + 1) - 1]
      BY <2>7, <3>2
    <3>4. m + i \in DOMAIN list
      BY <1>1, <2>5
    <3>5. tail[i] = list[m + i]
      BY <3>1, <3>2, <3>3
    <3> QED BY <3>4, <3>5
  <2>10. DOMAIN tail = 1 .. Len(list) - m
    BY <2>8
  <2> HIDE DEF tail
  <2>11. Head(rest) \in ToSet(list)
    BY <1>1, <2>5, <2>8 DEF ToSet
  <2>12. Snapshot(tail)
    <3>1. ASSUME NEW i \in DOMAIN tail, NEW j \in DOMAIN tail, tail[i] = tail[j], tail[i] \notin Nan
          PROVE  i = j
      <4>1. m + i = m + j
        BY <1>1, <2>9, <2>10, <3>1
      <4> QED BY <2>5, <2>10, <4>1
    <3> QED BY <2>8, <3>1 DEF Snapshot
  <2>13. ASSUME NEW k \in ToSet(tail)
         PROVE  k \in ToSet(list) /\ ~(k = Head(rest) /\ k \notin Nan)
    <3>1. PICK i \in DOMAIN tail : tail[i] = k
      BY DEF ToSet
    <3>2. k = list[m + i] /\ m + i \in DOMAIN list
      BY <2>9, <2>10, <3>1
    <3>3. m + i # m
      BY <2>5, <2>10
    <3>4. m \in DOMAIN list
      BY <1>1, <2>5
    <3> QED BY <1>1, <2>8, <3>2, <3>3, <3>4 DEF ToSet
  <2>14. ASSUME NEW k \in ToSet(list) \ ToSet(tail), k # Head(rest)
         PROVE  Lookup(k) = {}
    <3>1. PICK i \in DOMAIN list : list[i] = k
      BY DEF ToSet
    <3>2. i # m
      BY <2>8, <2>14, <3>1
    <3>3. ~(m < i)
      <4> SUFFICES ASSUME m < i PROVE FALSE
        OBVIOUS
      <4>1. i - m \in 1 .. Len(list) - m /\ m + (i - m) = i
        BY <1>1, <2>5
      <4>2. tail[i - m] = k
        BY <2>9, <3>1, <4>1
      <4> QED BY <2>10, <2>14, <4>1, <4>2 DEF ToSet
    <3>4. i < m
      BY <1>1, <2>5, <3>2, <3>3
    <3> QED BY <2>6, <3>1, <3>4
  <2>15. Ahead(list) = rest /\ Tail(Ahead(list)) = tail
    BY <1>2, <1>4 DEF tail
  <2>16. Lookup(Head(rest)) # {}
    BY <2>5, <2>8
  <2> QED BY <2>7, <2>11, <2>12, <2>13, <2>14, <2>15, <2>16
<1> QED BY <1>3, <1>4

\* A walk that ends, and one that goes on.
LEMMA WalksLast ==
  ASSUME IInv, walks # <<>>
  PROVE  /\ Len(walks) \in Nat /\ Len(walks) >= 1 /\ DOMAIN walks = 1 .. Len(walks)
         /\ Snapshot(Last(walks)) /\ Last(walks) = walks[Len(walks)]
         /\ Front(walks) \in Seq(Seq(Key)) /\ Len(Front(walks)) = Len(walks) - 1
         /\ \A i \in 1 .. Len(walks) - 1 : Front(walks)[i] = walks[i]
<1>1. walks \in Seq(Seq(Key)) /\ \A i \in DOMAIN walks : Snapshot(walks[i])
  BY DEF IInv, Snapshots
<1>2. Len(walks) \in Nat /\ Len(walks) >= 1 /\ DOMAIN walks = 1 .. Len(walks)
  BY <1>1
<1>3. Len(walks) \in DOMAIN walks
  BY <1>2
<1>4. Front(walks) \in Seq(Seq(Key)) /\ Len(Front(walks)) = Len(walks) - 1
  BY <1>1, <1>2 DEF Front
<1>5. \A i \in 1 .. Len(walks) - 1 : Front(walks)[i] = walks[i]
  BY <1>1, <1>2 DEF Front
<1> QED BY <1>1, <1>2, <1>3, <1>4, <1>5 DEF Last
LEMMA OneAfter ==
  ASSUME NEW S, NEW s \in Seq(S), NEW x \in S
  PROVE  /\ s \o <<x>> \in Seq(S) /\ Len(s) \in Nat /\ DOMAIN (s \o <<x>>) = 1 .. Len(s) + 1
         /\ \A i \in 1 .. Len(s) : (s \o <<x>>)[i] = s[i]
         /\ (s \o <<x>>)[Len(s) + 1] = x
OBVIOUS

LEMMA StartsCounted == Init => IInv
<1> SUFFICES ASSUME Init PROVE IInv
  OBVIOUS
<1>1. entries = [i \in {} |-> Empty] /\ count = 0 /\ used = 0 /\ walks = <<>>
  BY DEF Init
<1>2. LiveAt(entries) = {} /\ GoneAt(entries) = {} /\ DOMAIN entries = {}
  BY <1>1 DEF LiveAt, GoneAt
<1>3. capacity = 0
  BY <1>2, FS_EmptySet DEF capacity, Capacity
<1>4. Well(entries, 0)
  BY <1>1, <1>2 DEF Well
<1>5. CountsExact
  <2>1. Seats("live") = {} /\ Seats("gone") = {}
    BY <1>2 DEF Seats
  <2>2. Cardinality(Seats("live")) = 0 /\ Cardinality(Seats("gone")) = 0
    BY <2>1, FS_EmptySet
  <2> QED BY <1>1, <1>3, <2>2 DEF CountsExact
<1>6. Sized /\ Snapshots
  BY <1>1, <1>3 DEF Sized, Snapshots
<1> QED BY <1>3, <1>4, <1>5, <1>6 DEF IInv

LEMMA StaysCounted == IInv /\ [Next]_vars => IInv'
<1> SUFFICES ASSUME IInv, [Next]_vars PROVE IInv'
  OBVIOUS
<1>1. ASSUME entries' = entries, count' = count, used' = used, Snapshots' PROVE IInv'
  BY <1>1 DEF IInv, capacity, Sized, CountsExact, Seats
<1>2. ASSUME walks' = walks PROVE Snapshots'
  BY <1>2 DEF IInv, Snapshots
<1>3. CASE UNCHANGED vars
  BY <1>1, <1>2, <1>3 DEF vars
<1>4. ASSUME NEW k \in Key, At(k) PROVE IInv'
  BY <1>1, <1>2, <1>4 DEF At
<1>5. ASSUME NEW k \in Key, RemoveKey(k) PROVE IInv'
  <2>1. (Well(entries, capacity) /\ Sized /\ CountsExact)'
    BY <1>5, RemoveIs
  <2>2. Snapshots'
    BY <1>2, <1>5 DEF RemoveKey
  <2> QED BY <2>1, <2>2 DEF IInv
<1>6. ASSUME NEW k \in Key, NEW v \in Value, Put(k, v) PROVE IInv'
  <2>1. (Well(entries, capacity) /\ Sized /\ CountsExact)'
    BY <1>6, PutIs
  <2>2. Snapshots'
    BY <1>2, <1>6 DEF Put
  <2> QED BY <2>1, <2>2 DEF IInv
<1>7. CASE Size
  BY <1>1, <1>2, <1>7 DEF Size
<1>8. walks \in Seq(Seq(Key)) /\ \A i \in DOMAIN walks : Snapshot(walks[i])
  BY DEF IInv, Snapshots
<1>9. CASE Walk
  <2>1. walks' = Append(walks, Keys) /\ entries' = entries /\ count' = count /\ used' = used
    BY <1>9 DEF Walk
  <2>2. Snapshot(Keys) /\ Keys \in Seq(Key)
    BY KeysIs DEF Snapshot
  <2>3. Snapshots'
    BY <1>8, <2>1, <2>2 DEF Snapshots
  <2> QED BY <1>1, <2>1, <2>3
<1>10. ASSUME walks # <<>>, walks' = Front(walks) PROVE Snapshots'
  <2>1. /\ DOMAIN walks = 1 .. Len(walks) /\ Front(walks) \in Seq(Seq(Key))
        /\ Len(Front(walks)) = Len(walks) - 1 /\ Len(walks) \in Nat
        /\ \A i \in 1 .. Len(walks) - 1 : Front(walks)[i] = walks[i]
    BY <1>10, WalksLast
  <2>2. DOMAIN Front(walks) = 1 .. Len(walks) - 1
    BY <2>1
  <2>3. \A i \in 1 .. Len(walks) - 1 : i \in DOMAIN walks
    BY <2>1
  <2>4. \A i \in DOMAIN Front(walks) : Snapshot(Front(walks)[i])
    BY <1>8, <2>1, <2>2, <2>3
  <2> QED BY <1>10, <2>1, <2>4 DEF Snapshots
<1>11. CASE WalkOn
  <2> DEFINE rest == Ahead(Last(walks))
  <2>1. /\ walks # <<>> /\ entries' = entries /\ count' = count /\ used' = used
        /\ rest = <<>> => walks' = Front(walks)
        /\ rest # <<>> => walks' = Front(walks) \o <<Tail(rest)>>
    BY <1>11 DEF WalkOn
  <2>2. rest # <<>> => Snapshot(Tail(rest)) /\ Tail(rest) \in Seq(Key)
    BY <2>1, WalksLast, AheadIs DEF Snapshot
  <2> HIDE DEF rest
  <2>3. Snapshots'
    <3>1. CASE rest = <<>>
      BY <1>10, <2>1, <3>1
    <3>2. CASE rest # <<>>
      <4>1. /\ DOMAIN walks = 1 .. Len(walks) /\ Front(walks) \in Seq(Seq(Key))
            /\ Len(Front(walks)) = Len(walks) - 1 /\ Len(walks) \in Nat
            /\ \A i \in 1 .. Len(walks) - 1 : Front(walks)[i] = walks[i]
        BY <2>1, WalksLast
      <4> DEFINE front == Front(walks)
                 tail == Tail(rest)
      <4>2. front \in Seq(Seq(Key)) /\ tail \in Seq(Key) /\ walks' = front \o <<tail>>
        BY <2>1, <2>2, <3>2, <4>1
      <4>3. Snapshot(tail) /\ \A i \in 1 .. Len(front) : Snapshot(front[i])
        <5>1. Snapshot(tail)
          BY <2>2, <3>2
        <5>2. ASSUME NEW i \in 1 .. Len(front) PROVE Snapshot(front[i])
          <6>1. i \in 1 .. Len(walks) - 1 /\ i \in 1 .. Len(walks)
            BY <4>1
          <6>2. front[i] = walks[i] /\ i \in DOMAIN walks
            BY <4>1, <6>1
          <6> QED BY <1>8, <6>2
        <5> QED BY <5>1, <5>2
      <4> HIDE DEF front, tail
      <4>4. /\ walks' \in Seq(Seq(Key)) /\ Len(front) \in Nat
            /\ DOMAIN walks' = 1 .. Len(front) + 1
            /\ \A i \in 1 .. Len(front) : walks'[i] = front[i]
            /\ walks'[Len(front) + 1] = tail
        BY <4>2, OneAfter
      <4>5. \A i \in 1 .. Len(front) + 1 : i \in 1 .. Len(front) \/ i = Len(front) + 1
        BY <4>4
      <4>6. \A i \in DOMAIN walks' : Snapshot(walks'[i])
        BY <4>3, <4>4, <4>5
      <4> QED BY <4>4, <4>6 DEF Snapshots
    <3> QED BY <3>1, <3>2
  <2> QED BY <1>1, <2>1, <2>3
<1>12. CASE WalkFails
  BY <1>1, <1>10, <1>12 DEF WalkFails
<1> QED BY <1>3, <1>4, <1>5, <1>6, <1>7, <1>9, <1>11, <1>12 DEF Next

\* The counters count what they say, and a quarter of the seats stay empty,
\* tombstones and all: a probe for a key that is not there comes to an end.
THEOREM CountersExact == Spec => []CountsExact
<1>1. IInv => CountsExact
  BY DEF IInv
<1> QED BY <1>1, StartsCounted, StaysCounted, PTL DEF Spec
-----------------------------------------------------------------------------
(* Refinement                                                              *)

\* What a table says of each key: Contents, of any table.
ContentsAt(t) == [k \in {t[i].key : i \in LiveAt(t)} \ Nan |->
                    (CHOOSE e \in {t[i] : i \in LiveAt(t)} : e.key = k).value]

\* c says of every key what t says.
Says(c, t) ==
  /\ \A k : k \in DOMAIN c <=> k \in Key \ Nan /\ \E w : Binds(t, k, w)
  /\ \A k \in DOMAIN c : \A w : Binds(t, k, w) <=> w = c[k]
  /\ c = [k \in DOMAIN c |-> c[k]]

LEMMA ContentsSay ==
  ASSUME NEW n, NEW t, Well(t, n)
  PROVE  Says(ContentsAt(t), t)
<1> DEFINE c == ContentsAt(t)
           D == {t[i].key : i \in LiveAt(t)} \ Nan
           at(k) == (CHOOSE e \in {t[i] : i \in LiveAt(t)} : e.key = k).value
<1>1. c = [k \in D |-> at(k)]
  BY DEF ContentsAt
<1>2. \A i \in LiveAt(t) : t[i].key \in Key
  BY DEF Well, LiveAt, Seat, Empty, Gone
<1>3. \A k : k \in D <=> k \in Key \ Nan /\ \E w : Binds(t, k, w)
  BY <1>2 DEF Binds
<1>4. ASSUME NEW k \in D, NEW w PROVE Binds(t, k, w) <=> w = at(k)
  <2>1. PICK i \in LiveAt(t) : t[i].key = k /\ k \notin Nan
    OBVIOUS
  <2>2. \A j \in LiveAt(t) : t[j].key = k => j = i
    BY <2>1 DEF Well
  <2>3. at(k) = t[i].value
    <3> DEFINE E == {t[j] : j \in LiveAt(t)}
    <3>1. t[i] \in E /\ \A e \in E : e.key = k => e = t[i]
      BY <2>1, <2>2
    <3> HIDE DEF E
    <3>2. (CHOOSE e \in E : e.key = k) = t[i]
      BY <2>1, <3>1
    <3> QED BY <3>2 DEF E
  <2> HIDE DEF at
  <2> QED BY <2>1, <2>2, <2>3 DEF Binds
<1> HIDE DEF D, at, c
<1>5. DOMAIN c = D /\ \A k \in D : c[k] = at(k)
  BY <1>1
<1>6. c = [k \in DOMAIN c |-> c[k]]
  BY <1>1
<1>7. Says(c, t)
  BY <1>3, <1>4, <1>5, <1>6 DEF Says
<1> QED BY <1>7 DEF c

\* What the table says now, and after a step.
LEMMA ContentsAre ==
  ASSUME IInv
  PROVE  /\ Says(Contents, entries) /\ Strays = StraysAt(entries)
         /\ IInv' => Says(Contents', entries') /\ Strays' = StraysAt(entries')
<1>1. Contents = ContentsAt(entries) /\ Contents' = ContentsAt(entries')
  BY DEF Contents, ContentsAt, Seats, LiveAt
<1>2. Strays = StraysAt(entries) /\ Strays' = StraysAt(entries')
  BY DEF Strays, StraysAt, Seats, LiveAt
<1>3. Says(Contents, entries)
  BY <1>1, ContentsSay DEF IInv
<1>4. IInv' => Says(Contents', entries')
  BY <1>1, ContentsSay DEF IInv
<1> QED BY <1>2, <1>3, <1>4

\* Looking a key up answers what the contents say of it.
LEMMA LookupSays ==
  ASSUME IInv, NEW k \in Key
  PROVE  Lookup(k) = IF k \in DOMAIN Contents THEN {Contents[k]} ELSE {}
<1>1. \A w : w \in Lookup(k) <=> k \notin Nan /\ Binds(entries, k, w)
  BY LookupIs
<1>2. Says(Contents, entries)
  BY ContentsAre
<1>3. CASE k \in DOMAIN Contents
  <2>1. \A w : w \in Lookup(k) <=> w = Contents[k]
    BY <1>1, <1>2, <1>3 DEF Says
  <2>2. Lookup(k) = {Contents[k]}
    BY <2>1
  <2> QED BY <1>3, <2>2
<1>4. CASE k \notin DOMAIN Contents
  <2>1. \A w : w \notin Lookup(k)
    BY <1>1, <1>2, <1>4 DEF Says
  <2>2. Lookup(k) = {}
    BY <2>1
  <2> QED BY <1>4, <2>2
<1> QED BY <1>3, <1>4

\* Every live entry is one that can be found or one that cannot.
LEMMA SizeSays ==
  ASSUME IInv
  PROVE  count = Cardinality(DOMAIN Contents) + Cardinality(Strays)
<1> DEFINE L == LiveAt(entries)
           S == StraysAt(entries)
           F == L \ S
           key == [i \in F |-> entries[i].key]
<1>1. count = Cardinality(L) /\ IsFiniteSet(L) /\ S \subseteq L /\ IsFiniteSet(S)
  BY CountsAre, SeatsFinite DEF IInv, StraysAt
<1>2. Says(Contents, entries) /\ Strays = S
  BY ContentsAre
<1>3. \A i \in L : entries[i].key \in Key /\ (i \in S <=> entries[i].key \in Nan)
  BY DEF IInv, Well, LiveAt, StraysAt, Seat, Empty, Gone
<1>4. \A i, j \in L : (entries[i].key = entries[j].key /\ entries[i].key \notin Nan) => i = j
  BY DEF IInv, Well
<1>5. \A k : (\E w : Binds(entries, k, w)) <=> \E i \in L : entries[i].key = k
  BY DEF Binds
<1> HIDE DEF L, S
<1>6. key \in Bijection(F, DOMAIN Contents)
  <2>1. \A i \in F : key[i] = entries[i].key /\ i \in L /\ entries[i].key \in Key \ Nan
    BY <1>3
  <2>2. \A i \in F : key[i] \in DOMAIN Contents
    BY <1>2, <1>5, <2>1 DEF Says
  <2>3. \A k \in DOMAIN Contents : \E i \in F : key[i] = k
    BY <1>2, <1>3, <1>5, <2>1 DEF Says
  <2>4. \A i, j \in F : key[i] = key[j] => i = j
    BY <1>4, <2>1
  <2>5. key \in [F -> DOMAIN Contents]
    BY <2>2
  <2> HIDE DEF key
  <2> QED BY <2>3, <2>4, <2>5 DEF Bijection, Injection, Surjection, IsInjective
<1>7. IsFiniteSet(F) /\ Cardinality(F) = Cardinality(L) - Cardinality(L \cap S)
  BY <1>1, FS_Difference
<1> HIDE DEF key, F
<1>8. Cardinality(DOMAIN Contents) = Cardinality(F)
  BY <1>6, <1>7, FS_Bijection DEF ExistsBijection
<1>9. Cardinality(L \cap S) = Cardinality(S)
  <2>1. L \cap S = S
    BY <1>1
  <2> QED BY <2>1
<1>10. Cardinality(L) \in Nat /\ Cardinality(S) \in Nat
  BY <1>1, FS_CardinalityType
<1>11. Cardinality(Strays) = Cardinality(S)
  BY <1>2
<1> QED BY <1>1, <1>7, <1>8, <1>9, <1>10, <1>11
\* The promise's module has a Cardinality of its own, which is the same.
LEMMA SameCardinality == ASSUME NEW S PROVE Promise!Cardinality(S) = Cardinality(S)
BY DEF Promise!Cardinality, Cardinality

LEMMA PromiseStarts == Init => Promise!Init
<1> SUFFICES ASSUME Init PROVE Promise!Init
  OBVIOUS
<1>1. entries = [i \in {} |-> Empty] /\ walks = <<>> /\ reply = [message |-> "none", found |-> {}]
  BY DEF Init
<1>2. Seats("live") = {}
  BY <1>1 DEF Seats
<1>3. Contents = [k \in {} |-> {}]
  BY <1>2 DEF Contents
<1>4. Cardinality(Strays) = 0
  BY <1>2, FS_EmptySet DEF Strays
<1>5. Due = << >>
  BY <1>1 DEF Due
<1> QED BY <1>1, <1>3, <1>4, <1>5 DEF Promise!Init, Promise!NoReply

LEMMA PutSays ==
  ASSUME IInv, IInv', NEW k \in Key, NEW v \in Value, Put(k, v)
  PROVE  Promise!Put(k, v)
<1>1. /\ k \in Nan => Cardinality(StraysAt(entries')) = Cardinality(StraysAt(entries)) + 1
      /\ k \notin Nan => Cardinality(StraysAt(entries')) = Cardinality(StraysAt(entries))
      /\ \A l \in Key \ Nan : \A w :
           Binds(entries', l, w) <=> IF l = k THEN w = v ELSE Binds(entries, l, w)
  BY PutIs
<1>2. /\ Says(Contents, entries) /\ Strays = StraysAt(entries)
      /\ Says(Contents', entries') /\ Strays' = StraysAt(entries')
  BY ContentsAre
<1>3. Due' = Due /\ reply' = [message |-> "atPut", found |-> {v}]
  BY DEF Put, Due, Answer
<1>4. CASE k \in Nan
  <2>1. Contents' = Contents
    <3>1. DOMAIN Contents' = DOMAIN Contents
      BY <1>1, <1>2, <1>4 DEF Says
    <3>2. \A l \in DOMAIN Contents : Contents'[l] = Contents[l]
      BY <1>1, <1>2, <1>4, <3>1 DEF Says
    <3> QED BY <1>2, <3>1, <3>2 DEF Says
  <2>2. Cardinality(Strays)' = Cardinality(Strays) + 1
    BY <1>1, <1>2, <1>4
  <2> QED BY <1>3, <1>4, <2>1, <2>2 DEF Promise!Put
<1>5. CASE k \notin Nan
  <2> DEFINE D == DOMAIN Contents \cup {k}
  <2>1. DOMAIN Contents' = D
    BY <1>1, <1>2, <1>5 DEF Says
  <2>2. \A l \in D : Contents'[l] = IF l = k THEN v ELSE Contents[l]
    BY <1>1, <1>2, <1>5, <2>1 DEF Says
  <2>3. Contents' = [l \in DOMAIN Contents' |-> Contents'[l]]
    BY <1>2 DEF Says
  <2> HIDE DEF D
  <2>4. Contents' = [l \in D |-> IF l = k THEN v ELSE Contents[l]]
    BY <2>1, <2>2, <2>3
  <2>5. Cardinality(Strays)' = Cardinality(Strays)
    BY <1>1, <1>2, <1>5
  <2> QED BY <1>3, <1>5, <2>4, <2>5 DEF Promise!Put, D
<1> QED BY <1>4, <1>5

LEMMA RemoveSays ==
  ASSUME IInv, IInv', NEW k \in Key, RemoveKey(k)
  PROVE  Promise!Remove(k)
<1>1. /\ Cardinality(StraysAt(entries')) = Cardinality(StraysAt(entries))
      /\ \A l \in Key \ Nan : \A w : Binds(entries', l, w) <=> l # k /\ Binds(entries, l, w)
  BY RemoveIs
<1>2. /\ Says(Contents, entries) /\ Strays = StraysAt(entries)
      /\ Says(Contents', entries') /\ Strays' = StraysAt(entries')
  BY ContentsAre
<1>3. Due' = Due /\ reply' = [message |-> "remove", found |-> Lookup(k)]
  BY DEF RemoveKey, Due, Answer
<1>4. Lookup(k) = IF k \in DOMAIN Contents THEN {Contents[k]} ELSE {}
  BY LookupSays
<1>5. Cardinality(Strays)' = Cardinality(Strays)
  BY <1>1, <1>2
<1> DEFINE D == DOMAIN Contents \ {k}
<1>6. DOMAIN Contents' = D
  BY <1>1, <1>2 DEF Says
<1>7. \A l \in D : Contents'[l] = Contents[l]
  BY <1>1, <1>2, <1>6 DEF Says
<1>8. Contents' = [l \in DOMAIN Contents' |-> Contents'[l]]
  BY <1>2 DEF Says
<1> HIDE DEF D
<1>9. Contents' = [l \in D |-> Contents[l]]
  BY <1>6, <1>7, <1>8
<1> QED BY <1>3, <1>4, <1>5, <1>9 DEF Promise!Remove, Promise!Found, D

\* The walks in progress, and the last of them.
LEMMA DueIs ==
  ASSUME IInv
  PROVE  /\ DOMAIN Due = 1 .. Len(walks) /\ Len(walks) \in Nat /\ Promise!Innermost = Len(walks)
         /\ \A i \in 1 .. Len(walks) : Due[i] = ToSet(walks[i]) \ Nan
         /\ Due = [i \in 1 .. Len(walks) |-> Due[i]]
         /\ walks # <<>> => Due # << >>
<1>1. walks \in Seq(Seq(Key)) /\ Len(walks) \in Nat /\ DOMAIN walks = 1 .. Len(walks)
  BY DEF IInv, Snapshots
<1>2. DOMAIN Due = 1 .. Len(walks) /\ \A i \in 1 .. Len(walks) : Due[i] = ToSet(walks[i]) \ Nan
  BY <1>1 DEF Due
<1>3. Due = [i \in 1 .. Len(walks) |-> Due[i]]
  BY <1>1 DEF Due
<1>4. Cardinality(1 .. Len(walks)) = Len(walks)
  BY <1>1, FS_Interval
<1>5. Promise!Innermost = Len(walks)
  BY <1>2, <1>4, SameCardinality DEF Promise!Innermost
<1>6. walks # <<>> => Due # << >>
  <2> SUFFICES ASSUME walks # <<>> PROVE Due # << >>
    OBVIOUS
  <2>1. Len(walks) \in DOMAIN Due
    BY <1>1, <1>2
  <2> QED BY <2>1
<1> QED BY <1>1, <1>2, <1>3, <1>5, <1>6

LEMMA WalkSays == ASSUME IInv, Walk PROVE Promise!Walk
<1> DEFINE n == Len(walks)
           D == 1 .. n
<1>1. /\ DOMAIN Due = D /\ n \in Nat /\ Promise!Innermost = n
      /\ \A i \in D : Due[i] = ToSet(walks[i]) \ Nan
  BY DueIs
<1>2. walks' = Append(walks, Keys) /\ walks \in Seq(Seq(Key)) /\ Keys \in Seq(Key)
  BY KeysIs DEF Walk, IInv, Snapshots, Snapshot
<1>3. DOMAIN walks' = 1 .. n + 1 /\ walks'[n + 1] = Keys /\ \A i \in 1 .. n : walks'[i] = walks[i]
  BY <1>1, <1>2
<1>4. ToSet(Keys) \ Nan = DOMAIN Contents
  <2>1. Says(Contents, entries)
    BY ContentsAre
  <2>2. \A k : k \in ToSet(Keys) <=> \E j \in LiveAt(entries) : entries[j].key = k
    BY KeysIs
  <2>3. \A j \in LiveAt(entries) : entries[j].key \in Key
    BY DEF IInv, Well, LiveAt, Seat, Empty, Gone
  <2>4. \A k : k \in ToSet(Keys) \ Nan <=> k \in DOMAIN Contents
    BY <2>1, <2>2, <2>3 DEF Says, Binds
  <2> QED BY <2>4
<1>5. Due' = [i \in 1 .. n + 1 |-> IF i \in DOMAIN Due THEN Due[i] ELSE DOMAIN Contents]
  <2>1. Due' = [i \in 1 .. n + 1 |-> ToSet(walks'[i]) \ Nan]
    BY <1>3 DEF Due
  <2>2. ASSUME NEW i \in 1 .. n + 1
        PROVE  ToSet(walks'[i]) \ Nan = IF i \in DOMAIN Due THEN Due[i] ELSE DOMAIN Contents
    <3>1. CASE i \in 1 .. n
      BY <1>1, <1>3, <3>1
    <3>2. CASE i \notin 1 .. n
      <4>1. i = n + 1
        BY <1>1, <3>2
      <4>2. walks'[i] = Keys
        BY <1>3, <4>1
      <4> QED BY <1>1, <1>4, <3>2, <4>2
    <3> QED BY <3>1, <3>2
  <2> QED BY <2>1, <2>2
<1>6. Promise!Cardinality(DOMAIN Due) = n
  BY <1>1 DEF Promise!Innermost
<1>7. /\ Contents' = Contents /\ Cardinality(Strays)' = Cardinality(Strays)
      /\ reply' = [message |-> "none", found |-> {}]
  BY DEF Walk, Contents, Strays, Seats, Answer
<1> HIDE DEF n, D
<1> QED BY <1>5, <1>6, <1>7 DEF Promise!Walk, Promise!NoReply

\* What is left of the walks when the last one is over.
LEMMA FrontSays ==
  ASSUME IInv, walks # <<>>, walks' = Front(walks)
  PROVE  Due' = [i \in 1 .. Promise!Innermost - 1 |-> Due[i]]
<1> DEFINE n == Len(walks)
<1>1. /\ n \in Nat /\ n >= 1 /\ Front(walks) \in Seq(Seq(Key)) /\ Len(Front(walks)) = n - 1
      /\ \A i \in 1 .. n - 1 : Front(walks)[i] = walks[i]
  BY WalksLast
<1>2. Promise!Innermost = n /\ \A i \in 1 .. n : Due[i] = ToSet(walks[i]) \ Nan
  BY DueIs
<1>3. DOMAIN walks' = 1 .. n - 1
  BY <1>1
<1>4. \A i \in 1 .. n - 1 : i \in 1 .. n /\ walks'[i] = walks[i]
  BY <1>1
<1>5. Due' = [i \in 1 .. n - 1 |-> ToSet(walks'[i]) \ Nan]
  BY <1>3 DEF Due
<1> HIDE DEF n
<1>6. \A i \in 1 .. n - 1 : ToSet(walks'[i]) \ Nan = Due[i]
  BY <1>2, <1>4
<1> QED BY <1>2, <1>5, <1>6

\* Moving a walk on visits a key that is due and still there, or ends it.
LEMMA WalkOnSays ==
  ASSUME IInv, WalkOn
  PROVE  Promise!Visit \/ Promise!WalkEnds
<1> DEFINE n == Len(walks)
           list == Last(walks)
           rest == Ahead(list)
           h == Head(rest)
           tail == Tail(rest)
<1>1. /\ n \in Nat /\ n >= 1 /\ Snapshot(list) /\ list = walks[n]
      /\ walks # <<>>
  BY WalksLast DEF WalkOn
<1>2. /\ DOMAIN Due = 1 .. n /\ Promise!Innermost = n
      /\ \A i \in 1 .. n : Due[i] = ToSet(walks[i]) \ Nan
      /\ Due = [i \in 1 .. n |-> Due[i]] /\ Due # << >>
  BY <1>1, DueIs
<1>3. n \in 1 .. n /\ Due[n] = ToSet(list) \ Nan
  BY <1>1, <1>2
<1>4. Contents' = Contents /\ Cardinality(Strays)' = Cardinality(Strays)
  BY DEF WalkOn, Contents, Strays, Seats
<1>5. ToSet(list) \subseteq Key
  BY <1>1 DEF Snapshot, ToSet
<1>6. CASE rest = <<>>
  <2>1. walks' = Front(walks) /\ reply' = [message |-> "none", found |-> {}]
    BY <1>6 DEF WalkOn, Answer
  <2>2. \A k \in ToSet(list) : Lookup(k) = {}
    BY <1>1, <1>6, AheadIs
  <2>3. \A k \in ToSet(list) : k \notin DOMAIN Contents
    BY <1>5, <2>2, LookupSays
  <2>4. Due[n] \cap DOMAIN Contents = {}
    BY <1>3, <2>3
  <2>5. Due' = [i \in 1 .. Promise!Innermost - 1 |-> Due[i]]
    BY <1>1, <2>1, FrontSays
  <2> HIDE DEF n, list, rest
  <2>6. Promise!WalkEnds
    BY <1>2, <1>4, <2>1, <2>4, <2>5 DEF Promise!WalkEnds, Promise!NoReply
  <2> QED BY <2>6
<1>7. CASE rest # <<>>
  <2>1. /\ rest \in Seq(Key) /\ h \in ToSet(list) /\ Lookup(h) # {}
        /\ Snapshot(tail)
        /\ ToSet(tail) \subseteq ToSet(list) \ ({h} \ Nan)
        /\ \A k \in ToSet(list) \ ToSet(tail) : k # h => Lookup(k) = {}
    BY <1>1, <1>7, AheadIs
  <2>2. walks' = Front(walks) \o <<tail>> /\ reply' = [message |-> "visit", found |-> {<<h, v>> : v \in Lookup(h)}]
    BY <1>7 DEF WalkOn, Answer
  <2>3. tail \in Seq(Key)
    BY <2>1 DEF Snapshot
  <2>4. /\ Front(walks) \in Seq(Seq(Key)) /\ Len(Front(walks)) = n - 1
        /\ \A i \in 1 .. n - 1 : Front(walks)[i] = walks[i]
    BY <1>1, WalksLast
  <2> HIDE DEF n, list, rest, h, tail
  <2>5. h \in DOMAIN Contents /\ Lookup(h) = {Contents[h]} /\ h \in Key
    BY <1>5, <2>1, LookupSays
  <2>6. h \notin Nan
    BY <2>5, ContentsAre DEF Says
  <2>7. reply' = [message |-> "visit", found |-> {<<h, Contents[h]>>}]
    BY <2>2, <2>5
  <2> DEFINE lost == (Due[n] \ {h}) \ ToSet(tail)
  <2>8. lost \in SUBSET (Due[n] \ DOMAIN Contents)
    <3> SUFFICES ASSUME NEW k \in lost PROVE k \in Due[n] /\ k \notin DOMAIN Contents
      OBVIOUS
    <3>1. k \in Due[n] /\ k \in ToSet(list) \ ToSet(tail) /\ k # h
      BY <1>3
    <3>2. Lookup(k) = {} /\ k \in Key
      BY <1>5, <2>1, <3>1
    <3>3. k \notin DOMAIN Contents
      BY <3>2, LookupSays
    <3> QED BY <3>1, <3>3
  <2>9. ToSet(tail) \ Nan = Due[n] \ ({h} \cup lost)
    BY <1>3, <2>1, <2>6
  <2>10. /\ DOMAIN walks' = 1 .. n /\ walks'[n] = tail
         /\ \A i \in 1 .. n - 1 : walks'[i] = walks[i]
    <3> DEFINE front == Front(walks)
    <3>1. front \in Seq(Seq(Key)) /\ walks' = front \o <<tail>> /\ Len(front) = n - 1
          /\ \A i \in 1 .. n - 1 : front[i] = walks[i]
      BY <2>2, <2>4
    <3> HIDE DEF front
    <3>2. /\ DOMAIN walks' = 1 .. Len(front) + 1
          /\ \A i \in 1 .. Len(front) : walks'[i] = front[i]
          /\ walks'[Len(front) + 1] = tail
      BY <2>3, <3>1, OneAfter
    <3>3. Len(front) + 1 = n
      BY <1>1, <3>1
    <3> QED BY <3>1, <3>2, <3>3
  <2>11. Due' = [i \in 1 .. n |-> ToSet(walks'[i]) \ Nan]
    BY <2>10 DEF Due
  <2> HIDE DEF lost
  <2>12. \A i \in 1 .. n : ToSet(walks'[i]) \ Nan
                             = IF i = n THEN Due[n] \ ({h} \cup lost) ELSE Due[i]
    <3> SUFFICES ASSUME NEW i \in 1 .. n
                 PROVE  ToSet(walks'[i]) \ Nan
                          = IF i = n THEN Due[n] \ ({h} \cup lost) ELSE Due[i]
      OBVIOUS
    <3>1. CASE i = n
      BY <2>9, <2>10, <3>1
    <3>2. CASE i # n
      <4>1. i \in 1 .. n - 1
        BY <1>1, <3>2
      <4> QED BY <1>2, <2>10, <3>2, <4>1
    <3> QED BY <3>1, <3>2
  <2>13. Due' = [Due EXCEPT ![n] = @ \ ({h} \cup lost)]
    BY <1>2, <1>3, <2>11, <2>12
  <2>14. h \in Due[n] \cap DOMAIN Contents
    BY <1>3, <2>1, <2>5, <2>6
  <2>15. Promise!Visit
    BY <1>2, <1>4, <2>7, <2>8, <2>13, <2>14 DEF Promise!Visit
  <2> QED BY <2>15
<1> QED BY <1>6, <1>7

\* Each message, and each step of a walk, is one the dictionary promises.
LEMMA StepsKeepPromise ==
  ASSUME IInv, IInv', [Next]_vars
  PROVE  [Promise!Next]_(Promise!vars)
<1>1. ASSUME entries' = entries
      PROVE  Contents' = Contents /\ Cardinality(Strays)' = Cardinality(Strays)
  BY <1>1 DEF Contents, Strays, Seats
<1>2. ASSUME walks' = walks PROVE Due' = Due
  BY <1>2 DEF Due
<1>3. CASE UNCHANGED vars
  <2>1. UNCHANGED Promise!vars
    BY <1>1, <1>2, <1>3 DEF vars, Promise!vars
  <2> QED BY <2>1
<1>4. ASSUME NEW k \in Key, At(k) PROVE Promise!At(k)
  <2>1. reply' = [message |-> "at", found |-> Lookup(k)]
    BY <1>4 DEF At, Answer
  <2>2. Lookup(k) = IF k \in DOMAIN Contents THEN {Contents[k]} ELSE {}
    BY LookupSays
  <2>3. entries' = entries /\ walks' = walks
    BY <1>4 DEF At
  <2> QED BY <1>1, <1>2, <2>1, <2>2, <2>3 DEF Promise!At, Promise!Found
<1>5. ASSUME Size PROVE Promise!Size
  <2>1. reply' = [message |-> "size", found |-> {count}]
    BY <1>5 DEF Size, Answer
  <2>2. count = Promise!Cardinality(DOMAIN Contents) + Cardinality(Strays)
    BY SizeSays, SameCardinality
  <2>3. entries' = entries /\ walks' = walks
    BY <1>5 DEF Size
  <2> QED BY <1>1, <1>2, <2>1, <2>2, <2>3 DEF Promise!Size
<1>6. ASSUME WalkFails PROVE Promise!WalkFails
  <2>1. walks # <<>> /\ walks' = Front(walks) /\ entries' = entries
        /\ reply' = [message |-> "none", found |-> {}]
    BY <1>6 DEF WalkFails, Answer
  <2>2. Due # << >> /\ Due' = [i \in 1 .. Promise!Innermost - 1 |-> Due[i]]
    BY <2>1, FrontSays, DueIs
  <2> QED BY <1>1, <2>1, <2>2 DEF Promise!WalkFails, Promise!NoReply
<1>7. ASSUME NEW k \in Key, At(k) \/ RemoveKey(k) \/ \E v \in Value : Put(k, v)
      PROVE  Promise!Next
  <2>1. CASE At(k)
    BY <1>4, <2>1 DEF Promise!Next
  <2>2. CASE RemoveKey(k)
    BY <2>2, RemoveSays DEF Promise!Next
  <2>3. ASSUME NEW v \in Value, Put(k, v) PROVE Promise!Next
    BY <2>3, PutSays DEF Promise!Next
  <2> QED BY <1>7, <2>1, <2>2, <2>3
<1>8. CASE Walk
  BY <1>8, WalkSays DEF Promise!Next
<1>9. CASE WalkOn
  BY <1>9, WalkOnSays DEF Promise!Next
<1>10. Size \/ WalkFails => Promise!Next
  BY <1>5, <1>6 DEF Promise!Next
<1> QED BY <1>3, <1>7, <1>8, <1>9, <1>10 DEF Next

\* The table keeps the promise of a dictionary: whatever collides and whatever
\* has been removed, a key is found wherever probing left it, and a walk whose
\* block changes the table meets each of its keys at most once and only while
\* it is there.
THEOREM KeepsThePromise == Spec => KeepsPromise
<1>1. Init => Promise!Init
  BY PromiseStarts
<1>2. IInv /\ IInv' /\ [Next]_vars => [Promise!Next]_(Promise!vars)
  BY StepsKeepPromise
<1> QED BY <1>1, <1>2, StartsCounted, StaysCounted, PTL DEF Spec, KeepsPromise, Promise!Spec

-----------------------------------------------------------------------------
(* Objects of slots                                                        *)

\* What a slot and an object are, values left out.
Slot == [name : Name, exported : BOOLEAN, within : BOOLEAN]
Object ==
  [proto : Nat \cup {None}, slots : Seq(Slot), seats : Nat, held : Seq(Nat),
   exports : List \cup {None}]

\* A prototype was made before what is made from it.
Linked(objs) ==
  /\ objs \in Seq(Object)
  /\ \A o \in 1 .. Len(objs) : objs[o].proto # None => objs[o].proto \in 1 .. o - 1

-----------------------------------------------------------------------------
(* The line of an object                                                   *)

\* One step of a line, and the steps after it.
Grows(line, objs) ==
  \A o \in 1 .. Len(objs) :
    line[o] = {o} \cup IF objs[o].proto = None THEN {} ELSE line[objs[o].proto]

LEMMA LineIs ==
  ASSUME NEW objs, Linked(objs)
  PROVE  Grows(O!Line(objs), objs)
<1> DEFINE D == 1 .. Len(objs)
           proto(o) == objs[o].proto
           Closed(S) == S \in SUBSET D /\ \A a \in S : proto(a) # None => proto(a) \in S
           Reach(o) == {a \in D : \A S \in SUBSET D : Closed(S) /\ o \in S => a \in S}
           g == [o \in D |-> Reach(o)]
           step(f, o) == {o} \cup IF objs[o].proto = None THEN {} ELSE f[objs[o].proto]
<1>1. \A o \in D : proto(o) # None => proto(o) \in D
  BY DEF Linked
<1>2. ASSUME NEW o \in D PROVE Reach(o) = {o} \cup IF proto(o) = None THEN {} ELSE Reach(proto(o))
  <2> DEFINE up == IF proto(o) = None THEN {} ELSE Reach(proto(o))
  <2>1. \A a \in up : a \in Reach(o)
    BY <1>1
  <2>2. o \in Reach(o)
    OBVIOUS
  <2>3. ASSUME NEW a \in Reach(o) PROVE a \in {o} \cup up
    <3> DEFINE S == {o} \cup up
    <3>1. S \in SUBSET D
      BY <1>1
    <3>2. ASSUME NEW b \in S, proto(b) # None PROVE proto(b) \in S
      <4>1. CASE b = o
        <5>1. up = Reach(proto(o)) /\ proto(o) \in D
          BY <1>1, <3>2, <4>1
        <5>2. proto(o) \in Reach(proto(o))
          BY <5>1
        <5> QED BY <4>1, <5>1, <5>2
      <4>2. CASE b # o
        <5>1. b \in up /\ up = Reach(proto(o)) /\ b \in D
          BY <1>1, <3>2, <4>2
        <5>2. proto(b) \in D
          BY <1>1, <3>2, <5>1
        <5>3. \A T \in SUBSET D : Closed(T) /\ proto(o) \in T => proto(b) \in T
          BY <3>2, <5>1
        <5> QED BY <5>1, <5>2, <5>3
      <4> QED BY <4>1, <4>2
    <3>3. Closed(S)
      BY <3>1, <3>2
    <3> HIDE DEF S, Closed
    <3>4. o \in S
      BY DEF S
    <3>5. a \in S
      BY <3>1, <3>3, <3>4, <2>3
    <3> QED BY <3>5 DEF S
  <2> HIDE DEF up, Reach
  <2>4. Reach(o) = {o} \cup up
    BY <2>1, <2>2, <2>3
  <2> QED BY <2>4 DEF up
<1> HIDE DEF Reach
<1>3. g = [o \in D |-> step(g, o)]
  <2>1. \A o \in D : Reach(o) = step(g, o)
    BY <1>1, <1>2
  <2> HIDE DEF step
  <2> QED BY <2>1
<1> HIDE DEF g
<1> DEFINE line == CHOOSE f : f = [o \in D |-> step(f, o)]
<1>4. line = [o \in D |-> step(line, o)]
  BY <1>3
<1>5. O!Line(objs) = line
  BY DEF O!Line
<1> HIDE DEF line, step
<1>6. \A o \in D : line[o] = step(line, o)
  BY <1>4
<1> QED BY <1>5, <1>6 DEF Grows, step

\* An object is the last of its line, and the line of any of it is part of it.
LEMMA LineDown ==
  ASSUME NEW objs, Linked(objs)
  PROVE  \A o \in 1 .. Len(objs) :
           /\ o \in O!Line(objs)[o] /\ O!Line(objs)[o] \subseteq 1 .. o
           /\ \A a \in O!Line(objs)[o] : O!Line(objs)[a] \subseteq O!Line(objs)[o]
<1> DEFINE D == 1 .. Len(objs)
           line == O!Line(objs)
           Good(o) == line[o] \subseteq 1 .. o /\ \A a \in line[o] : line[a] \subseteq line[o]
           Bad == {o \in D : ~Good(o)}
<1>1. \A o \in D : line[o] = {o} \cup IF objs[o].proto = None THEN {} ELSE line[objs[o].proto]
  BY LineIs DEF Grows
<1>2. \A o \in D : objs[o].proto # None => objs[o].proto \in 1 .. o - 1 /\ objs[o].proto \in D
  BY DEF Linked
<1> HIDE DEF line
<1>3. ASSUME Bad # {} PROVE FALSE
  <2>1. Bad \in SUBSET Nat
    OBVIOUS
  <2> HIDE DEF Bad
  <2>2. PICK o \in Bad : \A p \in Bad : o <= p
    BY <1>3, <2>1, Least
  <2>3. o \in D /\ ~Good(o)
    BY DEF Bad
  <2>4. CASE objs[o].proto = None
    BY <1>1, <2>3, <2>4
  <2>5. CASE objs[o].proto # None
    <3>1. objs[o].proto \in D /\ objs[o].proto \in 1 .. o - 1
      BY <1>2, <2>3, <2>5
    <3>2. objs[o].proto \notin Bad
      BY <2>2, <2>3, <3>1
    <3>3. Good(objs[o].proto)
      BY <3>1, <3>2 DEF Bad
    <3>4. line[o] = {o} \cup line[objs[o].proto]
      BY <1>1, <2>3, <2>5
    <3> QED BY <2>3, <3>1, <3>3, <3>4
  <2> QED BY <2>4, <2>5
<1>4. \A o \in D : o \in line[o]
  BY <1>1
<1> QED BY <1>3, <1>4 DEF line

\* The line of an object is made of prototypes, and these stay.
LEMMA LineStays ==
  ASSUME NEW objs, NEW more, Linked(objs), Linked(more), Len(objs) <= Len(more),
         \A o \in 1 .. Len(objs) : more[o].proto = objs[o].proto
  PROVE  \A o \in 1 .. Len(objs) : O!Line(more)[o] = O!Line(objs)[o]
<1> DEFINE D == 1 .. Len(objs)
           Bad == {o \in D : O!Line(more)[o] # O!Line(objs)[o]}
<1>0. Len(objs) \in Nat /\ Len(more) \in Nat
  BY DEF Linked
<1>1. \A o \in D : /\ O!Line(objs)[o] = {o} \cup IF objs[o].proto = None THEN {} ELSE O!Line(objs)[objs[o].proto]
                   /\ O!Line(more)[o] = {o} \cup IF objs[o].proto = None THEN {} ELSE O!Line(more)[objs[o].proto]
  BY <1>0, LineIs DEF Grows
<1>2. \A o \in D : objs[o].proto # None => objs[o].proto \in 1 .. o - 1 /\ objs[o].proto \in D
  BY DEF Linked
<1>3. ASSUME Bad # {} PROVE FALSE
  <2>1. Bad \in SUBSET Nat
    OBVIOUS
  <2> HIDE DEF Bad
  <2>2. PICK o \in Bad : \A p \in Bad : o <= p
    BY <1>3, <2>1, Least
  <2>3. o \in D /\ O!Line(more)[o] # O!Line(objs)[o]
    BY DEF Bad
  <2>4. objs[o].proto # None
    BY <1>1, <2>3
  <2>5. objs[o].proto \in D /\ objs[o].proto \in 1 .. o - 1
    BY <1>2, <2>3, <2>4
  <2>6. objs[o].proto \notin Bad
    BY <2>2, <2>3, <2>5
  <2>7. O!Line(more)[objs[o].proto] = O!Line(objs)[objs[o].proto]
    BY <2>5, <2>6 DEF Bad
  <2> QED BY <1>1, <2>3, <2>7
<1> QED BY <1>3

-----------------------------------------------------------------------------
(* Boundaries                                                              *)

\* The ancestor whose boundary is in force over o.
Rules(objs, o, a) ==
  /\ a \in O!Line(objs)[o] /\ objs[a].exports # None
  /\ \A b \in O!Line(objs)[o] : b > a => objs[b].exports = None

\* Of some numbers up to n one is the greatest.
LEMMA HasGreatest ==
  ASSUME NEW n \in Nat, NEW S \in SUBSET (0 .. n), S # {}
  PROVE  \E x \in S : O!Greatest(S) = {x} /\ \A y \in S : y <= x
<1> DEFINE T == {n - y : y \in S}
<1>1. T \in SUBSET Nat /\ T # {}
  <2>1. \A y \in S : n - y \in Nat
    OBVIOUS
  <2>2. PICK y \in S : TRUE
    OBVIOUS
  <2>3. n - y \in T
    OBVIOUS
  <2> QED BY <2>1, <2>3
<1>2. PICK t \in T : \A u \in T : t <= u
  <2> HIDE DEF T
  <2> QED BY <1>1, Least
<1>3. PICK x \in S : t = n - x
  BY <1>2
<1>4. \A y \in S : y <= x
  <2> SUFFICES ASSUME NEW y \in S PROVE y <= x
    OBVIOUS
  <2>1. t <= n - y
    BY <1>2
  <2> QED BY <1>3, <2>1
<1>5. O!Greatest(S) = {x}
  <2>1. x \in O!Greatest(S)
    BY <1>4 DEF O!Greatest
  <2>2. ASSUME NEW y \in O!Greatest(S) PROVE y = x
    <3>1. y \in S /\ x <= y /\ y <= x
      BY <1>4 DEF O!Greatest
    <3>2. x \in Nat /\ y \in Nat
      BY <3>1
    <3> QED BY <3>1, <3>2
  <2> QED BY <2>1, <2>2
<1> QED BY <1>4, <1>5

LEMMA BoundaryIs ==
  ASSUME NEW objs, Linked(objs), NEW o \in 1 .. Len(objs)
  PROVE  \/ (\A a \in O!Line(objs)[o] : objs[a].exports = None) /\ O!Boundary(objs, o) = None
         \/ \E a \in O!Line(objs)[o] : Rules(objs, o, a) /\ O!Boundary(objs, o) = objs[a].exports
<1> DEFINE drawn == {a \in O!Line(objs)[o] : objs[a].exports # None}
<1>1. O!Line(objs)[o] \subseteq 1 .. o /\ o \in Nat
  BY LineDown
<1>2. O!Boundary(objs, o) = IF drawn = {} THEN None ELSE objs[CHOOSE a \in O!Greatest(drawn) : TRUE].exports
  BY DEF O!Boundary
<1>3. CASE drawn = {}
  BY <1>2, <1>3
<1>4. CASE drawn # {}
  <2>1. drawn \in SUBSET (0 .. o)
    BY <1>1
  <2>2. PICK a \in drawn : O!Greatest(drawn) = {a} /\ \A b \in drawn : b <= a
    <3> HIDE DEF drawn
    <3> QED BY <1>1, <1>4, <2>1, HasGreatest
  <2>3. (CHOOSE b \in O!Greatest(drawn) : TRUE) = a
    <3> HIDE DEF drawn
    <3> QED BY <2>2
  <2>4. O!Boundary(objs, o) = objs[a].exports
    <3> HIDE DEF drawn
    <3> QED BY <1>2, <1>4, <2>3
  <2>5. Rules(objs, o, a)
    <3>1. ASSUME NEW b \in O!Line(objs)[o], b > a PROVE objs[b].exports = None
      <4> SUFFICES ASSUME objs[b].exports # None PROVE FALSE
        OBVIOUS
      <4>1. b <= a
        BY <2>2
      <4>2. b \in Nat /\ a \in Nat
        BY <1>1
      <4> QED BY <3>1, <4>1, <4>2
    <3> QED BY <3>1 DEF Rules
  <2> QED BY <2>4, <2>5
<1> QED BY <1>3, <1>4

\* No two do.
LEMMA RulesAlone ==
  ASSUME NEW objs, Linked(objs), NEW o \in 1 .. Len(objs), NEW a, Rules(objs, o, a)
  PROVE  O!Boundary(objs, o) = objs[a].exports
<1>1. O!Line(objs)[o] \subseteq 1 .. o
  BY LineDown
<1>2. a \in O!Line(objs)[o] /\ objs[a].exports # None
  BY DEF Rules
<1>3. PICK b \in O!Line(objs)[o] : Rules(objs, o, b) /\ O!Boundary(objs, o) = objs[b].exports
  BY <1>2, BoundaryIs
<1>4. a \in Nat /\ b \in Nat
  BY <1>1, <1>2
<1>5. ~(a > b) /\ ~(b > a)
  BY <1>2, <1>3 DEF Rules
<1>6. a = b
  BY <1>4, <1>5
<1> QED BY <1>3, <1>6

\* Whose exports must stay for the boundary over o to stay: those of its line,
\* or of its line from the one that rules.
LEMMA BoundaryStays ==
  ASSUME NEW objs, NEW more, Linked(objs), Linked(more), Len(objs) <= Len(more),
         \A o \in 1 .. Len(objs) : more[o].proto = objs[o].proto,
         NEW o \in 1 .. Len(objs), NEW x,
         \A a \in O!Line(objs)[o] : a # x => more[a].exports = objs[a].exports,
         x \notin O!Line(objs)[o] \/ \E a \in O!Line(objs)[o] : a > x /\ objs[a].exports # None
  PROVE  O!Boundary(more, o) = O!Boundary(objs, o)
<1>1. O!Line(more)[o] = O!Line(objs)[o] /\ o \in 1 .. Len(more)
  <2>1. Len(objs) \in Nat /\ Len(more) \in Nat
    BY DEF Linked
  <2> QED BY <2>1, LineStays
<1>2. O!Line(objs)[o] \subseteq 1 .. o
  BY LineDown
<1>3. CASE \A a \in O!Line(objs)[o] : objs[a].exports = None
  <2>1. \A a \in O!Line(more)[o] : more[a].exports = None
    BY <1>1, <1>3
  <2>2. O!Boundary(more, o) = None
    BY <1>1, <2>1, BoundaryIs DEF Rules
  <2>3. O!Boundary(objs, o) = None
    BY <1>3, BoundaryIs DEF Rules
  <2> QED BY <2>2, <2>3
<1>4. CASE \E a \in O!Line(objs)[o] : objs[a].exports # None
  <2>1. PICK a \in O!Line(objs)[o] : Rules(objs, o, a) /\ O!Boundary(objs, o) = objs[a].exports
    BY <1>4, BoundaryIs
  <2>2. a # x /\ \A b \in O!Line(objs)[o] : b > a => b # x
    <3>1. CASE x \notin O!Line(objs)[o]
      BY <3>1
    <3>2. ASSUME NEW c \in O!Line(objs)[o], c > x, objs[c].exports # None, x \in O!Line(objs)[o]
          PROVE  a # x /\ \A b \in O!Line(objs)[o] : b > a => b # x
      <4>1. a \in Nat /\ c \in Nat /\ x \in Nat
        BY <1>2, <3>2
      <4>2. ~(c > a)
        BY <2>1, <3>2 DEF Rules
      <4>3. a > x
        BY <3>2, <4>1, <4>2
      <4> QED BY <4>1, <4>3
    <3> QED BY <3>1, <3>2
  <2>3. Rules(more, o, a)
    BY <1>1, <2>1, <2>2 DEF Rules
  <2>4. O!Boundary(more, o) = more[a].exports
    BY <1>1, <2>3, RulesAlone
  <2> QED BY <2>1, <2>2, <2>4
<1> QED BY <1>3, <1>4

-----------------------------------------------------------------------------
(* The index of one object                                                 *)

NameAt(ob, j) == ob.slots[ob.held[j]].name

\* The seats are more than enough; the index leads to slots that are there, of
\* each name first to the newest; and to all names if it has kept pace.
Indexed(ob) ==
  /\ ob.seats = 0 => ob.held = <<>>
  /\ 2 * Len(ob.held) <= ob.seats /\ Len(ob.held) <= Len(ob.slots)
  /\ \A j \in DOMAIN ob.held : ob.held[j] \in DOMAIN ob.slots
  /\ \A j \in DOMAIN ob.held :
       (\A k \in DOMAIN ob.held : k < j => NameAt(ob, k) # NameAt(ob, j)) =>
         \A i \in DOMAIN ob.slots : ob.slots[i].name = NameAt(ob, j) => i <= ob.held[j]
  /\ ob.seats # 0 /\ O!Complete(ob) =>
       \A i \in DOMAIN ob.slots : \E j \in DOMAIN ob.held : NameAt(ob, j) = ob.slots[i].name

\* Of some places one is the first.
LEMMA HasEarliest ==
  ASSUME NEW S \in SUBSET Nat, S # {}
  PROVE  \E x \in S : O!Earliest(S) = {x} /\ \A y \in S : x <= y
<1>1. PICK x \in S : \A y \in S : x <= y
  BY Least
<1>2. O!Earliest(S) = {x}
  <2>1. x \in O!Earliest(S)
    BY <1>1 DEF O!Earliest
  <2>2. ASSUME NEW y \in O!Earliest(S) PROVE y = x
    <3>1. y \in S /\ x <= y /\ y <= x
      BY <1>1 DEF O!Earliest
    <3>2. x \in Nat /\ y \in Nat
      BY <3>1
    <3> QED BY <3>1, <3>2
  <2> QED BY <2>1, <2>2
<1> QED BY <1>1, <1>2

\* What an object's own slot of a name is.
LEMMA OwnIs ==
  ASSUME NEW ob \in Object, Indexed(ob), NEW n
  PROVE  /\ O!Own(ob, n) \subseteq O!Greatest(O!InList(ob, n))
         /\ O!Complete(ob) => O!Own(ob, n) = O!Greatest(O!InList(ob, n))
         /\ O!Own(ob, n) = {} \/ \E i \in DOMAIN ob.slots : O!Own(ob, n) = {i} /\ ob.slots[i].name = n
         /\ ob.seats # 0 /\ O!Own(ob, n) = {} => \A j \in DOMAIN ob.held : NameAt(ob, j) # n
         /\ ob.seats = 0 \/ O!Complete(ob) =>
              (O!Own(ob, n) = {} <=> \A i \in DOMAIN ob.slots : ob.slots[i].name # n)
<1> DEFINE L == O!InList(ob, n)
           H == O!Hits(ob, n)
<1>1. /\ ob.slots \in Seq(Slot) /\ ob.held \in Seq(Nat) /\ Len(ob.slots) \in Nat
      /\ DOMAIN ob.slots = 1 .. Len(ob.slots) /\ DOMAIN ob.held = 1 .. Len(ob.held)
  BY DEF Object
<1>2. L \in SUBSET (0 .. Len(ob.slots)) /\ H \in SUBSET Nat
  BY <1>1 DEF O!InList, O!Hits
<1>3. L = {} \/ \E i \in L : O!Greatest(L) = {i} /\ \A k \in L : k <= i
  <2> HIDE DEF L
  <2> QED BY <1>1, <1>2, HasGreatest
<1>4. L = {} => O!Greatest(L) = {}
  BY DEF O!Greatest
<1>5. \A i : i \in L <=> i \in DOMAIN ob.slots /\ ob.slots[i].name = n
  BY DEF O!InList
<1>6. CASE ob.seats = 0
  <2>1. O!Own(ob, n) = O!Greatest(L)
    BY <1>6 DEF O!Own
  <2> HIDE DEF L
  <2> QED BY <1>3, <1>4, <1>5, <1>6, <2>1 DEF L
<1>7. CASE ob.seats # 0
  <2>1. O!Own(ob, n) = {ob.held[j] : j \in O!Earliest(H)}
    BY <1>7 DEF O!Own, O!IndexFind
  <2>2. \A j : j \in H <=> j \in DOMAIN ob.held /\ NameAt(ob, j) = n
    BY DEF O!Hits, NameAt
  <2>3. CASE H = {}
    <3>1. O!Own(ob, n) = {}
      BY <2>1, <2>3 DEF O!Earliest
    <3>2. O!Complete(ob) => L = {}
      BY <1>5, <1>7, <2>2, <2>3 DEF Indexed
    <3> HIDE DEF L, H
    <3> QED BY <1>4, <1>5, <1>7, <2>2, <2>3, <3>1, <3>2 DEF L
  <2>4. CASE H # {}
    <3>1. PICK j \in H : O!Earliest(H) = {j} /\ \A k \in H : j <= k
      <4> HIDE DEF H
      <4> QED BY <1>2, <2>4, HasEarliest
    <3>2. O!Own(ob, n) = {ob.held[j]}
      BY <2>1, <3>1
    <3>3. j \in DOMAIN ob.held /\ NameAt(ob, j) = n /\ ob.held[j] \in DOMAIN ob.slots
      BY <2>2 DEF Indexed
    <3>4. ASSUME NEW k \in DOMAIN ob.held, k < j PROVE NameAt(ob, k) # NameAt(ob, j)
      <4> SUFFICES ASSUME NameAt(ob, k) = n PROVE FALSE
        BY <3>3
      <4>1. k \in H
        BY <2>2
      <4>2. j <= k
        BY <3>1, <4>1
      <4> QED BY <1>1, <3>3, <3>4, <4>2
    <3>5. \A i \in DOMAIN ob.slots : ob.slots[i].name = n => i <= ob.held[j]
      BY <3>3, <3>4 DEF Indexed
    <3>6. ob.slots[ob.held[j]].name = n
      BY <3>3 DEF NameAt
    <3>7. ob.held[j] \in L /\ \A i \in L : i <= ob.held[j]
      BY <1>5, <3>3, <3>5, <3>6
    <3>8. ob.held[j] \in O!Greatest(L)
      BY <3>7 DEF O!Greatest
    <3> HIDE DEF L, H
    <3>9. O!Greatest(L) = {ob.held[j]}
      BY <1>3, <3>7, <3>8
    <3> QED BY <1>5, <1>7, <2>2, <3>2, <3>3, <3>6, <3>7, <3>8, <3>9 DEF L
  <2> QED BY <2>3, <2>4
<1> QED BY <1>6, <1>7

\* The size of an index doubles until it is enough.
LEMMA DoublingIs ==
  ASSUME O!ObjectsAssumption
  PROVE  /\ O!Doubling \in [Nat -> Nat] /\ O!Doubling[0] = MinSeats
         /\ \A k \in Nat : O!Doubling[k + 1] = 2 * O!Doubling[k]
<1> DEFINE twice == [x \in Nat |-> 2 * x]
           next(f, k) == IF k = 0 THEN MinSeats ELSE 2 * f[k - 1]
<1>1. MinSeats \in Nat /\ twice \in [Nat -> Nat]
  BY DEF O!ObjectsAssumption
<1>2. PICK g \in [Nat -> Nat] : g[0] = MinSeats /\ \A k \in Nat : g[k + 1] = twice[g[k]]
  <2> HIDE DEF twice
  <2>1. \E g \in [Nat -> Nat] : Iterates(g, MinSeats, twice)
    BY <1>1, Iterated
  <2> QED BY <2>1 DEF Iterates
<1>3. \A k \in Nat : g[k + 1] = 2 * g[k]
  BY <1>2
<1>4. \A k \in Nat : g[k] = next(g, k)
  <2>1. \A k \in Nat : k # 0 => k - 1 \in Nat /\ (k - 1) + 1 = k
    OBVIOUS
  <2> QED BY <1>2, <1>3, <2>1
<1> HIDE DEF next
<1>5. g = [k \in Nat |-> next(g, k)]
  BY <1>2, <1>4
<1> DEFINE d == CHOOSE f : f = [k \in Nat |-> next(f, k)]
<1>6. d = [k \in Nat |-> next(d, k)]
  BY <1>5
<1>7. O!Doubling = d
  BY DEF O!Doubling, next
<1> HIDE DEF d
<1>8. \A k \in Nat : O!Doubling[k] = IF k = 0 THEN MinSeats ELSE 2 * O!Doubling[k - 1]
  BY <1>6, <1>7 DEF next
<1>9. O!Doubling[0] = MinSeats
  BY <1>8
<1>10. \A k \in Nat : O!Doubling[k + 1] = 2 * O!Doubling[k]
  <2> SUFFICES ASSUME NEW k \in Nat PROVE O!Doubling[k + 1] = 2 * O!Doubling[k]
    OBVIOUS
  <2>1. k + 1 \in Nat /\ k + 1 # 0 /\ (k + 1) - 1 = k
    OBVIOUS
  <2> QED BY <1>8, <2>1
<1>11. O!Doubling = [k \in Nat |-> O!Doubling[k]]
  BY <1>6, <1>7
<1>12. \A k \in Nat : O!Doubling[k] \in Nat
  <2> DEFINE T == {k \in Nat : O!Doubling[k] \in Nat}
  <2>1. 0 \in T /\ T \in SUBSET Nat
    BY <1>1, <1>9
  <2>2. \A k \in Nat : k \in T => k + 1 \in T
    BY <1>10
  <2> HIDE DEF T
  <2>3. T = Nat
    BY <2>1, <2>2, AllNumbers
  <2> QED BY <2>3 DEF T
<1> QED BY <1>9, <1>10, <1>11, <1>12

LEMMA DoubledEnough ==
  ASSUME O!ObjectsAssumption, NEW enough \in Nat
  PROVE  O!Doubled(enough) \in Nat /\ O!Doubled(enough) >= enough
<1>1. /\ O!Doubling \in [Nat -> Nat] /\ O!Doubling[0] = MinSeats
      /\ \A k \in Nat : O!Doubling[k + 1] = 2 * O!Doubling[k]
  BY DoublingIs
<1>2. \A k \in Nat : O!Doubling[k] >= k + 1
  <2> DEFINE T == {k \in Nat : O!Doubling[k] >= k + 1}
  <2>1. 0 \in T /\ T \in SUBSET Nat
    BY <1>1 DEF O!ObjectsAssumption
  <2>2. \A k \in Nat : k \in T => k + 1 \in T
    BY <1>1
  <2> HIDE DEF T
  <2>3. T = Nat
    BY <2>1, <2>2, AllNumbers
  <2> QED BY <2>3 DEF T
<1> DEFINE S == {k \in Nat : O!Doubling[k] >= enough}
<1>3. O!Doubling[enough] >= enough
  BY <1>1, <1>2
<1>4. S \in SUBSET Nat /\ enough \in S
  BY <1>3
<1>5. PICK x \in S : \A y \in S : x <= y
  <2> HIDE DEF S
  <2> QED BY <1>4, Least
<1>6. x \in 0 .. enough /\ O!Doubling[x] >= enough
  BY <1>4, <1>5
<1>7. x = 0 \/ O!Doubling[x - 1] < enough
  <2> SUFFICES ASSUME x # 0 PROVE O!Doubling[x - 1] < enough
    OBVIOUS
  <2>1. x - 1 \in Nat /\ ~(x <= x - 1)
    BY <1>6
  <2>2. x - 1 \notin S
    BY <1>5, <2>1
  <2>3. O!Doubling[x - 1] \in Nat
    BY <1>1, <2>1
  <2> QED BY <2>1, <2>2, <2>3
<1> DEFINE last(k) == O!Doubling[k] >= enough /\ (k = 0 \/ O!Doubling[k - 1] < enough)
           c == CHOOSE k \in 0 .. enough : last(k)
<1>8. last(x)
  BY <1>6, <1>7
<1> HIDE DEF last
<1>9. c \in 0 .. enough /\ last(c)
  BY <1>6, <1>8
<1>10. O!Doubled(enough) = O!Doubling[c]
  BY DEF O!Doubled, last
<1> HIDE DEF c
<1> QED BY <1>1, <1>9, <1>10 DEF last

\* An index made again from the list has all of it.
LEMMA RemadeIs ==
  ASSUME O!ObjectsAssumption, NEW ob \in Object, ob.slots # <<>>
  PROVE  /\ O!Rebuilt(ob) \in Object /\ Indexed(O!Rebuilt(ob))
         /\ O!Rebuilt(ob) = [ob EXCEPT !.seats = O!Rebuilt(ob).seats, !.held = O!Rebuilt(ob).held]
<1> DEFINE size == Len(ob.slots)
           seats == O!Doubled(2 * size)
           held == [i \in DOMAIN ob.slots |-> size + 1 - i]
           new == O!Rebuilt(ob)
<1>1. ob.slots \in Seq(Slot) /\ size \in Nat /\ DOMAIN ob.slots = 1 .. size /\ size # 0
  BY DEF Object
<1>2. seats \in Nat /\ seats >= 2 * size
  BY <1>1, DoubledEnough
<1>3. held = [i \in 1 .. size |-> size + 1 - i] /\ \A i \in 1 .. size : size + 1 - i \in Nat
  BY <1>1
<1>4. held \in Seq(Nat) /\ Len(held) = size /\ DOMAIN held = 1 .. size
  BY <1>1, <1>3
<1>5. new = [ob EXCEPT !.seats = seats, !.held = held]
  BY DEF O!Rebuilt
<1> HIDE DEF seats
<1>6. \A i \in 1 .. size : held[i] = size + 1 - i
  BY <1>3
<1> HIDE DEF held, new
<1>7. new.slots = ob.slots /\ new.seats = seats /\ new.held = held /\ new \in Object /\ Len(new.slots) = size
  BY <1>2, <1>4, <1>5 DEF Object
<1>8. \A j \in 1 .. size : NameAt(new, j) = ob.slots[size + 1 - j].name /\ size + 1 - j \in 1 .. size
  BY <1>1, <1>6, <1>7 DEF NameAt
<1> HIDE DEF size
<1>9. ASSUME NEW j \in 1 .. size,
             \A k \in 1 .. size : k < j => NameAt(new, k) # NameAt(new, j),
             NEW i \in 1 .. size, ob.slots[i].name = NameAt(new, j)
      PROVE  i <= size + 1 - j
  <2> SUFFICES ASSUME i > size + 1 - j PROVE FALSE
    BY <1>1
  <2>1. size + 1 - i \in 1 .. size /\ size + 1 - i < j /\ size + 1 - (size + 1 - i) = i
    BY <1>1
  <2>2. NameAt(new, size + 1 - i) = ob.slots[i].name
    BY <1>8, <2>1
  <2> QED BY <1>9, <2>1, <2>2
<1>10. \A i \in 1 .. size : \E j \in 1 .. size : NameAt(new, j) = ob.slots[i].name
  <2> SUFFICES ASSUME NEW i \in 1 .. size
               PROVE  NameAt(new, size + 1 - i) = ob.slots[i].name /\ size + 1 - i \in 1 .. size
    OBVIOUS
  <2>1. size + 1 - i \in 1 .. size /\ size + 1 - (size + 1 - i) = i
    BY <1>1
  <2> QED BY <1>8, <2>1
<1>11. Indexed(new)
  <2>1. seats # 0
    BY <1>1, <1>2
  <2>2. \A j \in 1 .. size : held[j] \in 1 .. size
    BY <1>6, <1>8
  <2>3. \A j \in 1 .. size :
          (\A k \in 1 .. size : k < j => NameAt(new, k) # NameAt(new, j)) =>
             \A i \in 1 .. size : ob.slots[i].name = NameAt(new, j) => i <= held[j]
    BY <1>6, <1>9
  <2>4. 2 * Len(new.held) <= new.seats /\ Len(new.held) <= Len(new.slots)
    BY <1>1, <1>2, <1>4, <1>7
  <2>5. DOMAIN new.held = 1 .. size /\ DOMAIN new.slots = 1 .. size
    BY <1>1, <1>4, <1>7
  <2>6. /\ \A j \in 1 .. size : new.held[j] \in 1 .. size
        /\ \A j \in 1 .. size :
             (\A k \in 1 .. size : k < j => NameAt(new, k) # NameAt(new, j)) =>
                \A i \in 1 .. size : new.slots[i].name = NameAt(new, j) => i <= new.held[j]
        /\ \A i \in 1 .. size : \E j \in 1 .. size : NameAt(new, j) = new.slots[i].name
    BY <1>7, <1>10, <2>2, <2>3
  <2>7. new.seats # 0
    BY <1>7, <2>1
  <2> QED BY <2>4, <2>5, <2>6, <2>7 DEF Indexed
<1>12. new = [ob EXCEPT !.seats = new.seats, !.held = new.held]
  BY <1>5, <1>7
<1> QED BY <1>7, <1>11, <1>12 DEF new

\* Only the names of the slots matter to an index.
LEMMA SameNames ==
  ASSUME NEW ob \in Object, NEW new \in Object, Indexed(ob),
         new.seats = ob.seats, new.held = ob.held, Len(new.slots) = Len(ob.slots),
         \A i \in DOMAIN ob.slots : new.slots[i].name = ob.slots[i].name
  PROVE  Indexed(new)
<1>1. DOMAIN new.slots = DOMAIN ob.slots /\ DOMAIN new.held = DOMAIN ob.held
  BY DEF Object
<1>2. \A j \in DOMAIN ob.held : NameAt(new, j) = NameAt(ob, j)
  BY DEF Indexed, NameAt
<1>3. O!Complete(new) <=> O!Complete(ob)
  BY DEF O!Complete
<1> QED BY <1>1, <1>2, <1>3 DEF Indexed

\* A slot that is new to an object joins its list, and its index keeps right.
LEMMA WithSlotIs ==
  ASSUME O!ObjectsAssumption, NEW ob \in Object, Indexed(ob), NEW slot \in Slot, NEW got \in BOOLEAN,
         O!Own(ob, slot.name) = {}
  PROVE  LET new == O!WithSlot(ob, slot, got) IN
           /\ new \in Object /\ Indexed(new) /\ new.slots = Append(ob.slots, slot)
           /\ new.proto = ob.proto /\ new.exports = ob.exports
<1> DEFINE longer == [ob EXCEPT !.slots = Append(@, slot)]
           size == Len(longer.slots)
           put == [longer EXCEPT !.held = Append(@, size)]
           Fits(new) == /\ new \in Object /\ Indexed(new) /\ new.slots = Append(ob.slots, slot)
                        /\ new.proto = ob.proto /\ new.exports = ob.exports
<1>1. /\ ob.slots \in Seq(Slot) /\ ob.held \in Seq(Nat) /\ ob.seats \in Nat /\ Len(ob.slots) \in Nat
      /\ DOMAIN ob.slots = 1 .. Len(ob.slots) /\ DOMAIN ob.held = 1 .. Len(ob.held)
      /\ Len(ob.held) \in Nat
  BY DEF Object
<1>2. /\ longer \in Object /\ longer.slots = Append(ob.slots, slot) /\ longer.seats = ob.seats
      /\ longer.held = ob.held /\ longer.proto = ob.proto /\ longer.exports = ob.exports
  <2> DEFINE list == Append(ob.slots, slot)
  <2>1. list \in Seq(Slot) /\ longer = [ob EXCEPT !.slots = list]
    BY <1>1
  <2> HIDE DEF list, longer
  <2>2. /\ longer \in Object /\ longer.slots = list /\ longer.seats = ob.seats
        /\ longer.held = ob.held /\ longer.proto = ob.proto /\ longer.exports = ob.exports
    BY <2>1 DEF Object
  <2> QED BY <2>2 DEF list
<1>3. /\ size = Len(ob.slots) + 1 /\ DOMAIN longer.slots = 1 .. size /\ longer.slots[size] = slot
      /\ \A i \in 1 .. Len(ob.slots) : longer.slots[i] = ob.slots[i]
  BY <1>1, <1>2
<1>4. O!WithSlot(ob, slot, got) =
        IF ob.seats = 0 THEN IF size > Threshold THEN IF got THEN O!Rebuilt(longer) ELSE longer ELSE longer
        ELSE IF 2 * size > ob.seats THEN IF got THEN O!Rebuilt(longer) ELSE longer
        ELSE put
  BY DEF O!WithSlot
<1> HIDE DEF longer
<1>5. Fits(O!Rebuilt(longer))
  <2>1. longer.slots # <<>>
    BY <1>3
  <2>2. /\ O!Rebuilt(longer) \in Object /\ Indexed(O!Rebuilt(longer))
        /\ O!Rebuilt(longer) = [longer EXCEPT !.seats = O!Rebuilt(longer).seats, !.held = O!Rebuilt(longer).held]
    BY <1>2, <2>1, RemadeIs
  <2> DEFINE new == O!Rebuilt(longer)
  <2>3. new.slots = longer.slots /\ new.proto = longer.proto /\ new.exports = longer.exports
    <3> DEFINE s == new.seats
               h == new.held
    <3>1. new = [longer EXCEPT !.seats = s, !.held = h]
      BY <2>2
    <3> HIDE DEF s, h, new
    <3> QED BY <1>2, <3>1 DEF Object
  <2> HIDE DEF new
  <2> QED BY <1>2, <2>2, <2>3 DEF new
<1>6. \A j \in DOMAIN ob.held : /\ NameAt(longer, j) = NameAt(ob, j) /\ ob.held[j] \in 1 .. Len(ob.slots)
                                /\ ob.seats # 0 => NameAt(ob, j) # slot.name
  <2>1. \A j \in DOMAIN ob.held : ob.held[j] \in 1 .. Len(ob.slots)
    BY <1>1 DEF Indexed
  <2>2. ob.seats # 0 => \A j \in DOMAIN ob.held : NameAt(ob, j) # slot.name
    BY OwnIs
  <2> QED BY <1>2, <1>3, <2>1, <2>2 DEF NameAt
<1>7. CASE ob.seats = 0
  <2>1. ob.held = <<>> /\ DOMAIN ob.held = {}
    BY <1>1, <1>7 DEF Indexed
  <2>2. Indexed(longer)
    BY <1>2, <1>7, <2>1 DEF Indexed
  <2>3. Fits(longer)
    BY <1>2, <2>2
  <2> QED BY <1>4, <1>5, <1>7, <2>3
<1>8. CASE ob.seats # 0 /\ 2 * size > ob.seats
  <2>1. ~O!Complete(longer)
    BY <1>1, <1>2, <1>3, <1>8 DEF O!Complete
  <2>2. \A j \in DOMAIN longer.held :
          (\A k \in DOMAIN longer.held : k < j => NameAt(longer, k) # NameAt(longer, j)) =>
            \A i \in DOMAIN longer.slots : longer.slots[i].name = NameAt(longer, j) => i <= longer.held[j]
    <3> SUFFICES ASSUME NEW j \in DOMAIN ob.held,
                        \A k \in DOMAIN ob.held : k < j => NameAt(ob, k) # NameAt(ob, j),
                        NEW i \in 1 .. size, longer.slots[i].name = NameAt(ob, j)
                 PROVE  i <= ob.held[j]
      BY <1>2, <1>3, <1>6
    <3>1. i # size
      BY <1>3, <1>6, <1>8
    <3>2. i \in 1 .. Len(ob.slots)
      BY <1>1, <1>3, <3>1
    <3> QED BY <1>1, <1>3, <3>2 DEF Indexed
  <2>3. \A j \in DOMAIN longer.held : longer.held[j] \in DOMAIN longer.slots
    <3> SUFFICES ASSUME NEW j \in DOMAIN ob.held PROVE ob.held[j] \in 1 .. size
      BY <1>2, <1>3
    <3>1. ob.held[j] \in 1 .. Len(ob.slots)
      BY <1>6
    <3> QED BY <1>1, <1>3, <3>1
  <2>4. Indexed(longer)
    <3>1. 2 * Len(longer.held) <= longer.seats /\ Len(longer.held) <= Len(longer.slots)
      BY <1>1, <1>2, <1>3 DEF Indexed
    <3> QED BY <1>2, <1>8, <2>1, <2>2, <2>3, <3>1 DEF Indexed
  <2>5. Fits(longer)
    BY <1>2, <2>4
  <2> QED BY <1>4, <1>5, <1>8, <2>5
<1>9. CASE ob.seats # 0 /\ ~(2 * size > ob.seats)
  <2> DEFINE n == Len(ob.held)
  <2>1. /\ put \in Object /\ put.slots = longer.slots /\ put.seats = ob.seats
        /\ put.proto = ob.proto /\ put.exports = ob.exports /\ put.held = Append(ob.held, size)
    <3> DEFINE index == Append(ob.held, size)
    <3>1. index \in Seq(Nat)
      BY <1>1, <1>3
    <3>2. put = [longer EXCEPT !.held = index]
      BY <1>2
    <3> HIDE DEF index, put
    <3>3. /\ put \in Object /\ put.slots = longer.slots /\ put.seats = longer.seats
          /\ put.proto = longer.proto /\ put.exports = longer.exports /\ put.held = index
      BY <1>2, <3>1, <3>2 DEF Object
    <3> QED BY <1>2, <3>3 DEF index
  <2>2. /\ Len(put.held) = n + 1 /\ DOMAIN put.held = 1 .. n + 1 /\ put.held[n + 1] = size
        /\ \A j \in 1 .. n : put.held[j] = ob.held[j]
    BY <1>1, <1>3, <2>1
  <2> HIDE DEF put
  <2>3. /\ NameAt(put, n + 1) = slot.name
        /\ \A j \in 1 .. n : NameAt(put, j) = NameAt(ob, j)
    BY <1>1, <1>3, <1>6, <2>1, <2>2 DEF NameAt
  <2>4. O!Complete(ob) /\ 2 * Len(ob.slots) <= ob.seats
    BY <1>1, <1>3, <1>9 DEF O!Complete
  <2>5. \A i \in 1 .. Len(ob.slots) : /\ ob.slots[i].name # slot.name
                                      /\ \E j \in 1 .. n : NameAt(ob, j) = ob.slots[i].name
    <3>1. \A i \in DOMAIN ob.slots : ob.slots[i].name # slot.name
      BY <2>4, OwnIs
    <3>2. \A i \in DOMAIN ob.slots : \E j \in DOMAIN ob.held : NameAt(ob, j) = ob.slots[i].name
      BY <1>9, <2>4 DEF Indexed
    <3> QED BY <1>1, <3>1, <3>2
  <2>6. 2 * Len(put.held) <= put.seats /\ Len(put.held) <= Len(put.slots)
    <3>1. n <= Len(ob.slots)
      BY DEF Indexed
    <3> QED BY <1>1, <1>3, <1>9, <2>1, <2>2, <3>1
  <2>7. \A j \in 1 .. n + 1 : j \in 1 .. n \/ j = n + 1
    BY <1>1
  <2>8. \A j \in 1 .. n + 1 : put.held[j] \in 1 .. size
    <3> SUFFICES ASSUME NEW j \in 1 .. n + 1 PROVE put.held[j] \in 1 .. size
      OBVIOUS
    <3>1. CASE j = n + 1
      BY <1>1, <1>3, <2>2, <3>1
    <3>2. CASE j \in 1 .. n
      <4>1. put.held[j] = ob.held[j] /\ ob.held[j] \in 1 .. Len(ob.slots)
        BY <1>1, <1>6, <2>2, <3>2
      <4> QED BY <1>1, <1>3, <4>1
    <3> QED BY <2>7, <3>1, <3>2
  <2>9. ASSUME NEW j \in 1 .. n + 1,
               \A k \in 1 .. n + 1 : k < j => NameAt(put, k) # NameAt(put, j),
               NEW i \in 1 .. size, longer.slots[i].name = NameAt(put, j)
        PROVE  i <= put.held[j]
    <3>1. CASE j = n + 1
      BY <1>1, <1>3, <2>2, <3>1
    <3>2. CASE j # n + 1
      <4>1. j \in 1 .. n /\ \A k \in 1 .. n : k \in 1 .. n + 1
        BY <1>1, <2>7, <3>2
      <4>2. \A k \in 1 .. n : k < j => NameAt(ob, k) # NameAt(ob, j)
        BY <2>3, <2>9, <4>1
      <4>3. NameAt(ob, j) # slot.name
        BY <1>1, <1>6, <1>9, <4>1
      <4>4. i # size
        BY <1>3, <2>3, <2>9, <4>1, <4>3
      <4>5. i \in 1 .. Len(ob.slots) /\ ob.slots[i].name = NameAt(ob, j)
        BY <1>1, <1>3, <2>3, <2>9, <4>1, <4>4
      <4>6. i <= ob.held[j]
        BY <1>1, <4>1, <4>2, <4>5 DEF Indexed
      <4> QED BY <2>2, <4>1, <4>6
    <3> QED BY <3>1, <3>2
  <2>10. \A i \in 1 .. size : \E j \in 1 .. n + 1 : NameAt(put, j) = longer.slots[i].name
    <3> SUFFICES ASSUME NEW i \in 1 .. size
                 PROVE  \E j \in 1 .. n + 1 : NameAt(put, j) = longer.slots[i].name
      OBVIOUS
    <3>1. CASE i = size
      <4>1. n + 1 \in 1 .. n + 1
        BY <1>1
      <4> QED BY <1>3, <2>3, <3>1, <4>1
    <3>2. CASE i # size
      <4>1. i \in 1 .. Len(ob.slots)
        BY <1>1, <1>3, <3>2
      <4>2. PICK j \in 1 .. n : NameAt(ob, j) = ob.slots[i].name
        BY <2>5, <4>1
      <4>3. j \in 1 .. n + 1
        BY <1>1
      <4> QED BY <1>3, <2>3, <4>1, <4>2, <4>3
    <3> QED BY <3>1, <3>2
  <2>11. Indexed(put)
    BY <1>3, <1>9, <2>1, <2>2, <2>6, <2>8, <2>9, <2>10 DEF Indexed
  <2>12. Fits(put)
    BY <1>2, <2>1, <2>11
  <2> QED BY <1>4, <1>9, <2>12
<1> QED BY <1>7, <1>8, <1>9

-----------------------------------------------------------------------------
(* The objects                                                             *)

\* Whether a slot of that name is reachable from outside under the boundary over o.
Open(objs, arr, o, n) == O!Boundary(objs, o) = None \/ n \in arr[O!Boundary(objs, o)]

\* The slots of the objects of S are open where their boundary says so.
Judged(objs, arr, S) ==
  \A o \in S : \A i \in DOMAIN objs[o].slots :
    objs[o].slots[i].exported <=> Open(objs, arr, o, objs[o].slots[i].name)

Typed ==
  /\ Linked(objects) /\ array \in [List -> SUBSET Name]
  /\ filling \in [within : BOOLEAN, names : SUBSET Name]
  /\ settled \subseteq O!Made

AllIndexed(objs) == \A o \in 1 .. Len(objs) : Indexed(objs[o])

\* What is still to be bound on the newest object is not on it.
StillToBind(objs, names) ==
  names # {} =>
    /\ Len(objs) >= 1
    /\ \A i \in DOMAIN objs[Len(objs)].slots : objs[Len(objs)].slots[i].name \notin names

ObjectsInv ==
  /\ Typed /\ AllIndexed(objects) /\ Judged(objects, array, settled)
  /\ StillToBind(objects, filling.names)

\* A boundary is an array of the program, or none.
LEMMA BoundaryType ==
  ASSUME NEW objs, Linked(objs), NEW o \in 1 .. Len(objs)
  PROVE  O!Boundary(objs, o) \in List \cup {None}
<1>1. CASE O!Boundary(objs, o) = None
  BY <1>1
<1>2. ASSUME NEW a \in O!Line(objs)[o], O!Boundary(objs, o) = objs[a].exports
      PROVE  O!Boundary(objs, o) \in List \cup {None}
  <2>1. a \in 1 .. Len(objs)
    <3>1. O!Line(objs)[o] \subseteq 1 .. o /\ Len(objs) \in Nat
      BY LineDown DEF Linked
    <3> QED BY <3>1
  <2>2. objs[a] \in Object
    BY <2>1 DEF Linked
  <2> QED BY <1>2, <2>2 DEF Object
<1> QED BY <1>1, <1>2, BoundaryIs

LEMMA OpenIs ==
  ASSUME NEW objs, NEW o, NEW n
  PROVE  /\ O!ExportedOn(objs, o, n) \in BOOLEAN
         /\ O!ExportedOn(objs, o, n) <=> Open(objs, array, o, n)
BY DEF O!ExportedOn, O!Listed, Open

\* The same objects with the same exports, and more of them: what is open stays so.
LEMMA OpenStays ==
  ASSUME NEW objs, NEW more, Linked(objs), Linked(more), Len(objs) <= Len(more),
         \A o \in 1 .. Len(objs) : more[o].proto = objs[o].proto /\ more[o].exports = objs[o].exports
  PROVE  \A o \in 1 .. Len(objs) : O!Boundary(more, o) = O!Boundary(objs, o)
<1> SUFFICES ASSUME NEW o \in 1 .. Len(objs) PROVE O!Boundary(more, o) = O!Boundary(objs, o)
  OBVIOUS
<1>1. O!Line(objs)[o] \subseteq 1 .. o /\ Len(objs) \in Nat
  BY LineDown DEF Linked
<1>2. 0 \notin O!Line(objs)[o] /\ \A a \in O!Line(objs)[o] : more[a].exports = objs[a].exports
  BY <1>1
<1> QED BY <1>2, BoundaryStays

\* What there is to know of one object.
LEMMA ObjectsAre ==
  ASSUME ObjectsInv
  PROVE  /\ Linked(objects) /\ Len(objects) \in Nat /\ settled \subseteq O!Made
         /\ \A o \in O!Made :
              /\ objects[o] \in Object /\ Indexed(objects[o]) /\ objects[o].slots \in Seq(Slot)
              /\ Len(objects[o].slots) \in Nat
              /\ DOMAIN objects[o].slots = 1 .. Len(objects[o].slots)
<1>1. Linked(objects) /\ Len(objects) \in Nat /\ settled \subseteq O!Made
  BY DEF ObjectsInv, Typed, Linked
<1>2. \A o \in O!Made : objects[o] \in Object
  BY <1>1 DEF Linked, O!Made
<1>3. \A o \in O!Made : Indexed(objects[o])
  BY DEF ObjectsInv, AllIndexed, O!Made
<1>4. \A o \in O!Made : objects[o].slots \in Seq(Slot)
  BY <1>2 DEF Object
<1>5. \A o \in O!Made : /\ Len(objects[o].slots) \in Nat
                      /\ DOMAIN objects[o].slots = 1 .. Len(objects[o].slots)
  BY <1>4
<1> QED BY <1>1, <1>2, <1>3, <1>4, <1>5

\* A name bound on o: a slot is made that the boundary judges, or the one that
\* there is is written.
Bound(o, n, within, more) ==
  /\ Linked(more) /\ Len(more) = Len(objects) /\ AllIndexed(more)
  /\ \A p \in O!Made : more[p].proto = objects[p].proto /\ more[p].exports = objects[p].exports
  /\ \A p \in O!Made : p # o => more[p] = objects[p]
  /\ O!Own(objects[o], n) = {} =>
       more[o].slots = Append(objects[o].slots,
                              [name |-> n, exported |-> O!ExportedOn(objects, o, n), within |-> within])
  /\ O!Own(objects[o], n) # {} =>
       \E f \in DOMAIN objects[o].slots :
         /\ O!Own(objects[o], n) = {f} /\ objects[o].slots[f].name = n
         /\ DOMAIN more[o].slots = DOMAIN objects[o].slots
         /\ \A i \in DOMAIN objects[o].slots :
              /\ more[o].slots[i].name = objects[o].slots[i].name
              /\ more[o].slots[i].exported = objects[o].slots[i].exported
              /\ more[o].slots[i].within = IF i = f THEN within ELSE objects[o].slots[i].within

LEMMA DefineIs ==
  ASSUME O!ObjectsAssumption, ObjectsInv, NEW o \in O!Made, NEW n \in Name, NEW within \in BOOLEAN,
         NEW got \in BOOLEAN, NEW more, more = O!Define(o, n, within, got)
  PROVE  Bound(o, n, within, more)
<1> DEFINE ob == objects[o]
           found == O!Own(ob, n)
           slot == [name |-> n, exported |-> O!ExportedOn(objects, o, n), within |-> within]
           list == [i \in DOMAIN ob.slots |-> IF i \in found THEN [ob.slots[i] EXCEPT !.within = within]
                                               ELSE ob.slots[i]]
           new == IF found # {} THEN [ob EXCEPT !.slots = list] ELSE O!WithSlot(ob, slot, got)
<1>1. /\ objects \in Seq(Object) /\ Len(objects) \in Nat /\ DOMAIN objects = O!Made
      /\ ob \in Object /\ Indexed(ob)
      /\ \A p \in O!Made : objects[p].proto # None => objects[p].proto \in 1 .. p - 1
  BY DEF ObjectsInv, Typed, Linked, AllIndexed, O!Made
<1>2. slot \in Slot
  <2>1. O!ExportedOn(objects, o, n) \in BOOLEAN
    BY OpenIs
  <2> QED BY <2>1 DEF Slot
<1>3. more = [objects EXCEPT ![o] = new]
  BY DEF O!Define
<1> HIDE DEF slot
<1>4. ASSUME found = {}
      PROVE  new \in Object /\ Indexed(new) /\ new.slots = Append(ob.slots, slot)
             /\ new.proto = ob.proto /\ new.exports = ob.exports
  <2>1. slot.name = n
    BY DEF slot
  <2>2. new = O!WithSlot(ob, slot, got)
    BY <1>4
  <2>3. LET w == O!WithSlot(ob, slot, got) IN
           /\ w \in Object /\ Indexed(w) /\ w.slots = Append(ob.slots, slot)
           /\ w.proto = ob.proto /\ w.exports = ob.exports
    <3> HIDE DEF ob
    <3> QED BY <1>1, <1>2, <1>4, <2>1, WithSlotIs
  <2> HIDE DEF new, ob, found
  <2> QED BY <2>2, <2>3
<1>5. ASSUME found # {}
      PROVE  /\ new \in Object /\ Indexed(new) /\ new.proto = ob.proto /\ new.exports = ob.exports
             /\ \E f \in DOMAIN ob.slots :
                  /\ found = {f} /\ ob.slots[f].name = n
                  /\ DOMAIN new.slots = DOMAIN ob.slots
                  /\ \A i \in DOMAIN ob.slots :
                       /\ new.slots[i].name = ob.slots[i].name
                       /\ new.slots[i].exported = ob.slots[i].exported
                       /\ new.slots[i].within = IF i = f THEN within ELSE ob.slots[i].within
  <2>1. PICK f \in DOMAIN ob.slots : found = {f} /\ ob.slots[f].name = n
    <3> HIDE DEF ob
    <3> QED BY <1>1, <1>5, OwnIs
  <2>2. ob.slots \in Seq(Slot) /\ Len(ob.slots) \in Nat /\ DOMAIN ob.slots = 1 .. Len(ob.slots)
    BY <1>1 DEF Object
  <2> HIDE DEF ob, found
  <2>3. \A i \in DOMAIN ob.slots :
          /\ list[i] \in Slot /\ list[i].name = ob.slots[i].name /\ list[i].exported = ob.slots[i].exported
          /\ list[i].within = IF i = f THEN within ELSE ob.slots[i].within
    <3> SUFFICES ASSUME NEW i \in DOMAIN ob.slots
                 PROVE  /\ list[i] \in Slot /\ list[i].name = ob.slots[i].name
                        /\ list[i].exported = ob.slots[i].exported
                        /\ list[i].within = IF i = f THEN within ELSE ob.slots[i].within
      OBVIOUS
    <3>1. ob.slots[i] \in Slot
      BY <2>2
    <3>2. list[i] = IF i = f THEN [ob.slots[i] EXCEPT !.within = within] ELSE ob.slots[i]
      BY <2>1
    <3> HIDE DEF list
    <3> QED BY <3>1, <3>2 DEF Slot
  <2>4. list \in Seq(Slot) /\ Len(list) = Len(ob.slots) /\ DOMAIN list = DOMAIN ob.slots
    <3>1. DOMAIN list = 1 .. Len(ob.slots)
      BY <2>2
    <3>2. list \in [1 .. Len(ob.slots) -> Slot]
      BY <2>2, <2>3
    <3> HIDE DEF list
    <3> QED BY <2>2, <3>1, <3>2
  <2>5. new = [ob EXCEPT !.slots = list]
    BY <1>5
  <2> HIDE DEF list, new
  <2>6. /\ new \in Object /\ new.slots = list /\ new.seats = ob.seats /\ new.held = ob.held
        /\ new.proto = ob.proto /\ new.exports = ob.exports
    BY <1>1, <2>4, <2>5 DEF Object
  <2>7. Indexed(new)
    BY <1>1, <2>3, <2>4, <2>6, SameNames
  <2> QED BY <2>1, <2>3, <2>4, <2>6, <2>7
<1> HIDE DEF new, ob, found
<1>6. new \in Object /\ Indexed(new) /\ new.proto = ob.proto /\ new.exports = ob.exports
  BY <1>4, <1>5
<1>7. /\ more \in Seq(Object) /\ Len(more) = Len(objects) /\ DOMAIN more = O!Made /\ more[o] = new
      /\ \A p \in O!Made : p # o => more[p] = objects[p]
  BY <1>1, <1>3, <1>6
<1>8. \A p \in O!Made : more[p].proto = objects[p].proto /\ more[p].exports = objects[p].exports
  BY <1>6, <1>7 DEF ob
<1>9. Linked(more)
  BY <1>1, <1>7, <1>8 DEF Linked, O!Made
<1>10. AllIndexed(more)
  BY <1>6, <1>7 DEF AllIndexed, O!Made, ObjectsInv
<1>11. more[o].slots = new.slots
  BY <1>7
<1> QED BY <1>4, <1>5, <1>7, <1>8, <1>9, <1>10, <1>11 DEF slot, ob, found, Bound

-----------------------------------------------------------------------------
(* The invariant                                                           *)

LEMMA ObjectsStart == ASSUME O!ObjectsAssumption, O!Init PROVE ObjectsInv
<1> DEFINE ob == O!Blank(None)
<1>1. objects = <<ob>> /\ array \in [List -> SUBSET Name] /\ filling = O!Idle /\ settled = {1}
  BY DEF O!Init
<1>2. /\ ob \in Object /\ ob.slots = <<>> /\ ob.held = <<>> /\ ob.seats = 0 /\ ob.proto = None
  BY DEF Object, O!Blank
<1>3. Indexed(ob)
  BY <1>2 DEF Indexed
<1> HIDE DEF ob
<1>4. Len(objects) = 1 /\ objects[1] = ob /\ objects \in Seq(Object) /\ 1 .. 1 = {1}
  BY <1>1, <1>2
<1>5. Linked(objects)
  BY <1>2, <1>4 DEF Linked
<1>6. AllIndexed(objects)
  BY <1>3, <1>4 DEF AllIndexed
<1>7. Judged(objects, array, settled)
  BY <1>1, <1>2, <1>4 DEF Judged
<1>8. StillToBind(objects, filling.names)
  BY <1>1 DEF StillToBind, O!Idle
<1>9. Typed
  BY <1>1, <1>4, <1>5 DEF Typed, O!Idle, O!Made
<1> QED BY <1>6, <1>7, <1>8, <1>9 DEF ObjectsInv

LEMMA NewKeeps ==
  ASSUME O!ObjectsAssumption, ObjectsInv, NEW proto \in O!Made, NEW names \in SUBSET Name,
         NEW self \in O!SendersTo(proto), O!New(self, proto, names)
  PROVE  ObjectsInv'
<1> DEFINE ob == O!Blank(proto)
           size == Len(objects)
<1>1. /\ objects \in Seq(Object) /\ size \in Nat /\ Linked(objects) /\ proto \in 1 .. size
      /\ array \in [List -> SUBSET Name] /\ settled \subseteq 1 .. size
  BY DEF ObjectsInv, Typed, Linked, O!Made
<1>2. /\ objects' = Append(objects, ob) /\ settled' = settled \cup {size + 1} /\ array' = array
      /\ filling' = IF names = {} THEN O!Idle ELSE [within |-> O!Inside(self, proto), names |-> names]
  BY DEF O!New
<1>3. ob \in Object /\ ob.slots = <<>> /\ ob.held = <<>> /\ ob.seats = 0 /\ ob.proto = proto
  BY <1>1 DEF Object, O!Blank
<1>4. Indexed(ob)
  BY <1>3 DEF Indexed
<1> HIDE DEF ob
<1>5. /\ objects' \in Seq(Object) /\ Len(objects') = size + 1 /\ objects'[size + 1] = ob
      /\ \A o \in 1 .. size : objects'[o] = objects[o]
  BY <1>1, <1>2, <1>3
<1>6. \A o \in 1 .. size + 1 : o \in 1 .. size \/ o = size + 1
  BY <1>1
<1>7. Linked(objects')
  <2> SUFFICES ASSUME NEW o \in 1 .. size + 1, objects'[o].proto # None
               PROVE  objects'[o].proto \in 1 .. o - 1
    BY <1>5 DEF Linked
  <2>1. CASE o = size + 1
    BY <1>1, <1>3, <1>5, <2>1
  <2>2. CASE o \in 1 .. size
    BY <1>1, <1>5, <2>2 DEF Linked
  <2> QED BY <1>6, <2>1, <2>2
<1>8. AllIndexed(objects')
  <2> SUFFICES ASSUME NEW o \in 1 .. size + 1 PROVE Indexed(objects'[o])
    BY <1>5 DEF AllIndexed
  <2> QED BY <1>4, <1>5, <1>6 DEF ObjectsInv, AllIndexed
<1>9. Judged(objects', array', settled')
  <2>1. \A o \in 1 .. size : O!Boundary(objects', o) = O!Boundary(objects, o)
    <3>1. Len(objects) <= Len(objects')
      BY <1>1, <1>5
    <3> HIDE DEF size
    <3> QED BY <1>1, <1>5, <1>7, <3>1, OpenStays DEF size
  <2> SUFFICES ASSUME NEW o \in settled', NEW i \in DOMAIN objects'[o].slots
               PROVE  objects'[o].slots[i].exported
                        <=> Open(objects', array', o, objects'[o].slots[i].name)
    BY DEF Judged
  <2>2. o # size + 1
    BY <1>3, <1>5
  <2>3. o \in settled /\ o \in 1 .. size /\ objects'[o] = objects[o]
    BY <1>1, <1>2, <1>5, <2>2
  <2> QED BY <1>2, <2>1, <2>3 DEF ObjectsInv, Judged, Open
<1>10. StillToBind(objects', filling'.names)
  BY <1>1, <1>3, <1>5 DEF StillToBind
<1>11. filling' \in [within : BOOLEAN, names : SUBSET Name]
  <2>1. O!Inside(self, proto) \in BOOLEAN
    BY DEF O!Inside
  <2> QED BY <1>2, <2>1 DEF O!Idle
<1>12. Typed'
  <2>1. settled' \subseteq 1 .. Len(objects')
    <3> HIDE DEF size
    <3>1. \A o \in 1 .. size : o \in 1 .. size + 1
      BY <1>1
    <3>2. size + 1 \in 1 .. size + 1
      BY <1>1
    <3> QED BY <1>1, <1>2, <1>5, <3>1, <3>2
  <2>2. array' \in [List -> SUBSET Name]
    BY <1>1, <1>2
  <2> QED BY <1>7, <1>11, <2>1, <2>2 DEF Typed, O!Made
<1> QED BY <1>8, <1>9, <1>10, <1>12 DEF ObjectsInv

\* A name bound, as a step.
LEMMA DefineKeeps ==
  ASSUME O!ObjectsAssumption, ObjectsInv, NEW o \in O!Made, NEW n \in Name, NEW within \in BOOLEAN,
         NEW got \in BOOLEAN, NEW more, more = O!Define(o, n, within, got)
  PROVE  Linked(more) /\ Len(more) = Len(objects) /\ AllIndexed(more) /\ Judged(more, array, settled)
<1> DEFINE ob == objects[o]
           slot == [name |-> n, exported |-> O!ExportedOn(objects, o, n), within |-> within]
           size == Len(ob.slots)
<1>0. Bound(o, n, within, more)
  BY DefineIs
<1>1. /\ Linked(more) /\ Len(more) = Len(objects) /\ AllIndexed(more)
      /\ \A p \in O!Made : more[p].proto = objects[p].proto /\ more[p].exports = objects[p].exports
      /\ \A p \in O!Made : p # o => more[p] = objects[p]
  BY <1>0 DEF Bound
<1>2. /\ Linked(objects) /\ Len(objects) \in Nat /\ ob.slots \in Seq(Slot) /\ size \in Nat
      /\ DOMAIN ob.slots = 1 .. size /\ settled \subseteq O!Made
  BY ObjectsAre
<1>3. \A p \in O!Made : O!Boundary(more, p) = O!Boundary(objects, p)
  BY <1>1, <1>2, OpenStays DEF O!Made
<1>4. \A p, m : p \in O!Made => (Open(more, array, p, m) <=> Open(objects, array, p, m))
  BY <1>3 DEF Open
<1>5. \A p \in settled : \A i \in DOMAIN objects[p].slots :
        objects[p].slots[i].exported <=> Open(objects, array, p, objects[p].slots[i].name)
  BY DEF ObjectsInv, Judged
<1>6. ASSUME o \in settled, NEW i \in DOMAIN more[o].slots
      PROVE  more[o].slots[i].exported <=> Open(objects, array, o, more[o].slots[i].name)
  <2>1. CASE O!Own(ob, n) = {}
    <3>1. more[o].slots = Append(ob.slots, slot)
      BY <1>0, <2>1 DEF Bound
    <3>2. slot.name = n /\ slot.exported <=> Open(objects, array, o, n)
      BY OpenIs
    <3>3. slot \in Slot
      BY OpenIs DEF Slot
    <3> HIDE DEF slot
    <3>4. /\ DOMAIN more[o].slots = 1 .. size + 1 /\ more[o].slots[size + 1] = slot
          /\ \A k \in 1 .. size : more[o].slots[k] = ob.slots[k]
      BY <1>2, <3>1, <3>3
    <3>5. CASE i = size + 1
      BY <3>2, <3>4, <3>5 DEF slot
    <3>6. CASE i # size + 1
      <4>1. i \in 1 .. size
        BY <1>2, <3>4, <3>6
      <4> QED BY <1>2, <1>5, <1>6, <3>4, <4>1
    <3> QED BY <3>5, <3>6
  <2>2. CASE O!Own(ob, n) # {}
    <3>1. /\ DOMAIN more[o].slots = DOMAIN ob.slots
          /\ \A k \in DOMAIN ob.slots : /\ more[o].slots[k].name = ob.slots[k].name
                                        /\ more[o].slots[k].exported = ob.slots[k].exported
      BY <1>0, <2>2 DEF Bound
    <3> QED BY <1>5, <1>6, <3>1
  <2> QED BY <2>1, <2>2
<1>7. Judged(more, array, settled)
  <2> SUFFICES ASSUME NEW p \in settled, NEW i \in DOMAIN more[p].slots
               PROVE  more[p].slots[i].exported <=> Open(more, array, p, more[p].slots[i].name)
    BY DEF Judged
  <2>1. p \in O!Made
    BY <1>2
  <2>2. CASE p = o
    BY <1>4, <1>6, <2>1, <2>2
  <2>3. CASE p # o
    BY <1>1, <1>4, <1>5, <2>1, <2>3
  <2> QED BY <2>2, <2>3
<1> QED BY <1>1, <1>7

LEMMA SetSlotKeeps ==
  ASSUME O!ObjectsAssumption, ObjectsInv, NEW o \in O!Made, NEW n \in Name, NEW got \in BOOLEAN,
         NEW self \in O!SendersTo(o), O!SetSlot(self, o, n, got)
  PROVE  ObjectsInv'
<1>1. /\ objects' = O!Define(o, n, O!Inside(self, o), got) /\ filling.names = {}
      /\ array' = array /\ filling' = filling /\ settled' = settled
  BY DEF O!SetSlot
<1>2. O!Inside(self, o) \in BOOLEAN
  BY DEF O!Inside
<1>3. /\ Linked(objects') /\ Len(objects') = Len(objects) /\ AllIndexed(objects')
      /\ Judged(objects', array, settled)
  BY <1>1, <1>2, DefineKeeps
<1> QED BY <1>1, <1>3 DEF ObjectsInv, Typed, O!Made, StillToBind

\* The names still to bind are on no slot of the newest object.
LEMMA FillSlotIsNew ==
  ASSUME ObjectsInv, NEW n \in filling.names
  PROVE  /\ Len(objects) \in O!Made /\ n \in Name /\ filling.within \in BOOLEAN
         /\ O!Own(objects[Len(objects)], n) = {}
<1> DEFINE o == Len(objects)
<1>1. o \in Nat /\ o >= 1 /\ \A i \in DOMAIN objects[o].slots : objects[o].slots[i].name \notin filling.names
  BY DEF ObjectsInv, Typed, Linked, StillToBind
<1>2. o \in O!Made /\ n \in Name /\ filling.within \in BOOLEAN
  BY <1>1 DEF ObjectsInv, Typed, O!Made
<1>3. objects[o] \in Object /\ Indexed(objects[o])
  BY <1>2, ObjectsAre
<1> HIDE DEF o
<1>4. O!Own(objects[o], n) = {}
  BY <1>1, <1>3, OwnIs
<1> QED BY <1>2, <1>4 DEF o

LEMMA FillSlotKeeps ==
  ASSUME O!ObjectsAssumption, ObjectsInv, NEW n \in Name, NEW got \in BOOLEAN, O!FillSlot(n, got)
  PROVE  ObjectsInv'
<1> DEFINE o == Len(objects)
           slot == [name |-> n, exported |-> O!ExportedOn(objects, o, n), within |-> filling.within]
           left == filling.names \ {n}
<1>1. /\ objects' = O!Define(o, n, filling.within, got) /\ n \in filling.names
      /\ filling' = IF filling.names = {n} THEN O!Idle ELSE [filling EXCEPT !.names = @ \ {n}]
      /\ array' = array /\ settled' = settled
  BY DEF O!FillSlot
<1>2. o \in O!Made /\ filling.within \in BOOLEAN /\ O!Own(objects[o], n) = {}
  BY <1>1, FillSlotIsNew
<1>3. /\ Linked(objects') /\ Len(objects') = Len(objects) /\ AllIndexed(objects')
      /\ Judged(objects', array, settled)
  BY <1>1, <1>2, DefineKeeps
<1>4. objects'[o].slots = Append(objects[o].slots, slot)
  <2>1. Bound(o, n, filling.within, objects')
    BY <1>1, <1>2, DefineIs
  <2> QED BY <1>2, <2>1 DEF Bound
<1>5. filling \in [within : BOOLEAN, names : SUBSET Name]
  BY DEF ObjectsInv, Typed
<1>6. filling' \in [within : BOOLEAN, names : SUBSET Name] /\ filling'.names = left
  <2>1. CASE filling.names = {n}
    BY <1>1, <2>1 DEF O!Idle
  <2>2. CASE filling.names # {n}
    BY <1>1, <1>5, <2>2
  <2> QED BY <2>1, <2>2
<1>7. \A i \in DOMAIN objects'[o].slots : objects'[o].slots[i].name \notin left
  <2> DEFINE size == Len(objects[o].slots)
  <2>1. objects[o].slots \in Seq(Slot) /\ size \in Nat /\ DOMAIN objects[o].slots = 1 .. size
    BY <1>2, ObjectsAre
  <2>2. slot \in Slot /\ slot.name = n
    BY <1>2, OpenIs DEF Slot
  <2> HIDE DEF slot
  <2>3. /\ DOMAIN objects'[o].slots = 1 .. size + 1 /\ objects'[o].slots[size + 1].name = n
        /\ \A i \in 1 .. size : objects'[o].slots[i] = objects[o].slots[i]
    BY <1>4, <2>1, <2>2
  <2>4. \A i \in 1 .. size : objects[o].slots[i].name \notin filling.names
    BY <1>1, <2>1 DEF ObjectsInv, StillToBind
  <2>5. \A i \in 1 .. size + 1 : i \in 1 .. size \/ i = size + 1
    BY <2>1
  <2> QED BY <2>3, <2>4, <2>5
<1>8. StillToBind(objects', filling'.names)
  <2>1. o >= 1
    BY <1>2 DEF O!Made
  <2> QED BY <1>3, <1>6, <1>7, <2>1 DEF StillToBind
<1>9. Typed'
  BY <1>1, <1>3, <1>6 DEF ObjectsInv, Typed, O!Made
<1> QED BY <1>1, <1>3, <1>8, <1>9 DEF ObjectsInv

\* A boundary drawn over an object that has slots moves under them, and under
\* those of what takes its boundary from it.
LEMMA ExportsKeeps ==
  ASSUME O!ObjectsAssumption, ObjectsInv, NEW o \in O!Made, NEW l \in List, NEW self, O!Exports(self, o, l)
  PROVE  ObjectsInv'
<1> DEFINE ob == objects[o]
           list == [i \in DOMAIN ob.slots |-> [ob.slots[i] EXCEPT !.exported = O!Listed(l, ob.slots[i].name)]]
           new == [ob EXCEPT !.exports = l, !.slots = list]
<1>1. /\ objects' = O!SetExports(o, l) /\ filling.names = {} /\ array' = array /\ filling' = filling
      /\ settled' = (settled \ {d \in O!Under(o) : objects[d].slots # <<>>}) \cup {o}
  BY DEF O!Exports
<1>2. /\ Linked(objects) /\ Len(objects) \in Nat /\ settled \subseteq O!Made /\ DOMAIN objects = O!Made
      /\ ob \in Object /\ Indexed(ob) /\ ob.slots \in Seq(Slot) /\ Len(ob.slots) \in Nat
      /\ DOMAIN ob.slots = 1 .. Len(ob.slots)
  BY ObjectsAre DEF Linked, O!Made
<1>3. objects' = [objects EXCEPT ![o] = new]
  BY <1>1, <1>2 DEF O!SetExports
<1> HIDE DEF ob
<1>4. \A i \in DOMAIN ob.slots :
        /\ list[i] \in Slot /\ list[i].name = ob.slots[i].name
        /\ list[i].exported <=> O!Listed(l, ob.slots[i].name)
        /\ list[i].within = ob.slots[i].within
  <2> SUFFICES ASSUME NEW i \in DOMAIN ob.slots
               PROVE  /\ list[i] \in Slot /\ list[i].name = ob.slots[i].name
                      /\ list[i].exported <=> O!Listed(l, ob.slots[i].name)
                      /\ list[i].within = ob.slots[i].within
    OBVIOUS
  <2> DEFINE b == O!Listed(l, ob.slots[i].name)
  <2>1. ob.slots[i] \in Slot
    BY <1>2
  <2>2. b \in BOOLEAN
    BY DEF O!Listed
  <2>3. list[i] = [ob.slots[i] EXCEPT !.exported = b]
    OBVIOUS
  <2> HIDE DEF list, b
  <2> QED BY <2>1, <2>2, <2>3 DEF Slot, b
<1>5. list \in Seq(Slot) /\ Len(list) = Len(ob.slots) /\ DOMAIN list = DOMAIN ob.slots
  <2>1. DOMAIN list = 1 .. Len(ob.slots)
    BY <1>2
  <2>2. list \in [1 .. Len(ob.slots) -> Slot]
    BY <1>2, <1>4
  <2> HIDE DEF list
  <2> QED BY <1>2, <2>1, <2>2
<1> HIDE DEF list
<1>6. /\ new \in Object /\ new.slots = list /\ new.seats = ob.seats /\ new.held = ob.held
      /\ new.proto = ob.proto /\ new.exports = l
  BY <1>2, <1>5 DEF Object
<1> HIDE DEF new
<1>7. Indexed(new)
  BY <1>2, <1>4, <1>5, <1>6, SameNames
<1>8. /\ objects' \in Seq(Object) /\ Len(objects') = Len(objects) /\ objects'[o] = new
      /\ \A p \in O!Made : p # o => objects'[p] = objects[p]
  BY <1>2, <1>3, <1>6 DEF Linked
<1>9. \A p \in O!Made : objects'[p].proto = objects[p].proto
  BY <1>6, <1>8 DEF ob
<1>10. Linked(objects')
  BY <1>2, <1>8, <1>9 DEF Linked, O!Made
<1>11. AllIndexed(objects')
  BY <1>7, <1>8, ObjectsAre DEF AllIndexed, O!Made
<1>12. \A p \in O!Made : O!Line(objects')[p] = O!Line(objects)[p] /\ O!Line(objects)[p] \subseteq 1 .. p
                       /\ p \in O!Line(objects)[p]
  <2>1. \A p \in O!Made : O!Line(objects')[p] = O!Line(objects)[p]
    <3>1. \A p \in 1 .. Len(objects) : objects'[p].proto = objects[p].proto
      BY <1>9 DEF O!Made
    <3>2. Linked(objects) /\ Len(objects) <= Len(objects')
      BY <1>2, <1>8
    <3> HIDE DEF new
    <3> QED BY <1>10, <3>1, <3>2, LineStays DEF O!Made
  <2> QED BY <1>2, <2>1, LineDown DEF O!Made
<1>13. O!Boundary(objects', o) = l
  <2>1. l # None
    BY DEF O!ObjectsAssumption
  <2>2. \A b \in O!Line(objects')[o] : ~(b > o)
    BY <1>12 DEF O!Made
  <2>3. Rules(objects', o, o)
    BY <1>6, <1>8, <1>12, <2>1, <2>2 DEF Rules
  <2>4. o \in 1 .. Len(objects')
    BY <1>8 DEF O!Made
  <2>5. O!Boundary(objects', o) = objects'[o].exports
    BY <1>10, <2>3, <2>4, RulesAlone
  <2> QED BY <1>6, <1>8, <2>5
<1>14. ASSUME NEW p \in O!Made, p \notin O!Under(o) PROVE O!Boundary(objects', p) = O!Boundary(objects, p)
  <2>1. o \notin O!Line(objects)[p] \/ \E a \in O!Line(objects)[p] : a > o /\ objects[a].exports # None
    BY <1>14 DEF O!Under
  <2>2. \A a \in O!Line(objects)[p] : a # o => objects'[a].exports = objects[a].exports
    <3>1. \A a \in O!Line(objects)[p] : a \in O!Made
      BY <1>2, <1>12 DEF O!Made
    <3> QED BY <1>8, <3>1
  <2>3. p \in 1 .. Len(objects)
    BY <1>14 DEF O!Made
  <2>4. Linked(objects) /\ Len(objects) <= Len(objects')
    BY <1>2, <1>8
  <2>5. \A q \in 1 .. Len(objects) : objects'[q].proto = objects[q].proto
    BY <1>9 DEF O!Made
  <2> HIDE DEF new, ob
  <2> QED BY <1>10, <2>1, <2>2, <2>3, <2>4, <2>5, BoundaryStays
<1>15. Judged(objects', array', settled')
  <2> SUFFICES ASSUME NEW p \in settled', NEW i \in DOMAIN objects'[p].slots
               PROVE  objects'[p].slots[i].exported
                        <=> Open(objects', array', p, objects'[p].slots[i].name)
    BY DEF Judged
  <2>1. CASE p = o
    <3>1. i \in DOMAIN ob.slots /\ objects'[o].slots[i] = list[i]
      BY <1>5, <1>6, <1>8, <2>1
    <3>2. list[i].exported <=> l # None /\ list[i].name \in array[l]
      BY <1>4, <3>1 DEF O!Listed
    <3>3. l # None
      BY DEF O!ObjectsAssumption
    <3> QED BY <1>1, <1>13, <2>1, <3>1, <3>2, <3>3 DEF Open
  <2>2. CASE p # o
    <3>1. p \in settled /\ p \in O!Made /\ objects'[p] = objects[p]
      BY <1>1, <1>2, <1>8, <2>2
    <3>2. p \notin O!Under(o)
      <4>1. objects[p].slots # <<>>
        BY <3>1
      <4> QED BY <1>1, <2>2, <4>1
    <3>3. O!Boundary(objects', p) = O!Boundary(objects, p)
      BY <1>14, <3>1, <3>2
    <3>4. objects[p].slots[i].exported <=> Open(objects, array, p, objects[p].slots[i].name)
      BY <3>1 DEF ObjectsInv, Judged
    <3> QED BY <1>1, <3>1, <3>3, <3>4 DEF Open
  <2> QED BY <2>1, <2>2
<1>16. Typed'
  BY <1>1, <1>2, <1>8, <1>10 DEF ObjectsInv, Typed, O!Made
<1>17. StillToBind(objects', filling'.names)
  BY <1>1 DEF StillToBind
<1> QED BY <1>11, <1>15, <1>16, <1>17 DEF ObjectsInv

LEMMA AddToListKeeps ==
  ASSUME O!ObjectsAssumption, ObjectsInv, NEW l \in List, NEW n \in Name, O!AddToList(l, n)
  PROVE  ObjectsInv'
<1>1. /\ objects' = objects /\ filling' = filling /\ array' = [array EXCEPT ![l] = @ \cup {n}]
      /\ settled' = settled \ {d \in O!Made : O!Boundary(objects, d) = l /\ objects[d].slots # <<>>}
  BY DEF O!AddToList
<1>2. array \in [List -> SUBSET Name] /\ settled \subseteq O!Made /\ Linked(objects)
  BY DEF ObjectsInv, Typed
<1>3. array' \in [List -> SUBSET Name] /\ \A k \in List : k # l => array'[k] = array[k]
  BY <1>1, <1>2
<1>4. Judged(objects', array', settled')
  <2> SUFFICES ASSUME NEW p \in settled', NEW i \in DOMAIN objects[p].slots
               PROVE  objects[p].slots[i].exported
                        <=> Open(objects, array', p, objects[p].slots[i].name)
    BY <1>1 DEF Judged
  <2>1. p \in settled /\ p \in O!Made /\ objects[p].slots # <<>>
    BY <1>1, <1>2
  <2>2. O!Boundary(objects, p) # l
    BY <1>1, <2>1
  <2>3. O!Boundary(objects, p) \in List \cup {None}
    BY <1>2, <2>1, BoundaryType DEF O!Made
  <2>4. objects[p].slots[i].exported <=> Open(objects, array, p, objects[p].slots[i].name)
    BY <2>1 DEF ObjectsInv, Judged
  <2> QED BY <1>3, <2>2, <2>3, <2>4 DEF Open
<1>5. Typed'
  BY <1>1, <1>2, <1>3 DEF ObjectsInv, Typed, O!Made
<1> QED BY <1>1, <1>4, <1>5 DEF ObjectsInv

LEMMA ObjectsStep == ASSUME O!ObjectsAssumption, ObjectsInv, [O!Next]_(O!vars) PROVE ObjectsInv'
<1>1. CASE UNCHANGED O!vars
  <2>1. objects' = objects /\ array' = array /\ filling' = filling /\ settled' = settled
    BY <1>1 DEF O!vars
  <2> QED BY <2>1 DEF ObjectsInv, Typed, O!Made, AllIndexed, Judged, StillToBind
<1>2. \A got \in O!Got : got \in BOOLEAN
  BY DEF O!Got
<1>3. ASSUME NEW proto \in O!Made, NEW names \in SUBSET Name,
             NEW self \in O!SendersTo(proto), O!New(self, proto, names)
      PROVE  ObjectsInv'
  BY <1>3, NewKeeps
<1>4. ASSUME NEW n \in Name, NEW got \in O!Got, O!FillSlot(n, got) PROVE ObjectsInv'
  BY <1>2, <1>4, FillSlotKeeps
<1>5. ASSUME NEW o \in O!Made, NEW n \in Name, NEW got \in O!Got,
             NEW self \in O!SendersTo(o), O!SetSlot(self, o, n, got)
      PROVE  ObjectsInv'
  BY <1>2, <1>5, SetSlotKeeps
<1>6. ASSUME NEW o \in O!Made, NEW l \in List, NEW self \in {o, None}, O!Exports(self, o, l) PROVE ObjectsInv'
  BY <1>6, ExportsKeeps
<1>7. ASSUME NEW l \in List, NEW n \in Name, O!AddToList(l, n) PROVE ObjectsInv'
  BY <1>7, AddToListKeeps
<1> QED BY <1>1, <1>3, <1>4, <1>5, <1>6, <1>7 DEF O!Next

-----------------------------------------------------------------------------
(* What it says                                                            *)

\* The index of an object agrees with its list, whatever the growths refused.
THEOREM IndexNeverDisagrees == O!Spec => []IndexAgrees
<1>0. O!ObjectsAssumption
  BY ObjectsAssumption
<1>1. ObjectsInv => IndexAgrees
  <2> SUFFICES ASSUME ObjectsInv, NEW o \in O!Made, NEW n \in Name
               PROVE  /\ O!Own(objects[o], n) \subseteq O!Greatest(O!InList(objects[o], n))
                      /\ O!Complete(objects[o]) => O!Own(objects[o], n) = O!Greatest(O!InList(objects[o], n))
                      /\ 2 * Len(objects[o].held) <= objects[o].seats
    BY DEF IndexAgrees, O!IndexAgrees
  <2>1. objects[o] \in Object /\ Indexed(objects[o])
    BY ObjectsAre
  <2>2. 2 * Len(objects[o].held) <= objects[o].seats
    BY <2>1 DEF Indexed
  <2> QED BY <2>1, <2>2, OwnIs
<1>2. O!Init => ObjectsInv
  BY <1>0, ObjectsStart
<1>3. ObjectsInv /\ [O!Next]_(O!vars) => ObjectsInv'
  BY <1>0, ObjectsStep
<1> QED BY <1>1, <1>2, <1>3, PTL DEF O!Spec

\* A slot of the object itself is what a lookup that begins at it finds.
LEMMA OwnFirst ==
  ASSUME ObjectsInv, NEW o \in O!Made, NEW n, O!Own(objects[o], n) # {}
  PROVE  /\ O!Lookup(o, n) = {o} \X O!Own(objects[o], n)
         /\ o \in O!Line(objects)[o]
<1> DEFINE holders == {a \in O!Line(objects)[o] : O!Own(objects[a], n) # {}}
<1>1. o \in O!Line(objects)[o] /\ O!Line(objects)[o] \subseteq 1 .. o /\ o \in Nat
  BY ObjectsAre, LineDown DEF O!Made
<1>2. O!Greatest(holders) = {o}
  <2>1. o \in holders /\ \A a \in holders : a \in Nat /\ a <= o
    BY <1>1
  <2> HIDE DEF holders
  <2>2. o \in O!Greatest(holders)
    BY <2>1 DEF O!Greatest
  <2>3. \A a \in O!Greatest(holders) : a \in holders /\ o <= a
    BY <2>1 DEF O!Greatest
  <2>4. ASSUME NEW a \in O!Greatest(holders) PROVE a = o
    <3>1. a \in Nat /\ a <= o /\ o <= a /\ o \in Nat
      BY <1>1, <2>1, <2>3
    <3> QED BY <3>1
  <2> QED BY <2>2, <2>4
<1>3. O!Lookup(o, n) = UNION {{a} \X O!Own(objects[a], n) : a \in O!Greatest(holders)}
  BY DEF O!Lookup
<1> HIDE DEF holders
<1> QED BY <1>1, <1>2, <1>3

\* Sends, slots and respondsTo show one surface of an object whose boundary
\* has not moved under its slots.
THEOREM SurfaceIsOne == O!Spec => []SurfaceAgrees
<1>0. O!ObjectsAssumption
  BY ObjectsAssumption
<1>1. ObjectsInv => SurfaceAgrees
  <2> SUFFICES ASSUME ObjectsInv, NEW o \in settled, NEW n \in Name, O!Complete(objects[o]),
                      O!InList(objects[o], n) # {}, NEW self \in O!Self
               PROVE  /\ O!RespondsTo(self, o, n) <=> O!ExportedOn(objects, o, n) \/ O!Inside(self, o)
                      /\ n \in O!Slots(self, o) <=> O!ExportedOn(objects, o, n) \/ self = o
    BY DEF SurfaceAgrees, O!SurfaceAgrees
  <2> DEFINE ob == objects[o]
             open == O!ExportedOn(objects, o, n)
  <2>1. o \in O!Made /\ ob \in Object /\ Indexed(ob)
    BY ObjectsAre
  <2>2. \A i \in DOMAIN ob.slots : ob.slots[i].exported <=> Open(objects, array, o, ob.slots[i].name)
    BY DEF ObjectsInv, Judged
  <2>3. PICK k \in DOMAIN ob.slots : ob.slots[k].name = n
    BY DEF O!InList
  <2>4. PICK f \in DOMAIN ob.slots : O!Own(ob, n) = {f} /\ ob.slots[f].name = n
    <3>1. O!Own(ob, n) # {}
      BY <2>1, <2>3, OwnIs
    <3> QED BY <2>1, <3>1, OwnIs
  <2>5. open <=> Open(objects, array, o, n)
    BY OpenIs
  <2>6. O!Lookup(o, n) = {<<o, f>>}
    <3>1. O!Lookup(o, n) = {o} \X O!Own(ob, n)
      BY <2>1, <2>4, OwnFirst
    <3> QED BY <2>4, <3>1
  <2>7. O!SlotAt(<<o, f>>) = ob.slots[f]
    BY DEF O!SlotAt
  <2>8. O!RespondsTo(self, o, n) <=> open \/ O!Inside(self, o)
    BY <2>2, <2>4, <2>5, <2>6, <2>7 DEF O!RespondsTo, O!MayReach
  <2>9. \A i \in DOMAIN ob.slots : ob.slots[i].name = n => (ob.slots[i].exported <=> open)
    BY <2>2, <2>5
  <2>10. n \in O!Slots(self, o) <=> open \/ self = o
    BY <2>3, <2>9 DEF O!Slots
  <2> QED BY <2>8, <2>10
<1>2. O!Init => ObjectsInv
  BY <1>0, ObjectsStart
<1>3. ObjectsInv /\ [O!Next]_(O!vars) => ObjectsInv'
  BY <1>0, ObjectsStep
<1> QED BY <1>1, <1>2, <1>3, PTL DEF O!Spec

\* A slot written inside its object, and private, is not written outside it.
KeptIn(more) ==
  \A o \in O!Made : \A i \in DOMAIN objects[o].slots :
    objects[o].slots[i].within /\ ~objects[o].slots[i].exported => more[o].slots[i].within

\* A name bound keeps all slots but the one of that name.
LEMMA BoundKeeps ==
  ASSUME ObjectsInv, NEW o \in O!Made, NEW n \in Name, NEW within, NEW more, Bound(o, n, within, more),
         \A f \in O!Own(objects[o], n) :
           objects[o].slots[f].within /\ ~objects[o].slots[f].exported => within
  PROVE  KeptIn(more)
<1> SUFFICES ASSUME NEW p \in O!Made, NEW i \in DOMAIN objects[p].slots, objects[p].slots[i].within,
                    ~objects[p].slots[i].exported
             PROVE  more[p].slots[i].within
  BY DEF KeptIn
<1>1. CASE p # o
  BY <1>1 DEF Bound
<1>2. CASE p = o /\ O!Own(objects[o], n) = {}
  <2> DEFINE slot == [name |-> n, exported |-> O!ExportedOn(objects, o, n), within |-> within]
  <2>1. more[o].slots = Append(objects[o].slots, slot)
    BY <1>2 DEF Bound
  <2>2. objects[o].slots \in Seq(Slot) /\ DOMAIN objects[o].slots = 1 .. Len(objects[o].slots)
    BY ObjectsAre
  <2> HIDE DEF slot
  <2>3. more[o].slots[i] = objects[o].slots[i]
    BY <1>2, <2>1, <2>2
  <2> QED BY <1>2, <2>3
<1>3. CASE p = o /\ O!Own(objects[o], n) # {}
  <2>1. PICK f \in DOMAIN objects[o].slots :
          /\ O!Own(objects[o], n) = {f}
          /\ \A j \in DOMAIN objects[o].slots :
               more[o].slots[j].within = IF j = f THEN within ELSE objects[o].slots[j].within
    BY <1>3 DEF Bound
  <2>2. CASE i = f
    BY <1>3, <2>1, <2>2
  <2>3. CASE i # f
    BY <1>3, <2>1, <2>3
  <2> QED BY <2>2, <2>3
<1> QED BY <1>1, <1>2, <1>3

LEMMA SetSlotKeepsOff ==
  ASSUME O!ObjectsAssumption, ObjectsInv, NEW o \in O!Made, NEW n \in Name, NEW got \in BOOLEAN,
         NEW self \in O!SendersTo(o), O!SetSlot(self, o, n, got)
  PROVE  KeptIn(objects')
<1>1. objects' = O!Define(o, n, O!Inside(self, o), got) /\ O!MayBind(self, o, n)
  BY DEF O!SetSlot
<1>2. O!Inside(self, o) \in BOOLEAN
  BY DEF O!Inside
<1>3. Bound(o, n, O!Inside(self, o), objects')
  BY <1>1, <1>2, DefineIs
<1>4. ASSUME NEW f \in O!Own(objects[o], n), ~objects[o].slots[f].exported PROVE O!Inside(self, o)
  <2>1. O!Lookup(o, n) = {o} \X O!Own(objects[o], n) /\ o \in O!Line(objects)[o]
    BY <1>4, OwnFirst
  <2>2. <<o, f>> \in O!Lookup(o, n) /\ O!SlotAt(<<o, f>>) = objects[o].slots[f]
    BY <1>4, <2>1 DEF O!SlotAt
  <2>3. self = o \/ O!Inside(self, o)
    BY <1>1, <1>4, <2>2 DEF O!MayBind
  <2>4. o # None
    BY DEF O!ObjectsAssumption, O!Made
  <2> QED BY <2>1, <2>3, <2>4 DEF O!Inside
<1> QED BY <1>3, <1>4, BoundKeeps

LEMMA OthersKeepOff ==
  ASSUME O!ObjectsAssumption, ObjectsInv, [O!Next]_(O!vars)
  PROVE  KeptIn(objects')
<1>1. ASSUME objects' = objects PROVE KeptIn(objects')
  BY <1>1 DEF KeptIn
<1>2. ASSUME NEW proto \in O!Made, NEW names \in SUBSET Name,
             NEW self \in O!SendersTo(proto), O!New(self, proto, names)
      PROVE  KeptIn(objects')
  <2> DEFINE ob == O!Blank(proto)
  <2>1. objects' = Append(objects, ob) /\ Linked(objects)
    BY <1>2, ObjectsAre DEF O!New
  <2>2. ob \in Object
    BY DEF Object, O!Blank, O!Made
  <2> HIDE DEF ob
  <2>3. \A o \in O!Made : objects'[o] = objects[o]
    BY <2>1, <2>2 DEF O!Made, Linked
  <2> QED BY <2>3 DEF KeptIn
<1>3. ASSUME NEW n \in Name, NEW got \in O!Got, O!FillSlot(n, got) PROVE KeptIn(objects')
  <2>1. /\ objects' = O!Define(Len(objects), n, filling.within, got) /\ n \in filling.names
        /\ got \in BOOLEAN
    BY <1>3 DEF O!FillSlot, O!Got
  <2>2. Len(objects) \in O!Made /\ filling.within \in BOOLEAN /\ O!Own(objects[Len(objects)], n) = {}
    BY <2>1, FillSlotIsNew
  <2>3. Bound(Len(objects), n, filling.within, objects')
    BY <2>1, <2>2, DefineIs
  <2> QED BY <2>2, <2>3, BoundKeeps
<1>4. ASSUME NEW o \in O!Made, NEW n \in Name, NEW got \in O!Got,
             NEW self \in O!SendersTo(o), O!SetSlot(self, o, n, got)
      PROVE  KeptIn(objects')
  <2>1. got \in BOOLEAN
    BY DEF O!Got
  <2> QED BY <1>4, <2>1, SetSlotKeepsOff
<1>5. ASSUME NEW o \in O!Made, NEW l \in List, NEW self \in {o, None}, O!Exports(self, o, l)
      PROVE  KeptIn(objects')
  <2>1. objects' = O!SetExports(o, l)
    BY <1>5 DEF O!Exports
  <2>2. DOMAIN objects = O!Made /\ objects[o] \in Object
    BY ObjectsAre DEF Linked, O!Made
  <2>3. \A p \in O!Made : p # o => objects'[p] = objects[p]
    BY <2>1, <2>2 DEF O!SetExports
  <2> DEFINE list == [i \in DOMAIN objects[o].slots |->
                        [objects[o].slots[i] EXCEPT !.exported = O!Listed(l, objects[o].slots[i].name)]]
             new == [objects[o] EXCEPT !.exports = l, !.slots = list]
  <2>4. objects'[o] = new
    BY <2>1, <2>2 DEF O!SetExports
  <2>5. \A i \in DOMAIN objects[o].slots : list[i].within = objects[o].slots[i].within
    <3>1. \A i \in DOMAIN objects[o].slots : objects[o].slots[i] \in Slot
      BY ObjectsAre
    <3> QED BY <3>1 DEF Slot
  <2> HIDE DEF list
  <2>6. new.slots = list
    BY <2>2 DEF Object
  <2> QED BY <2>3, <2>4, <2>5, <2>6 DEF KeptIn
<1>6. ASSUME NEW l \in List, NEW n \in Name, O!AddToList(l, n) PROVE KeptIn(objects')
  BY <1>1, <1>6 DEF O!AddToList
<1>7. CASE UNCHANGED O!vars
  BY <1>1, <1>7 DEF O!vars
<1> QED BY <1>2, <1>3, <1>4, <1>5, <1>6, <1>7 DEF O!Next

\* No sender outside an object overwrites what was written inside it to a
\* private slot.
THEOREM OutsidersStayOff == O!Spec => OutsidersKeepOff
<1>0. O!ObjectsAssumption
  BY ObjectsAssumption
<1>1. O!Init => ObjectsInv
  BY <1>0, ObjectsStart
<1>2. ObjectsInv /\ [O!Next]_(O!vars) => ObjectsInv'
  BY <1>0, ObjectsStep
<1>3. ObjectsInv /\ [O!Next]_(O!vars) => KeptIn(objects')
  BY <1>0, OthersKeepOff
<1>4. KeptIn(objects') =>
        [\A o \in O!Made : \A i \in DOMAIN objects[o].slots :
           objects[o].slots[i].within /\ ~objects[o].slots[i].exported =>
             objects'[o].slots[i].within]_(O!vars)
  BY DEF KeptIn
<1> QED BY <1>1, <1>2, <1>3, <1>4, PTL DEF O!Spec, OutsidersKeepOff, O!OutsidersKeepOff

-----------------------------------------------------------------------------
(* Arrays: sequences                                                       *)

\* A sequence of whatever.
Row(s) == \E S : s \in Seq(S)

\* The last of it, and those before.
LEMMA RowIs ==
  ASSUME NEW s, Row(s)
  PROVE  /\ Len(s) \in Nat /\ (s = <<>> <=> Len(s) = 0)
         /\ s # <<>> => /\ A!Last(s) = s[Len(s)] /\ Len(s) >= 1
                        /\ Row(A!Front(s)) /\ Len(A!Front(s)) = Len(s) - 1
                        /\ \A k \in 1 .. Len(s) - 1 : A!Front(s)[k] = s[k]
<1>1. PICK S : s \in Seq(S)
  BY DEF Row
<1>2. Len(s) \in Nat /\ (s = <<>> <=> Len(s) = 0)
  BY <1>1, EmptySeq
<1>3. ASSUME s # <<>>
      PROVE  /\ A!Last(s) = s[Len(s)] /\ Len(s) >= 1
             /\ Row(A!Front(s)) /\ Len(A!Front(s)) = Len(s) - 1
             /\ \A k \in 1 .. Len(s) - 1 : A!Front(s)[k] = s[k]
  <2>1. Len(s) \in Nat \ {0} /\ A!Last(s) = s[Len(s)]
    BY <1>2, <1>3 DEF A!Last
  <2> DEFINE t == SubSeq(s, 1, Len(s) - 1)
             n == Len(s) - 1
  <2>2. n \in Nat /\ 1 \in Int /\ \A i \in 1 .. n : s[i] \in S
    BY <1>1, <2>1
  <2>3. t \in Seq(S) /\ Len(t) = IF 1 <= n THEN n - 1 + 1 ELSE 0
    <3> HIDE DEF n
    <3>1. SubSeq(s, 1, n) \in Seq(S) /\ Len(SubSeq(s, 1, n)) = IF 1 <= n THEN n - 1 + 1 ELSE 0
      BY <2>2, SubSeqProperties
    <3> QED BY <3>1 DEF n
  <2>4. \A k \in 1 .. n : t[k] = s[k]
    BY <2>1
  <2>5. A!Front(s) = t
    BY DEF A!Front
  <2>6. Len(t) = n
    <3> HIDE DEF n, t
    <3>1. CASE n >= 1
      BY <2>2, <2>3, <3>1
    <3>2. CASE n = 0
      BY <2>2, <2>3, <3>2
    <3> QED BY <2>2, <3>1, <3>2
  <2> HIDE DEF t
  <2> QED BY <2>1, <2>2, <2>3, <2>4, <2>5, <2>6 DEF Row
<1> QED BY <1>2, <1>3

\* With one more.
LEMMA Pushed ==
  ASSUME NEW s, NEW f, Row(s)
  PROVE  /\ Row(Append(s, f)) /\ Len(Append(s, f)) = Len(s) + 1
         /\ \A k \in 1 .. Len(s) : Append(s, f)[k] = s[k]
         /\ Append(s, f)[Len(s) + 1] = f
<1>1. PICK S : s \in Seq(S)
  BY DEF Row
<1>2. s \in Seq(S \cup {f}) /\ f \in S \cup {f}
  BY <1>1
<1>3. /\ Append(s, f) \in Seq(S \cup {f}) /\ Len(Append(s, f)) = Len(s) + 1
      /\ \A k \in 1 .. Len(s) : Append(s, f)[k] = s[k]
      /\ Append(s, f)[Len(s) + 1] = f
  BY <1>2, AppendProperties
<1> QED BY <1>3 DEF Row

\* With another last one.
LEMMA Replaced ==
  ASSUME NEW s, NEW f, Row(s), s # <<>>
  PROVE  /\ Row(Append(A!Front(s), f)) /\ Len(Append(A!Front(s), f)) = Len(s)
         /\ Append(A!Front(s), f) # <<>> /\ Len(s) \in Nat \ {0}
         /\ \A k \in 1 .. Len(s) - 1 : Append(A!Front(s), f)[k] = s[k]
         /\ Append(A!Front(s), f)[Len(s)] = f /\ A!Last(Append(A!Front(s), f)) = f
<1> DEFINE t == Append(A!Front(s), f)
<1>1. /\ Len(s) \in Nat \ {0} /\ Row(A!Front(s)) /\ Len(A!Front(s)) = Len(s) - 1
      /\ \A k \in 1 .. Len(s) - 1 : A!Front(s)[k] = s[k]
  BY RowIs
<1>2. /\ Row(t) /\ Len(t) = Len(s) /\ t[Len(s)] = f
      /\ \A k \in 1 .. Len(s) - 1 : t[k] = s[k]
  BY <1>1, Pushed
<1> HIDE DEF t
<1>3. t # <<>> /\ A!Last(t) = f
  BY <1>1, <1>2, RowIs
<1> QED BY <1>1, <1>2, <1>3 DEF t

-----------------------------------------------------------------------------
(* Orders                                                                  *)

Prec(s, p, q) == Rank[s[p]] < Rank[s[q]] \/ (Rank[s[p]] = Rank[s[q]] /\ p < q)

InOrder(s, r, lo, hi) ==
  \A x, y \in 1 .. Len(s) : (lo < x /\ x < y /\ y <= hi) => Prec(s, r[x], r[y])

\* The places of an array, each once.
Places(r, n) ==
  /\ r \in [1 .. n -> 1 .. n]
  /\ \A x, y \in 1 .. n : r[x] = r[y] => x = y
  /\ \A p \in 1 .. n : \E x \in 1 .. n : r[x] = p

LEMMA RankIs ==
  ASSUME A!ArraysAssumption, NEW s \in Seq(Elem), NEW p \in 1 .. Len(s)
  PROVE  Rank[s[p]] \in Int
BY DEF A!ArraysAssumption

LEMMA PrecThrough ==
  ASSUME A!ArraysAssumption, NEW s \in Seq(Elem),
         NEW p \in 1 .. Len(s), NEW q \in 1 .. Len(s), NEW o \in 1 .. Len(s),
         Prec(s, p, q), Prec(s, q, o)
  PROVE  Prec(s, p, o)
<1>1. Rank[s[p]] \in Int /\ Rank[s[q]] \in Int /\ Rank[s[o]] \in Int
  BY DEF A!ArraysAssumption
<1> QED BY <1>1 DEF Prec

-----------------------------------------------------------------------------
(* Sorting                                                                 *)

\* A call of merge_sort.
Call(m, n) ==
  /\ m = [lo |-> m.lo, mid |-> m.mid, hi |-> m.hi, i |-> m.i, j |-> m.j, next |-> m.next]
  /\ m.lo \in Nat /\ m.mid \in Nat /\ m.hi \in Nat /\ m.i \in Nat /\ m.j \in Nat
  /\ m.hi <= n
  /\ m.lo <= m.i /\ m.i <= m.mid /\ m.mid <= m.j /\ m.j <= m.hi
  /\ m.next \in {"left", "right", "merge"}

\* Of those a call has merged, and of those it has not.
Merges(m, y) == (m.lo < y /\ y <= m.i) \/ (m.mid < y /\ y <= m.j)
Remains(m, y) == (m.i < y /\ y <= m.mid) \/ (m.j < y /\ y <= m.hi)

\* scratch is of those merged; and in order, and before those that remain.
Copied(s, m, c, r, h) ==
  /\ Row(c) /\ Len(c) = (m.i - m.lo) + (m.j - m.mid)
  /\ \A t \in 1 .. Len(c) : \E y \in 1 .. Len(s) : Merges(m, y) /\ c[t] = r[y]
  /\ \A y \in 1 .. Len(s) : Merges(m, y) => \E t \in 1 .. Len(c) : c[t] = r[y]
  /\ \A t, u \in 1 .. Len(c) : c[t] = c[u] => t = u
  /\ h => \A t, u \in 1 .. Len(c) : t < u => Prec(s, c[t], c[u])
  /\ h => \A t \in 1 .. Len(c), y \in 1 .. Len(s) : Remains(m, y) => Prec(s, c[t], r[y])

\* r moves nothing past b.
Keeps(r, n, b) == \A x \in 1 .. n : r[x] <= b <=> x <= b

\* One more is copied, before which nothing remains.
LEMMA CopiesOne ==
  ASSUME A!ArraysAssumption, NEW s \in Seq(Elem), NEW m, NEW w, NEW c, NEW r, NEW h, NEW z \in 1 .. Len(s),
         Places(r, Len(s)), Call(m, Len(s)), Copied(s, m, c, r, h),
         Remains(m, z), \A y \in 1 .. Len(s) : Merges(w, y) <=> Merges(m, y) \/ y = z,
         \A y \in 1 .. Len(s) : Remains(w, y) <=> Remains(m, y) /\ y # z,
         (w.i - w.lo) + (w.j - w.mid) = (m.i - m.lo) + (m.j - m.mid) + 1,
         h => \A y \in 1 .. Len(s) : Remains(w, y) => Prec(s, r[z], r[y])
  PROVE  Copied(s, w, Append(c, r[z]), r, h)
<1> DEFINE d == Append(c, r[z])
           n == Len(s)
<1>1. /\ Row(d) /\ Len(d) = Len(c) + 1 /\ d[Len(c) + 1] = r[z] /\ Len(c) \in Nat
      /\ \A t \in 1 .. Len(c) : d[t] = c[t]
  BY Pushed, RowIs DEF Copied
<1>2. n \in Nat /\ r \in [1 .. n -> 1 .. n] /\ \A x, y \in 1 .. n : r[x] = r[y] => x = y
  BY DEF Places
<1>3. ~Merges(m, z)
  BY DEF Merges, Remains, Call
<1> HIDE DEF d, n
<1>4. \A t \in 1 .. Len(d) : \E y \in 1 .. n : Merges(w, y) /\ d[t] = r[y]
  <2> SUFFICES ASSUME NEW t \in 1 .. Len(d) PROVE \E y \in 1 .. n : Merges(w, y) /\ d[t] = r[y]
    OBVIOUS
  <2>1. CASE t = Len(c) + 1
    BY <1>1, <2>1 DEF n
  <2>2. CASE t # Len(c) + 1
    <3>1. t \in 1 .. Len(c)
      BY <1>1, <2>2
    <3>2. PICK y \in 1 .. n : Merges(m, y) /\ c[t] = r[y]
      BY <3>1 DEF Copied, n
    <3> QED BY <1>1, <3>1, <3>2 DEF n
  <2> QED BY <2>1, <2>2
<1>5. \A y \in 1 .. n : Merges(w, y) => \E t \in 1 .. Len(d) : d[t] = r[y]
  <2> SUFFICES ASSUME NEW y \in 1 .. n, Merges(w, y) PROVE \E t \in 1 .. Len(d) : d[t] = r[y]
    OBVIOUS
  <2>1. CASE y = z
    BY <1>1, <2>1
  <2>2. CASE Merges(m, y)
    <3>1. PICK t \in 1 .. Len(c) : c[t] = r[y]
      BY <2>2 DEF Copied, n
    <3> QED BY <1>1, <3>1
  <2> QED BY <2>1, <2>2 DEF n
<1>6. \A t \in 1 .. Len(c) : c[t] # r[z]
  BY <1>2, <1>3 DEF Copied, n
<1>7. \A t, u \in 1 .. Len(d) : d[t] = d[u] => t = u
  <2> SUFFICES ASSUME NEW t \in 1 .. Len(d), NEW u \in 1 .. Len(d), d[t] = d[u] PROVE t = u
    OBVIOUS
  <2>1. CASE t \in 1 .. Len(c) /\ u \in 1 .. Len(c)
    BY <1>1, <2>1 DEF Copied
  <2>2. CASE t = Len(c) + 1 \/ u = Len(c) + 1
    BY <1>1, <1>6, <2>2
  <2> QED BY <1>1, <2>1, <2>2
<1>8. h => \A t, u \in 1 .. Len(d) : t < u => Prec(s, d[t], d[u])
  <2> SUFFICES ASSUME h, NEW t \in 1 .. Len(d), NEW u \in 1 .. Len(d), t < u PROVE Prec(s, d[t], d[u])
    OBVIOUS
  <2>1. t \in 1 .. Len(c)
    BY <1>1
  <2>2. CASE u \in 1 .. Len(c)
    BY <1>1, <2>1, <2>2 DEF Copied
  <2>3. CASE u = Len(c) + 1
    BY <1>1, <2>1, <2>3 DEF Copied
  <2> QED BY <1>1, <2>2, <2>3
<1>9. h => \A t \in 1 .. Len(d), y \in 1 .. n : Remains(w, y) => Prec(s, d[t], r[y])
  <2> SUFFICES ASSUME h, NEW t \in 1 .. Len(d), NEW y \in 1 .. n, Remains(w, y) PROVE Prec(s, d[t], r[y])
    OBVIOUS
  <2>1. CASE t \in 1 .. Len(c)
    BY <1>1, <2>1 DEF Copied, n
  <2>2. CASE t = Len(c) + 1
    BY <1>1, <2>2 DEF n
  <2> QED BY <1>1, <2>1, <2>2
<1>10. Len(d) = (w.i - w.lo) + (w.j - w.mid)
  BY <1>1 DEF Copied
<1> QED BY <1>1, <1>4, <1>5, <1>7, <1>8, <1>9, <1>10 DEF Copied, d, n

\* The next of the right half, which sorts strictly before what the left half has
\* left, or of the left half, which nothing of the right half does.
LEMMA CopiesRight ==
  ASSUME A!ArraysAssumption, NEW s \in Seq(Elem), NEW m, NEW w, NEW c, NEW r, NEW h,
         Places(r, Len(s)), Call(m, Len(s)), Copied(s, m, c, r, h), m.j < m.hi,
         w = [m EXCEPT !.j = @ + 1],
         h => InOrder(s, r, m.lo, m.mid) /\ InOrder(s, r, m.mid, m.hi),
         (h /\ m.i < m.mid) => Rank[s[r[m.j + 1]]] < Rank[s[r[m.i + 1]]]
  PROVE  Call(w, Len(s)) /\ Copied(s, w, Append(c, r[m.j + 1]), r, h)
<1> DEFINE n == Len(s)
           z == m.j + 1
<1>1. /\ n \in Nat /\ z \in 1 .. n
      /\ m.lo \in Nat /\ m.mid \in Nat /\ m.hi \in Nat /\ m.i \in Nat /\ m.j \in Nat
      /\ m.lo <= m.i /\ m.i <= m.mid /\ m.mid <= m.j /\ m.hi <= n
  BY DEF Call
<1>2. /\ w.lo = m.lo /\ w.mid = m.mid /\ w.hi = m.hi /\ w.i = m.i /\ w.j = z /\ w.next = m.next
      /\ w = [lo |-> w.lo, mid |-> w.mid, hi |-> w.hi, i |-> w.i, j |-> w.j, next |-> w.next]
  BY DEF Call
<1>3. Call(w, n)
  BY <1>1, <1>2 DEF Call
<1>4. Remains(m, z)
  BY <1>1 DEF Remains
<1>5. \A y \in 1 .. n : Merges(w, y) <=> Merges(m, y) \/ y = z
  BY <1>1, <1>2 DEF Merges
<1>6. \A y \in 1 .. n : Remains(w, y) <=> Remains(m, y) /\ y # z
  BY <1>1, <1>2 DEF Remains
<1>7. h => \A y \in 1 .. n : Remains(w, y) => Prec(s, r[z], r[y])
  <2> SUFFICES ASSUME h, NEW y \in 1 .. n, Remains(w, y) PROVE Prec(s, r[z], r[y])
    OBVIOUS
  <2>1. CASE m.j < y
    <3>1. z < y /\ y <= m.hi /\ m.mid < z
      BY <1>1, <1>2, <2>1 DEF Remains
    <3> QED BY <1>1, <3>1 DEF InOrder
  <2>2. CASE y <= m.mid
    <3>1. m.i < y /\ m.i + 1 \in 1 .. n /\ m.lo < m.i + 1 /\ m.i < m.mid
      BY <1>1, <1>2, <2>2 DEF Remains
    <3>2. r[z] \in 1 .. n /\ r[m.i + 1] \in 1 .. n /\ r[y] \in 1 .. n
      BY <1>1, <3>1 DEF Places
    <3>3. Prec(s, r[z], r[m.i + 1])
      BY <3>1 DEF Prec
    <3>4. CASE y = m.i + 1
      BY <3>3, <3>4
    <3>5. CASE y # m.i + 1
      <4> DEFINE x == m.i + 1
      <4>1. x < y /\ x \in 1 .. Len(s) /\ m.lo < x
        BY <1>1, <3>1, <3>5
      <4> HIDE DEF x
      <4>2. Prec(s, r[x], r[y])
        BY <2>2, <4>1 DEF InOrder
      <4> QED BY <3>2, <3>3, <4>2, PrecThrough DEF x
    <3> QED BY <3>4, <3>5
  <2> QED BY <1>1, <1>2, <2>1, <2>2 DEF Remains
<1>8. (w.i - w.lo) + (w.j - w.mid) = (m.i - m.lo) + (m.j - m.mid) + 1
  BY <1>1, <1>2
<1> HIDE DEF n, z
<1>9. Copied(s, w, Append(c, r[z]), r, h)
  BY <1>1, <1>4, <1>5, <1>6, <1>7, <1>8, CopiesOne DEF n
<1> QED BY <1>3, <1>9 DEF n, z

LEMMA CopiesLeft ==
  ASSUME A!ArraysAssumption, NEW s \in Seq(Elem), NEW m, NEW w, NEW c, NEW r, NEW h,
         Places(r, Len(s)), Call(m, Len(s)), Copied(s, m, c, r, h), m.i < m.mid,
         w = [m EXCEPT !.i = @ + 1], Keeps(r, Len(s), m.mid),
         h => InOrder(s, r, m.lo, m.mid) /\ InOrder(s, r, m.mid, m.hi),
         (h /\ m.j < m.hi) => ~(Rank[s[r[m.j + 1]]] < Rank[s[r[m.i + 1]]])
  PROVE  Call(w, Len(s)) /\ Copied(s, w, Append(c, r[m.i + 1]), r, h)
<1> DEFINE n == Len(s)
           z == m.i + 1
<1>1. /\ n \in Nat /\ z \in 1 .. n
      /\ m.lo \in Nat /\ m.mid \in Nat /\ m.hi \in Nat /\ m.i \in Nat /\ m.j \in Nat
      /\ m.lo <= m.i /\ m.j <= m.hi /\ m.mid <= m.j /\ m.hi <= n
  BY DEF Call
<1>2. /\ w.lo = m.lo /\ w.mid = m.mid /\ w.hi = m.hi /\ w.i = z /\ w.j = m.j /\ w.next = m.next
      /\ w = [lo |-> w.lo, mid |-> w.mid, hi |-> w.hi, i |-> w.i, j |-> w.j, next |-> w.next]
  BY DEF Call
<1>3. Call(w, n)
  BY <1>1, <1>2 DEF Call
<1>4. Remains(m, z)
  BY <1>1 DEF Remains
<1>5. \A y \in 1 .. n : Merges(w, y) <=> Merges(m, y) \/ y = z
  BY <1>1, <1>2 DEF Merges
<1>6. \A y \in 1 .. n : Remains(w, y) <=> Remains(m, y) /\ y # z
  BY <1>1, <1>2 DEF Remains
<1>7. h => \A y \in 1 .. n : Remains(w, y) => Prec(s, r[z], r[y])
  <2> SUFFICES ASSUME h, NEW y \in 1 .. n, Remains(w, y) PROVE Prec(s, r[z], r[y])
    OBVIOUS
  <2>1. CASE y <= m.mid
    <3>1. z < y /\ m.lo < z
      BY <1>1, <1>2, <2>1 DEF Remains
    <3> QED BY <1>1, <2>1, <3>1 DEF InOrder
  <2>2. CASE m.mid < y
    <3>1. m.j < y /\ y <= m.hi /\ m.j < m.hi /\ m.j + 1 \in 1 .. n /\ m.mid < m.j + 1
      BY <1>1, <1>2, <2>2 DEF Remains
    <3> DEFINE v == m.j + 1
    <3>2. /\ v \in 1 .. n /\ v <= y /\ (y # v => v < y) /\ m.mid < v /\ y <= m.hi
          /\ z \in 1 .. n /\ z <= m.mid
      BY <1>1, <3>1
    <3>3. (h /\ m.j < m.hi) => ~(Rank[s[r[v]]] < Rank[s[r[z]]])
      OBVIOUS
    <3> HIDE DEF v, z, n
    <3>4. r[z] \in 1 .. n /\ r[v] \in 1 .. n /\ r[y] \in 1 .. n
      BY <3>2 DEF Places, n
    <3>5. (r[z] <= m.mid <=> z <= m.mid) /\ (r[v] <= m.mid <=> v <= m.mid)
      BY <3>2 DEF Keeps, n
    <3>6. r[z] < r[v]
      BY <1>1, <3>2, <3>4, <3>5
    <3>7. Prec(s, r[z], r[v])
      <4> DEFINE a == Rank[s[r[z]]]
                 b == Rank[s[r[v]]]
      <4>1. a \in Int /\ b \in Int
        BY <3>4, RankIs DEF n
      <4>2. ~(b < a)
        BY <3>1, <3>3
      <4>3. a < b \/ a = b
        <5> HIDE DEF a, b
        <5> QED BY <4>1, <4>2
      <4> QED BY <3>6, <4>3 DEF Prec
    <3>8. CASE y = v
      BY <3>7, <3>8
    <3>9. CASE y # v
      <4>1. InOrder(s, r, m.mid, m.hi)
        OBVIOUS
      <4>2. v \in 1 .. Len(s) /\ y \in 1 .. Len(s) /\ m.mid < v /\ v < y /\ y <= m.hi
        BY <3>2, <3>9 DEF n
      <4>3. Prec(s, r[v], r[y])
        BY <4>1, <4>2 DEF InOrder
      <4> QED BY <3>4, <3>7, <4>3, PrecThrough DEF n
    <3> QED BY <3>8, <3>9
  <2> QED BY <1>1, <2>1, <2>2
<1>8. (w.i - w.lo) + (w.j - w.mid) = (m.i - m.lo) + (m.j - m.mid) + 1
  BY <1>1, <1>2
<1> HIDE DEF n, z
<1>9. Copied(s, w, Append(c, r[z]), r, h)
  BY <1>1, <1>4, <1>5, <1>6, <1>7, <1>8, CopiesOne DEF n
<1> QED BY <1>3, <1>9 DEF n, z

LEMMA CallSays ==
  ASSUME NEW m, NEW n \in Nat, Call(m, n)
  PROVE  m.lo \in Nat /\ m.mid \in Nat /\ m.hi \in Nat /\ m.lo <= m.mid /\ m.mid <= m.hi /\ m.hi <= n
BY DEF Call

\* What a call of k is called for: what k is busy with, or one of its own calls.
Within(m, k) ==
  /\ k.next # "left"
  /\ k.next = "right" => k.lo <= m.lo /\ m.hi <= k.mid
  /\ k.next = "merge" => k.mid <= m.lo /\ m.hi <= k.hi

Half(m, k) ==
  /\ k.next = "right" => m.lo = k.lo /\ m.hi = k.mid
  /\ k.next = "merge" => m.lo = k.mid /\ m.hi = k.hi

Calls(cs, n) ==
  /\ Row(cs)
  /\ \A k \in 1 .. Len(cs) : Call(cs[k], n)
  /\ \A k \in 1 .. Len(cs) :
       (k < Len(cs) \/ cs[k].next # "merge") => cs[k].i = cs[k].lo /\ cs[k].j = cs[k].mid
  /\ \A k, l \in 1 .. Len(cs) : k < l => Within(cs[l], cs[k])
  /\ \A k \in 1 .. Len(cs) - 1 : Half(cs[k + 1], cs[k])
  /\ Len(cs) >= 1 => cs[1].lo = 0 /\ cs[1].hi = n

\* Nothing has left its half, and what is still to be sorted has not moved.
Stayed(m, r, n) ==
  /\ Keeps(r, n, m.lo) /\ Keeps(r, n, m.mid) /\ Keeps(r, n, m.hi)
  /\ m.next = "left" => \A x \in 1 .. n : m.lo < x /\ x <= m.hi => r[x] = x
  /\ m.next = "right" => \A x \in 1 .. n : m.mid < x /\ x <= m.hi => r[x] = x

StayedAll(cs, r, n) == \A k \in 1 .. Len(cs) : Stayed(cs[k], r, n)

\* The halves that have been sorted.
SortedSoFar(s, cs, r) ==
  /\ Len(cs) = 0 => InOrder(s, r, 0, Len(s))
  /\ \A k \in 1 .. Len(cs) : cs[k].next = "merge" => InOrder(s, r, cs[k].lo, cs[k].mid)
  /\ \A k \in 1 .. Len(cs) : (k = Len(cs) /\ cs[k].next = "right") => InOrder(s, r, cs[k].lo, cs[k].mid)
  /\ \A k \in 1 .. Len(cs) : (k = Len(cs) /\ cs[k].next = "merge") => InOrder(s, r, cs[k].mid, cs[k].hi)

\* A call returns, and what it was for has moved within itself and is sorted.
LEMMA Returns ==
  ASSUME NEW s \in Seq(Elem), NEW cs, NEW r, NEW q, NEW h, cs # <<>>,
         Places(r, Len(s)), Calls(cs, Len(s)), StayedAll(cs, r, Len(s)),
         h => SortedSoFar(s, cs, r), Places(q, Len(s)),
         \A x \in 1 .. Len(s) : ~(A!Last(cs).lo < x /\ x <= A!Last(cs).hi) => q[x] = r[x],
         \A x \in 1 .. Len(s) :
           A!Last(cs).lo < x /\ x <= A!Last(cs).hi => A!Last(cs).lo < q[x] /\ q[x] <= A!Last(cs).hi,
         h => InOrder(s, q, A!Last(cs).lo, A!Last(cs).hi)
  PROVE  /\ Calls(A!Front(cs), Len(s)) /\ StayedAll(A!Front(cs), q, Len(s))
         /\ h => SortedSoFar(s, A!Front(cs), q)
<1> DEFINE n == Len(s)
           d == A!Front(cs)
           c == Len(cs)
           t == cs[c]
<1>1. /\ c \in Nat \ {0} /\ A!Last(cs) = t /\ n \in Nat
      /\ Row(d) /\ Len(d) = c - 1 /\ \A k \in 1 .. c - 1 : d[k] = cs[k]
  BY RowIs DEF Calls
<1>2. \A k \in 1 .. c : Call(cs[k], n)
  BY DEF Calls
<1>3. \A k \in 1 .. c - 1 : Within(t, cs[k])
  BY <1>1 DEF Calls
<1>4. t.lo \in Nat /\ t.hi \in Nat /\ t.lo <= t.hi
  <2> HIDE DEF t, n
  <2>1. Call(t, n)
    BY <1>1, <1>2 DEF t
  <2> QED BY <1>1, <2>1, CallSays
<1>5. \A x \in 1 .. n : r[x] \in 1 .. n /\ q[x] \in 1 .. n
  BY DEF Places
<1>6. /\ \A x \in 1 .. n : ~(t.lo < x /\ x <= t.hi) => q[x] = r[x]
      /\ \A x \in 1 .. n : t.lo < x /\ x <= t.hi => t.lo < q[x] /\ q[x] <= t.hi
      /\ h => InOrder(s, q, t.lo, t.hi)
  BY <1>1
<1>7. Calls(d, n)
  <2>1. \A k \in 1 .. Len(d) : Call(d[k], n) /\ d[k].i = d[k].lo /\ d[k].j = d[k].mid
    BY <1>1 DEF Calls
  <2>2. \A k, l \in 1 .. Len(d) : k < l => Within(d[l], d[k])
    BY <1>1 DEF Calls
  <2>3. \A k \in 1 .. Len(d) - 1 : Half(d[k + 1], d[k])
    BY <1>1 DEF Calls
  <2>4. Len(d) >= 1 => d[1].lo = 0 /\ d[1].hi = n
    BY <1>1 DEF Calls
  <2> HIDE DEF d, n, c
  <2> QED BY <1>1, <2>1, <2>2, <2>3, <2>4 DEF Calls
<1>8. ASSUME NEW k \in 1 .. c - 1
      PROVE  /\ Stayed(cs[k], q, n)
             /\ cs[k].next = "merge" => cs[k].mid <= t.lo /\ cs[k].mid \in Nat
  <2> DEFINE m == cs[k]
  <2>1. Call(m, n) /\ Within(t, m) /\ Stayed(m, r, n)
    BY <1>1, <1>2, <1>3 DEF StayedAll
  <2> HIDE DEF m, t, c, n, d
  <2>2. m.lo \in Nat /\ m.mid \in Nat /\ m.hi \in Nat /\ m.lo <= m.mid /\ m.mid <= m.hi
    BY <1>1, <2>1, CallSays
  <2>3. m.next \in {"right", "merge"}
    BY <2>1 DEF Call, Within
  <2>4. \A b \in Nat : (Keeps(r, n, b) /\ (b <= t.lo \/ t.hi <= b)) => Keeps(q, n, b)
    <3> SUFFICES ASSUME NEW b \in Nat, Keeps(r, n, b), b <= t.lo \/ t.hi <= b, NEW x \in 1 .. n
                 PROVE  q[x] <= b <=> x <= b
      BY DEF Keeps
    <3>1. CASE t.lo < x /\ x <= t.hi
      <4>1. t.lo < q[x] /\ q[x] <= t.hi /\ q[x] \in Nat
        BY <1>1, <1>5, <1>6, <3>1
      <4> QED BY <1>1, <1>4, <3>1, <4>1
    <3>2. CASE ~(t.lo < x /\ x <= t.hi)
      BY <1>6, <3>2 DEF Keeps
    <3> QED BY <3>1, <3>2
  <2>5. /\ m.lo <= t.lo \/ t.hi <= m.lo
        /\ m.mid <= t.lo \/ t.hi <= m.mid
        /\ m.hi <= t.lo \/ t.hi <= m.hi
    BY <1>4, <2>1, <2>2, <2>3 DEF Within
  <2>6. Keeps(q, n, m.lo) /\ Keeps(q, n, m.mid) /\ Keeps(q, n, m.hi)
    BY <2>1, <2>2, <2>4, <2>5 DEF Stayed
  <2>7. m.next = "right" => \A x \in 1 .. n : m.mid < x /\ x <= m.hi => q[x] = x
    <3> SUFFICES ASSUME m.next = "right", NEW x \in 1 .. n, m.mid < x, x <= m.hi PROVE q[x] = x
      OBVIOUS
    <3>1. r[x] = x
      BY <2>1 DEF Stayed
    <3>2. ~(x <= t.hi)
      BY <1>1, <1>4, <2>1, <2>2 DEF Within
    <3> QED BY <1>6, <3>1, <3>2
  <2>8. m.next = "merge" => m.mid <= t.lo /\ m.mid \in Nat
    BY <2>1, <2>2 DEF Within
  <2> QED BY <2>3, <2>6, <2>7, <2>8 DEF Stayed, m
<1>9. StayedAll(d, q, n)
  <2> HIDE DEF d, n, c, t
  <2> QED BY <1>1, <1>8 DEF StayedAll
<1>10. ASSUME h PROVE SortedSoFar(s, d, q)
  <2>1. SortedSoFar(s, cs, r)
    BY <1>10
  <2>2. Len(d) = 0 => InOrder(s, q, 0, n)
    <3>1. Len(d) = 0 => t.lo = 0 /\ t.hi = n
      <4>1. cs[1].lo = 0 /\ cs[1].hi = n
        BY <1>1 DEF Calls
      <4>2. Len(d) = 0 => c = 1
        BY <1>1
      <4> HIDE DEF c, d, n
      <4> QED BY <4>1, <4>2
    <3> QED BY <1>6, <1>10, <3>1
  <2>3. ASSUME NEW k \in 1 .. Len(d), d[k].next = "merge" PROVE InOrder(s, q, d[k].lo, d[k].mid)
    <3>1. k \in 1 .. c - 1 /\ d[k] = cs[k] /\ k \in 1 .. c
      BY <1>1
    <3>2. InOrder(s, r, d[k].lo, d[k].mid)
      BY <2>1, <2>3, <3>1 DEF SortedSoFar
    <3>3. d[k].mid <= t.lo /\ d[k].mid \in Nat
      BY <1>8, <2>3, <3>1
    <3>4. d[k].lo \in Nat
      BY <1>2, <3>1 DEF Call
    <3>5. \A x \in 1 .. n : x <= d[k].mid => q[x] = r[x]
      BY <1>1, <1>4, <1>6, <3>3
    <3> QED BY <3>2, <3>3, <3>4, <3>5 DEF InOrder
  <2>4. ASSUME NEW k \in 1 .. Len(d), k = Len(d) PROVE Half(t, d[k])
    <3>1. k \in 1 .. c - 1 /\ d[k] = cs[k] /\ k + 1 = c
      BY <1>1, <2>4
    <3> HIDE DEF d, c
    <3> QED BY <3>1 DEF Calls, c
  <2> HIDE DEF d, n, c, t
  <2>5. ASSUME NEW k \in 1 .. Len(d), k = Len(d)
        PROVE  /\ d[k].next = "right" => InOrder(s, q, d[k].lo, d[k].mid)
               /\ d[k].next = "merge" => InOrder(s, q, d[k].mid, d[k].hi)
    BY <1>6, <1>10, <2>4, <2>5 DEF Half
  <2> QED BY <2>2, <2>3, <2>5 DEF SortedSoFar, n
<1> QED BY <1>7, <1>9, <1>10

\* A call calls merge_sort for one of its halves, which has not moved.
LEMMA CallsHalf ==
  ASSUME NEW s \in Seq(Elem), NEW cs, NEW r, NEW h, NEW w, NEW f, cs # <<>>,
         Places(r, Len(s)), Calls(cs, Len(s)), StayedAll(cs, r, Len(s)),
         h => SortedSoFar(s, cs, r),
         w = [A!Last(cs) EXCEPT !.next = w.next], f = A!Merging(f.lo, f.hi),
         \/ A!Last(cs).next = "left" /\ w.next = "right" /\ f.lo = w.lo /\ f.hi = w.mid
         \/ A!Last(cs).next = "right" /\ w.next = "merge" /\ f.lo = w.mid /\ f.hi = w.hi
  PROVE  LET ds == Append(Append(A!Front(cs), w), f) IN
         /\ Calls(ds, Len(s)) /\ StayedAll(ds, r, Len(s)) /\ ds # <<>> /\ A!Last(ds) = f
         /\ f.next = "left"
         /\ h => SortedSoFar(s, ds, r)
<1> DEFINE n == Len(s)
           c == Len(cs)
           t == cs[c]
           e == Append(A!Front(cs), w)
           ds == Append(e, f)
<1>1. /\ c \in Nat \ {0} /\ A!Last(cs) = t /\ n \in Nat
      /\ Row(e) /\ Len(e) = c /\ e[c] = w /\ \A k \in 1 .. c - 1 : e[k] = cs[k]
  BY RowIs, Replaced DEF Calls
<1>2. /\ Row(ds) /\ Len(ds) = c + 1 /\ ds[c + 1] = f /\ ds[c] = w
      /\ \A k \in 1 .. c - 1 : ds[k] = cs[k]
  <2> HIDE DEF e, c
  <2> QED BY <1>1, Pushed
<1>3. ds # <<>> /\ A!Last(ds) = f
  <2> HIDE DEF ds, c
  <2> QED BY <1>1, <1>2, RowIs
<1>4. \A k \in 1 .. c : Call(cs[k], n) /\ Stayed(cs[k], r, n)
  BY DEF Calls, StayedAll
<1>5. /\ \A k \in 1 .. c - 1 : Within(t, cs[k])
      /\ \A k, l \in 1 .. c - 1 : k < l => Within(cs[l], cs[k])
      /\ \A k \in 1 .. c - 1 : Half(cs[k + 1], cs[k])
      /\ cs[1].lo = 0 /\ cs[1].hi = n
      /\ \A k \in 1 .. c - 1 : cs[k].i = cs[k].lo /\ cs[k].j = cs[k].mid
      /\ t.next # "merge" => t.i = t.lo /\ t.j = t.mid
  BY <1>1 DEF Calls
<1> HIDE DEF ds, e, n
<1>6. Call(t, n) /\ Stayed(t, r, n)
  BY <1>1, <1>4
<1> HIDE DEF t, c
<1>7. /\ w.lo = t.lo /\ w.mid = t.mid /\ w.hi = t.hi /\ w.i = t.i /\ w.j = t.j
      /\ w = [lo |-> w.lo, mid |-> w.mid, hi |-> w.hi, i |-> w.i, j |-> w.j, next |-> w.next]
      /\ w.next \in {"right", "merge"} /\ t.next # "merge"
  BY <1>1, <1>6 DEF Call
<1>8. t.lo \in Nat /\ t.mid \in Nat /\ t.hi \in Nat /\ t.lo <= t.mid /\ t.mid <= t.hi /\ t.hi <= n
  BY <1>1, <1>6, CallSays
<1>9. Call(w, n) /\ w.i = w.lo /\ w.j = w.mid
  BY <1>5, <1>6, <1>7, <1>8 DEF Call
<1>10. f.lo \in Nat /\ f.hi \in Nat /\ t.lo <= f.lo /\ f.lo <= f.hi /\ f.hi <= t.hi
  BY <1>7, <1>8
<1>11. /\ f.mid \in Nat /\ f.lo <= f.mid /\ f.mid <= f.hi /\ f.i = f.lo /\ f.j = f.mid
       /\ f.next = "left" /\ Call(f, n)
  <2> DEFINE mid == f.lo + (f.hi - f.lo) \div 2
  <2>1. mid \in Nat /\ f.lo <= mid /\ mid <= f.hi
    BY <1>10
  <2>2. f = [lo |-> f.lo, mid |-> mid, hi |-> f.hi, i |-> f.lo, j |-> mid, next |-> "left"]
    BY DEF A!Merging
  <2> HIDE DEF mid
  <2>3. f.mid = mid /\ f.i = f.lo /\ f.j = mid /\ f.next = "left"
    BY <2>2
  <2>4. f = [lo |-> f.lo, mid |-> f.mid, hi |-> f.hi, i |-> f.i, j |-> f.j, next |-> f.next]
    BY <2>2, <2>3
  <2>5. f.hi <= n
    BY <1>1, <1>8, <1>10
  <2>6. Call(f, n)
    BY <1>10, <2>1, <2>3, <2>4, <2>5 DEF Call
  <2> QED BY <2>1, <2>3, <2>6
<1>12. Within(f, w) /\ Half(f, w)
  BY <1>7, <1>8, <1>10 DEF Within, Half
<1>13. \A k \in 1 .. c - 1 : Within(w, cs[k]) /\ Within(f, cs[k])
  <2> SUFFICES ASSUME NEW k \in 1 .. c - 1 PROVE Within(w, cs[k]) /\ Within(f, cs[k])
    OBVIOUS
  <2>1. Within(t, cs[k])
    BY <1>5
  <2>2. cs[k].lo \in Nat /\ cs[k].mid \in Nat /\ cs[k].hi \in Nat
    BY <1>1, <1>4, CallSays
  <2> QED BY <1>7, <1>8, <1>10, <2>1, <2>2 DEF Within
<1>14. Calls(ds, n)
  <2>1. ASSUME NEW k \in 1 .. Len(ds)
        PROVE  Call(ds[k], n) /\ ds[k].i = ds[k].lo /\ ds[k].j = ds[k].mid
    <3>1. CASE k \in 1 .. c - 1
      BY <1>1, <1>2, <1>4, <1>5, <3>1
    <3>2. CASE k = c
      BY <1>2, <1>9, <3>2
    <3>3. CASE k = c + 1
      BY <1>2, <1>11, <3>3
    <3> QED BY <1>1, <1>2, <3>1, <3>2, <3>3
  <2>2. ASSUME NEW k \in 1 .. Len(ds), NEW l \in 1 .. Len(ds), k < l PROVE Within(ds[l], ds[k])
    <3>1. CASE l \in 1 .. c - 1
      BY <1>1, <1>2, <1>5, <2>2, <3>1
    <3>2. CASE l = c
      BY <1>1, <1>2, <1>13, <2>2, <3>2
    <3>3. CASE l = c + 1 /\ k = c
      BY <1>2, <1>12, <3>3
    <3>4. CASE l = c + 1 /\ k \in 1 .. c - 1
      BY <1>2, <1>13, <3>4
    <3> QED BY <1>1, <1>2, <2>2, <3>1, <3>2, <3>3, <3>4
  <2>3. ASSUME NEW k \in 1 .. Len(ds) - 1 PROVE Half(ds[k + 1], ds[k])
    <3>1. CASE k + 1 \in 1 .. c - 1
      BY <1>1, <1>2, <1>5, <3>1
    <3>2. CASE k + 1 = c
      <4>1. Half(t, cs[k]) /\ ds[k + 1] = w /\ ds[k] = cs[k]
        BY <1>1, <1>2, <1>5, <3>2 DEF t
      <4> QED BY <1>7, <4>1 DEF Half
    <3>3. CASE k = c
      BY <1>2, <1>12, <3>3
    <3> QED BY <1>1, <1>2, <3>1, <3>2, <3>3
  <2>4. ds[1].lo = 0 /\ ds[1].hi = n
    <3>1. CASE c = 1
      BY <1>2, <1>5, <1>7, <3>1 DEF t
    <3>2. CASE c # 1
      BY <1>1, <1>2, <1>5, <3>2
    <3> QED BY <3>1, <3>2
  <2> QED BY <1>2, <2>1, <2>2, <2>3, <2>4 DEF Calls
<1>15. \A x \in 1 .. n : r[x] \in 1 .. n
  BY DEF Places, n
<1>16. Stayed(w, r, n)
  BY <1>1, <1>6, <1>7, <1>8 DEF Stayed
<1>17. Keeps(r, n, f.lo) /\ Keeps(r, n, f.hi)
  BY <1>6, <1>7 DEF Stayed
<1>18. \A x \in 1 .. n : f.lo < x /\ x <= f.hi => r[x] = x
  BY <1>1, <1>6, <1>7, <1>8 DEF Stayed
<1>19. Keeps(r, n, f.mid)
  <2> SUFFICES ASSUME NEW x \in 1 .. n PROVE r[x] <= f.mid <=> x <= f.mid
    BY DEF Keeps
  <2>1. r[x] \in 1 .. n /\ (r[x] <= f.lo <=> x <= f.lo) /\ (r[x] <= f.hi <=> x <= f.hi)
    BY <1>15, <1>17 DEF Keeps
  <2>2. f.lo < x /\ x <= f.hi => r[x] = x
    BY <1>18
  <2> QED BY <1>1, <1>10, <1>11, <2>1, <2>2
<1>20. Stayed(f, r, n)
  BY <1>11, <1>17, <1>18, <1>19 DEF Stayed
<1>21. StayedAll(ds, r, n)
  BY <1>1, <1>2, <1>4, <1>16, <1>20 DEF StayedAll
<1>22. ASSUME h PROVE SortedSoFar(s, ds, r)
  <2>1. SortedSoFar(s, cs, r)
    BY <1>22
  <2>2. ASSUME NEW k \in 1 .. Len(ds), ds[k].next = "merge" PROVE InOrder(s, r, ds[k].lo, ds[k].mid)
    <3>1. CASE k \in 1 .. c - 1
      BY <1>1, <1>2, <2>1, <2>2, <3>1 DEF SortedSoFar, c
    <3>2. CASE k = c
      <4>1. ds[k] = w /\ t.next = "right"
        BY <1>1, <1>2, <1>7, <2>2, <3>2
      <4>2. InOrder(s, r, t.lo, t.mid)
        BY <1>1, <2>1, <4>1 DEF SortedSoFar, c, t
      <4> QED BY <1>7, <4>1, <4>2
    <3>3. CASE k = c + 1
      BY <1>2, <1>11, <2>2, <3>3
    <3> QED BY <1>1, <1>2, <3>1, <3>2, <3>3
  <2>3. ASSUME NEW k \in 1 .. Len(ds), k = Len(ds) PROVE ds[k].next = "left"
    BY <1>2, <1>11, <2>3
  <2> QED BY <1>1, <1>2, <2>2, <2>3 DEF SortedSoFar
<1> QED BY <1>3, <1>11, <1>14, <1>21, <1>22 DEF ds, e, n

SortedIf(h, s, cs, r) == h => SortedSoFar(s, cs, r)

\* A merge goes on.
LEMMA MergesOn ==
  ASSUME NEW s \in Seq(Elem), NEW cs, NEW r, NEW h, NEW w, NEW ds, cs # <<>>,
         ds = Append(A!Front(cs), w),
         Calls(cs, Len(s)), StayedAll(cs, r, Len(s)), SortedIf(h, s, cs, r),
         Call(w, Len(s)), A!Last(cs).next = "merge", w.next = "merge",
         w.lo = A!Last(cs).lo, w.mid = A!Last(cs).mid, w.hi = A!Last(cs).hi
  PROVE  /\ Calls(ds, Len(s)) /\ StayedAll(ds, r, Len(s)) /\ ds # <<>> /\ A!Last(ds) = w
         /\ SortedIf(h, s, ds, r)
<1> DEFINE n == Len(s)
           c == Len(cs)
           t == cs[c]
<1>1. /\ c \in Nat \ {0} /\ A!Last(cs) = t /\ n \in Nat
      /\ Row(ds) /\ Len(ds) = c /\ ds[c] = w /\ \A k \in 1 .. c - 1 : ds[k] = cs[k]
      /\ ds # <<>> /\ A!Last(ds) = w
  BY RowIs, Replaced DEF Calls
<1>2. \A k \in 1 .. c : Call(cs[k], n) /\ Stayed(cs[k], r, n)
  BY DEF Calls, StayedAll
<1>3. /\ \A k, l \in 1 .. c : k < l => Within(cs[l], cs[k])
      /\ \A k \in 1 .. c - 1 : Half(cs[k + 1], cs[k])
      /\ cs[1].lo = 0 /\ cs[1].hi = n
      /\ \A k \in 1 .. c - 1 : cs[k].i = cs[k].lo /\ cs[k].j = cs[k].mid
  BY <1>1 DEF Calls
<1> HIDE DEF n, c, t
<1>4. w.lo = t.lo /\ w.mid = t.mid /\ w.hi = t.hi /\ t.next = "merge"
  BY <1>1
<1>5. Calls(ds, n)
  <2>1. \A k \in 1 .. c : Call(ds[k], n)
    BY <1>1, <1>2 DEF n
  <2>2. ASSUME NEW k \in 1 .. c, NEW l \in 1 .. c, k < l PROVE Within(ds[l], ds[k])
    <3>1. Within(cs[l], cs[k]) /\ ds[k] = cs[k]
      BY <1>1, <1>3, <2>2
    <3>2. CASE l = c
      BY <1>1, <1>4, <3>1, <3>2 DEF Within, t
    <3>3. CASE l # c
      BY <1>1, <3>1, <3>3
    <3> QED BY <3>2, <3>3
  <2>3. ASSUME NEW k \in 1 .. c - 1 PROVE Half(ds[k + 1], ds[k])
    <3>1. Half(cs[k + 1], cs[k]) /\ ds[k] = cs[k]
      BY <1>1, <1>3
    <3>2. CASE k + 1 = c
      BY <1>1, <1>4, <3>1, <3>2 DEF Half, t
    <3>3. CASE k + 1 # c
      BY <1>1, <3>1, <3>3
    <3> QED BY <3>2, <3>3
  <2>4. ds[1].lo = 0 /\ ds[1].hi = n
    <3>1. CASE c = 1
      BY <1>1, <1>3, <1>4, <3>1 DEF t
    <3>2. CASE c # 1
      <4>1. 1 \in 1 .. c - 1
        BY <1>1, <3>2
      <4>2. ds[1] = cs[1]
        BY <1>1, <4>1
      <4> QED BY <1>3, <4>2
    <3> QED BY <3>1, <3>2
  <2>5. ASSUME NEW k \in 1 .. c, k < c \/ ds[k].next # "merge" PROVE ds[k].i = ds[k].lo /\ ds[k].j = ds[k].mid
    <3>1. k # c
      BY <1>1, <2>5
    <3>2. k \in 1 .. c - 1
      BY <1>1, <3>1
    <3> QED BY <1>1, <1>3, <3>2
  <2> QED BY <1>1, <2>1, <2>2, <2>3, <2>4, <2>5 DEF Calls
<1>6. StayedAll(ds, r, n)
  <2>1. Stayed(t, r, n)
    BY <1>1, <1>2 DEF t
  <2>2. Stayed(w, r, n)
    BY <1>4, <2>1 DEF Stayed
  <2> QED BY <1>1, <1>2, <2>2 DEF StayedAll
<1>7. ASSUME h PROVE SortedSoFar(s, ds, r)
  <2>1. SortedSoFar(s, cs, r)
    BY <1>7 DEF SortedIf
  <2>2. \A k \in 1 .. c : /\ ds[k].next = cs[k].next /\ ds[k].lo = cs[k].lo
                          /\ ds[k].mid = cs[k].mid /\ ds[k].hi = cs[k].hi
    BY <1>1, <1>4 DEF t
  <2> QED BY <1>1, <2>1, <2>2 DEF SortedSoFar, c
<1> QED BY <1>1, <1>5, <1>6, <1>7 DEF n, SortedIf

\* What has been merged is copied back.
LEMMA CopiesBack ==
  ASSUME NEW s \in Seq(Elem), NEW m, NEW c, NEW r, NEW q, NEW h,
         Places(r, Len(s)), Call(m, Len(s)), Copied(s, m, c, r, h), Stayed(m, r, Len(s)),
         ~(m.i < m.mid), ~(m.j < m.hi),
         q = [x \in DOMAIN r |-> IF m.lo < x /\ x <= m.hi THEN c[x - m.lo] ELSE r[x]]
  PROVE  /\ Places(q, Len(s))
         /\ \A x \in 1 .. Len(s) : ~(m.lo < x /\ x <= m.hi) => q[x] = r[x]
         /\ \A x \in 1 .. Len(s) : m.lo < x /\ x <= m.hi => m.lo < q[x] /\ q[x] <= m.hi
         /\ h => InOrder(s, q, m.lo, m.hi)
<1> DEFINE n == Len(s)
           In(x) == m.lo < x /\ x <= m.hi
<1>1. /\ n \in Nat /\ m.lo \in Nat /\ m.mid \in Nat /\ m.hi \in Nat
      /\ m.lo <= m.mid /\ m.mid <= m.hi /\ m.hi <= n
      /\ m.i = m.mid /\ m.j = m.hi
  BY DEF Call
<1>2. /\ r \in [1 .. n -> 1 .. n] /\ DOMAIN r = 1 .. n
      /\ \A x, y \in 1 .. n : r[x] = r[y] => x = y
      /\ \A p \in 1 .. n : \E x \in 1 .. n : r[x] = p
  BY DEF Places
<1>3. \A y \in 1 .. n : Merges(m, y) <=> In(y)
  BY <1>1 DEF Merges
<1>4. Len(c) = m.hi - m.lo
  BY <1>1 DEF Copied
<1>k. Keeps(r, n, m.lo) /\ Keeps(r, n, m.hi)
  BY DEF Stayed
<1>5. ASSUME NEW x \in 1 .. n PROVE In(x) <=> In(r[x])
  <2> HIDE DEF n
  <2>1. (r[x] <= m.lo <=> x <= m.lo) /\ (r[x] <= m.hi <=> x <= m.hi) /\ r[x] \in 1 .. n
    BY <1>2, <1>k DEF Keeps
  <2> QED BY <1>1, <2>1
<1>6. \A x \in 1 .. n : In(x) => In(r[x])
  BY <1>5
<1>7. ASSUME NEW x \in 1 .. n, In(x) PROVE x - m.lo \in 1 .. Len(c) /\ q[x] = c[x - m.lo]
  <2>1. q[x] = c[x - m.lo]
    BY <1>2, <1>7
  <2> HIDE DEF n
  <2>2. x - m.lo \in 1 .. Len(c)
    BY <1>1, <1>4, <1>7
  <2> QED BY <2>1, <2>2
<1>8. \A x \in 1 .. n : ~In(x) => q[x] = r[x]
  BY <1>2
<1>9. DOMAIN q = 1 .. n
  BY <1>2
<1>q. q = [x \in 1 .. n |-> q[x]]
  BY <1>2
<1> HIDE DEF n
<1>10. \A t \in 1 .. Len(c) : \E y \in 1 .. n : In(y) /\ c[t] = r[y]
  BY <1>3 DEF Copied, n
<1>11. \A y \in 1 .. n : In(y) => \E t \in 1 .. Len(c) : c[t] = r[y]
  BY <1>3 DEF Copied, n
<1>12. \A t, u \in 1 .. Len(c) : c[t] = c[u] => t = u
  BY DEF Copied
<1>13. h => \A t, u \in 1 .. Len(c) : t < u => Prec(s, c[t], c[u])
  BY DEF Copied
<1> HIDE DEF In
<1>14. \A x \in 1 .. n : In(x) => In(q[x]) /\ q[x] \in 1 .. n
  <2> SUFFICES ASSUME NEW x \in 1 .. n, In(x) PROVE In(q[x]) /\ q[x] \in 1 .. n
    OBVIOUS
  <2>1. PICK y \in 1 .. n : In(y) /\ c[x - m.lo] = r[y]
    BY <1>7, <1>10
  <2> QED BY <1>2, <1>5, <1>7, <2>1
<1>15. Places(q, n)
  <2>1. q \in [1 .. n -> 1 .. n]
    <3>1. \A x \in 1 .. n : q[x] \in 1 .. n
      BY <1>2, <1>8, <1>14
    <3> QED BY <1>q, <3>1
  <2>2. ASSUME NEW x \in 1 .. n, NEW y \in 1 .. n, q[x] = q[y] PROVE x = y
    <3>1. CASE In(x) /\ In(y)
      <4>1. x - m.lo = y - m.lo
        BY <1>7, <1>12, <2>2, <3>1
      <4> QED BY <1>1, <4>1
    <3>2. CASE ~In(x) /\ ~In(y)
      BY <1>2, <1>8, <2>2, <3>2
    <3>3. CASE In(x) /\ ~In(y)
      BY <1>5, <1>8, <1>14, <2>2, <3>3
    <3>4. CASE ~In(x) /\ In(y)
      BY <1>5, <1>8, <1>14, <2>2, <3>4
    <3> QED BY <3>1, <3>2, <3>3, <3>4
  <2>3. ASSUME NEW p \in 1 .. n PROVE \E x \in 1 .. n : q[x] = p
    <3>1. PICK x \in 1 .. n : r[x] = p
      BY <1>2
    <3>2. CASE ~In(x)
      BY <1>8, <3>1, <3>2
    <3>3. CASE In(x)
      <4>1. PICK t \in 1 .. Len(c) : c[t] = p
        BY <1>11, <3>1, <3>3
      <4> DEFINE z == t + m.lo
      <4>0. t \in Nat /\ 1 <= t /\ t <= m.hi - m.lo
        BY <1>1, <1>4
      <4>2. z \in 1 .. n /\ In(z) /\ z - m.lo = t
        BY <1>1, <4>0 DEF In
      <4> HIDE DEF z
      <4> QED BY <1>7, <4>1, <4>2
    <3> QED BY <3>2, <3>3
  <2> QED BY <2>1, <2>2, <2>3 DEF Places
<1>16. h => InOrder(s, q, m.lo, m.hi)
  <2> SUFFICES ASSUME h, NEW x \in 1 .. n, NEW y \in 1 .. n, m.lo < x, x < y, y <= m.hi
               PROVE  Prec(s, q[x], q[y])
    BY DEF InOrder, n
  <2>1. In(x) /\ In(y)
    BY <1>1 DEF In
  <2>2. x - m.lo < y - m.lo
    BY <1>1
  <2> QED BY <1>7, <1>13, <2>1, <2>2
<1> QED BY <1>8, <1>14, <1>15, <1>16 DEF In, n

\* Nothing has been merged.
LEMMA CopiesNone ==
  ASSUME NEW s \in Seq(Elem), NEW m, NEW r, NEW h, Call(m, Len(s)), m.i = m.lo, m.j = m.mid
  PROVE  Copied(s, m, <<>>, r, h)
<1>1. m.lo \in Nat /\ m.mid \in Nat
  BY DEF Call
<1>2. Row(<<>>) /\ Len(<<>>) = 0
  BY DEF Row
<1>3. \A y \in 1 .. Len(s) : ~Merges(m, y)
  BY <1>1 DEF Merges
<1>4. Len(<<>>) = (m.i - m.lo) + (m.j - m.mid)
  BY <1>1, <1>2
<1> QED BY <1>2, <1>3, <1>4 DEF Copied

Scratch(s, cs, c, r, h) ==
  IF cs # <<>> /\ A!Last(cs).next = "merge" THEN Copied(s, A!Last(cs), c, r, h) ELSE c = <<>>

\* A call that another returns to has merged nothing.
LEMMA ScratchBack ==
  ASSUME NEW s \in Seq(Elem), NEW cs, NEW q, NEW h, cs # <<>>, Calls(cs, Len(s))
  PROVE  Scratch(s, A!Front(cs), <<>>, q, h)
<1> DEFINE d == A!Front(cs)
           c == Len(cs)
<1>1. /\ c \in Nat /\ c >= 1 /\ Row(d) /\ Len(d) = c - 1
      /\ \A k \in 1 .. c - 1 : d[k] = cs[k]
  BY RowIs DEF Calls
<1>2. CASE d = <<>>
  BY <1>2 DEF Scratch
<1>3. CASE d # <<>>
  <2>1. c - 1 \in 1 .. c - 1 /\ A!Last(d) = d[c - 1]
    <3> HIDE DEF d, c
    <3> QED BY <1>1, <1>3, RowIs
  <2> DEFINE k == c - 1
  <2>2. A!Last(d) = cs[k] /\ k \in 1 .. c /\ k < c
    BY <1>1, <2>1
  <2> HIDE DEF k, d
  <2>3. Call(cs[k], Len(s)) /\ cs[k].i = cs[k].lo /\ cs[k].j = cs[k].mid
    BY <2>2 DEF Calls
  <2>4. Copied(s, A!Last(d), <<>>, q, h)
    BY <2>2, <2>3, CopiesNone
  <2> QED BY <2>4 DEF Scratch, d
<1> QED BY <1>2, <1>3

\* What there is of a sort: what it sorts, whether the comparison is honest, its
\* calls, what they have copied, and the places as they are sorted so far.
SortOk(s, h, cs, sc, r) ==
  /\ s \in Seq(Elem) /\ h \in BOOLEAN
  /\ Places(r, Len(s)) /\ Calls(cs, Len(s)) /\ StayedAll(cs, r, Len(s))
  /\ h => SortedSoFar(s, cs, r)
  /\ Scratch(s, cs, sc, r, h)

SortInv(c) ==
  /\ DOMAIN c = {"op", "started", "honest", "calls", "scratch", "result"} /\ c.op = "sorted"
  /\ SortOk(c.started, c.honest, c.calls, c.scratch, c.result)

\* A sort begins with the array as it is.
LEMMA SortBegins ==
  ASSUME items \in Seq(Elem), NEW h \in BOOLEAN
  PROVE  SortInv(A!Sorting(h))
<1> DEFINE n == Len(items)
           m == A!Merging(0, n)
           r == [p \in 1 .. n |-> p]
           mid == 0 + (n - 0) \div 2
<1>1. n \in Nat /\ mid \in Nat /\ 0 <= mid /\ mid <= n
  BY LenProperties
<1>2. m = [lo |-> 0, mid |-> mid, hi |-> n, i |-> 0, j |-> mid, next |-> "left"]
  BY DEF A!Merging
<1>3. Row(<<m>>) /\ Len(<<m>>) = 1 /\ <<m>>[1] = m /\ <<m>> # <<>> /\ A!Last(<<m>>) = m
  <2> HIDE DEF m
  <2>1. <<m>> \in Seq({m})
    OBVIOUS
  <2> QED BY <2>1 DEF Row, A!Last
<1> HIDE DEF mid, m
<1>4. /\ m.lo = 0 /\ m.mid = mid /\ m.hi = n /\ m.i = 0 /\ m.j = mid /\ m.next = "left"
      /\ m = [lo |-> m.lo, mid |-> m.mid, hi |-> m.hi, i |-> m.i, j |-> m.j, next |-> m.next]
  BY <1>2
<1>5. Places(r, n)
  <2> HIDE DEF n
  <2> QED BY <1>1 DEF Places
<1>6. \A x \in 1 .. n : r[x] = x
  OBVIOUS
<1> HIDE DEF n, r
<1>7. Call(m, n)
  BY <1>1, <1>4 DEF Call
<1>8. Calls(<<m>>, n)
  BY <1>3, <1>4, <1>7 DEF Calls
<1>9. Stayed(m, r, n)
  BY <1>6, <1>4 DEF Stayed, Keeps
<1>10. StayedAll(<<m>>, r, n)
  BY <1>3, <1>9 DEF StayedAll
<1>11. SortedSoFar(items, <<m>>, r)
  BY <1>3, <1>4 DEF SortedSoFar
<1>12. Scratch(items, <<m>>, <<>>, r, h)
  BY <1>3, <1>4 DEF Scratch
<1>13. SortOk(items, h, <<m>>, <<>>, r)
  BY <1>5, <1>8, <1>10, <1>11, <1>12 DEF SortOk, n
<1>14. A!Sorting(h) = [op |-> "sorted", started |-> items, honest |-> h, calls |-> <<m>>, scratch |-> <<>>, result |-> r]
  BY DEF A!Sorting, m, n, r
<1> QED BY <1>13, <1>14 DEF SortInv

\* With other calls, and scratch, and places.
LEMMA SortWith ==
  ASSUME NEW c, SortInv(c), NEW x, NEW y, NEW z, NEW d,
         \/ d = [c EXCEPT !.scratch = x, !.calls = y] /\ z = c.result
         \/ d = [c EXCEPT !.calls = y, !.scratch = x, !.result = z]
         \/ d = [c EXCEPT !.calls = y] /\ x = c.scratch /\ z = c.result,
         SortOk(c.started, c.honest, y, x, z)
  PROVE  SortInv(d)
<1>1. DOMAIN c = {"op", "started", "honest", "calls", "scratch", "result"} /\ c.op = "sorted"
  BY DEF SortInv
<1>2. /\ DOMAIN d = DOMAIN c /\ d.op = c.op /\ d.started = c.started /\ d.honest = c.honest
      /\ d.calls = y /\ d.scratch = x /\ d.result = z
  BY <1>1
<1> QED BY <1>1, <1>2 DEF SortInv

\* The next of one half is copied: of the right half if it sorts strictly before.
LEMMA SortTakes ==
  ASSUME A!ArraysAssumption, NEW c, SortInv(c), NEW right \in BOOLEAN,
         c.calls # <<>>, A!Last(c.calls).next = "merge",
         right => A!Last(c.calls).j < A!Last(c.calls).hi,
         ~right => A!Last(c.calls).i < A!Last(c.calls).mid,
         (c.honest /\ A!Last(c.calls).i < A!Last(c.calls).mid /\ A!Last(c.calls).j < A!Last(c.calls).hi)
            => (right <=> A!Before(c))
  PROVE  SortInv(A!Taken(c, right))
<1> DEFINE s == c.started
           h == c.honest
           cs == c.calls
           sc == c.scratch
           r == c.result
           m == A!Last(cs)
           n == Len(s)
<1>1. SortOk(s, h, cs, sc, r)
  BY DEF SortInv
<1>2. /\ s \in Seq(Elem) /\ h \in BOOLEAN
      /\ Places(r, n) /\ Calls(cs, n) /\ StayedAll(cs, r, n)
      /\ h => SortedSoFar(s, cs, r)
      /\ Copied(s, m, sc, r, h)
  BY <1>1 DEF SortOk, Scratch
<1>3. Len(cs) \in 1 .. Len(cs) /\ m = cs[Len(cs)] /\ n \in Nat
  BY <1>2, RowIs DEF Calls
<1>4. Call(m, n) /\ Stayed(m, r, n)
  BY <1>2, <1>3 DEF Calls, StayedAll
<1>5. h => InOrder(s, r, m.lo, m.mid) /\ InOrder(s, r, m.mid, m.hi)
  BY <1>2, <1>3 DEF SortedSoFar
<1>9. cs # <<>> /\ m.next = "merge"
  OBVIOUS
<1>6. A!Before(c) <=> Rank[s[r[m.j + 1]]] < Rank[s[r[m.i + 1]]]
  BY DEF A!Before, A!RankAt
<1>7. CASE right
  <2> DEFINE w == [m EXCEPT !.j = @ + 1]
             d == Append(sc, r[m.j + 1])
             e == Append(A!Front(cs), w)
  <2>1. A!Taken(c, right) = [c EXCEPT !.scratch = d, !.calls = e]
    BY <1>7 DEF A!Taken, A!TakenRight, A!Instead
  <2>2. (h /\ m.i < m.mid) => Rank[s[r[m.j + 1]]] < Rank[s[r[m.i + 1]]]
    BY <1>6, <1>7
  <2>3. w.lo = m.lo /\ w.mid = m.mid /\ w.hi = m.hi /\ w.next = "merge"
    BY <1>4 DEF Call
  <2> HIDE DEF s, h, cs, sc, r, m, n, w
  <2>4. Call(w, n) /\ Copied(s, w, d, r, h)
    BY <1>2, <1>4, <1>5, <1>7, <2>2, CopiesRight DEF m, n, w, cs
  <2>5. /\ Calls(e, n) /\ StayedAll(e, r, n) /\ e # <<>> /\ A!Last(e) = w
        /\ SortedIf(h, s, e, r)
    <3>1. m = A!Last(cs) /\ e = Append(A!Front(cs), w)
      BY DEF m
    <3>2. /\ s \in Seq(Elem) /\ Calls(cs, Len(s)) /\ StayedAll(cs, r, Len(s)) /\ Call(w, Len(s))
          /\ SortedIf(h, s, cs, r)
      BY <1>2, <2>4 DEF n, SortedIf
    <3>3. /\ cs # <<>> /\ A!Last(cs).next = "merge" /\ w.next = "merge"
          /\ w.lo = A!Last(cs).lo /\ w.mid = A!Last(cs).mid /\ w.hi = A!Last(cs).hi
      BY <1>9, <2>3, <3>1
    <3> HIDE DEF d, e
    <3> QED BY <3>1, <3>2, <3>3, MergesOn DEF n
  <2> HIDE DEF d, e
  <2>6. SortOk(s, h, e, d, r)
    BY <1>2, <2>3, <2>4, <2>5 DEF SortOk, SortedIf, Scratch, n
  <2> QED BY <2>1, <2>6, SortWith DEF s, h, r
<1>8. CASE ~right
  <2> DEFINE w == [m EXCEPT !.i = @ + 1]
             d == Append(sc, r[m.i + 1])
             e == Append(A!Front(cs), w)
  <2>1. A!Taken(c, right) = [c EXCEPT !.scratch = d, !.calls = e]
    BY <1>8 DEF A!Taken, A!TakenLeft, A!Instead
  <2>2. (h /\ m.j < m.hi) => ~(Rank[s[r[m.j + 1]]] < Rank[s[r[m.i + 1]]])
    BY <1>6, <1>8
  <2>3. w.lo = m.lo /\ w.mid = m.mid /\ w.hi = m.hi /\ w.next = "merge"
    BY <1>4 DEF Call
  <2>k. Keeps(r, n, m.mid)
    BY <1>4 DEF Stayed
  <2> HIDE DEF s, h, cs, sc, r, m, n, w
  <2>4. Call(w, n) /\ Copied(s, w, d, r, h)
    BY <1>2, <1>4, <1>5, <1>8, <2>2, <2>k, CopiesLeft DEF m, n, w, cs
  <2>5. /\ Calls(e, n) /\ StayedAll(e, r, n) /\ e # <<>> /\ A!Last(e) = w
        /\ SortedIf(h, s, e, r)
    <3>1. m = A!Last(cs) /\ e = Append(A!Front(cs), w)
      BY DEF m
    <3>2. /\ s \in Seq(Elem) /\ Calls(cs, Len(s)) /\ StayedAll(cs, r, Len(s)) /\ Call(w, Len(s))
          /\ SortedIf(h, s, cs, r)
      BY <1>2, <2>4 DEF n, SortedIf
    <3>3. /\ cs # <<>> /\ A!Last(cs).next = "merge" /\ w.next = "merge"
          /\ w.lo = A!Last(cs).lo /\ w.mid = A!Last(cs).mid /\ w.hi = A!Last(cs).hi
      BY <1>9, <2>3, <3>1
    <3> HIDE DEF d, e
    <3> QED BY <3>1, <3>2, <3>3, MergesOn DEF n
  <2> HIDE DEF d, e
  <2>6. SortOk(s, h, e, d, r)
    BY <1>2, <2>3, <2>4, <2>5 DEF SortOk, SortedIf, Scratch, n
  <2> QED BY <2>1, <2>6, SortWith DEF s, h, r
<1> QED BY <1>7, <1>8

\* What there is to know of the innermost call.
LEMMA SortSays ==
  ASSUME NEW c, SortInv(c), c.calls # <<>>
  PROVE  /\ c.started \in Seq(Elem) /\ c.honest \in BOOLEAN /\ Len(c.started) \in Nat
         /\ Places(c.result, Len(c.started)) /\ Calls(c.calls, Len(c.started))
         /\ StayedAll(c.calls, c.result, Len(c.started))
         /\ c.honest => SortedSoFar(c.started, c.calls, c.result)
         /\ Call(A!Last(c.calls), Len(c.started)) /\ Stayed(A!Last(c.calls), c.result, Len(c.started))
         /\ IF A!Last(c.calls).next = "merge"
              THEN Copied(c.started, A!Last(c.calls), c.scratch, c.result, c.honest)
              ELSE c.scratch = <<>>
<1>1. SortOk(c.started, c.honest, c.calls, c.scratch, c.result)
  BY DEF SortInv
<1>2. Row(c.calls) /\ c.started \in Seq(Elem)
  BY <1>1 DEF SortOk, Calls
<1>3. Len(c.calls) \in 1 .. Len(c.calls) /\ A!Last(c.calls) = c.calls[Len(c.calls)] /\ Len(c.started) \in Nat
  BY <1>2, RowIs
<1>4. Call(A!Last(c.calls), Len(c.started)) /\ Stayed(A!Last(c.calls), c.result, Len(c.started))
  BY <1>1, <1>3 DEF SortOk, Calls, StayedAll
<1> QED BY <1>1, <1>3, <1>4 DEF SortOk, Scratch

\* Fewer than two are sorted.
LEMMA SortReturns ==
  ASSUME NEW c, SortInv(c), c.calls # <<>>, A!Last(c.calls).next = "left",
         A!Last(c.calls).hi - A!Last(c.calls).lo < 2
  PROVE  SortInv(A!Returned(c))
<1> DEFINE s == c.started
           h == c.honest
           cs == c.calls
           r == c.result
           m == A!Last(cs)
           n == Len(s)
<1>1. /\ s \in Seq(Elem) /\ h \in BOOLEAN /\ n \in Nat
      /\ Places(r, n) /\ Calls(cs, n) /\ StayedAll(cs, r, n)
      /\ h => SortedSoFar(s, cs, r)
      /\ Call(m, n) /\ Stayed(m, r, n) /\ c.scratch = <<>>
      /\ cs # <<>> /\ m.hi - m.lo < 2
  BY SortSays
<1>r. DOMAIN c = {"op", "started", "honest", "calls", "scratch", "result"}
  BY DEF SortInv
<1>2. A!Returned(c) = [c EXCEPT !.calls = A!Front(cs)]
  BY <1>r DEF A!Returned
<1>3. m = A!Last(cs)
  OBVIOUS
<1> HIDE DEF s, h, cs, r, m
<1>4. m.lo \in Nat /\ m.hi \in Nat
  BY <1>1 DEF Call
<1>5. InOrder(s, r, m.lo, m.hi)
  BY <1>1, <1>4 DEF InOrder
<1>6. ASSUME NEW x \in 1 .. n, m.lo < x, x <= m.hi PROVE m.lo < r[x] /\ r[x] <= m.hi
  <2>1. (r[x] <= m.lo <=> x <= m.lo) /\ (r[x] <= m.hi <=> x <= m.hi) /\ r[x] \in 1 .. n
    BY <1>1 DEF Stayed, Keeps, Places
  <2> QED BY <1>4, <1>6, <2>1
<1>7. /\ Calls(A!Front(cs), n) /\ StayedAll(A!Front(cs), r, n)
      /\ h => SortedSoFar(s, A!Front(cs), r)
  BY <1>1, <1>3, <1>5, <1>6, Returns
<1>8. Scratch(s, A!Front(cs), <<>>, r, h)
  BY <1>1, ScratchBack
<1>9. SortOk(s, h, A!Front(cs), <<>>, r)
  BY <1>1, <1>7, <1>8 DEF SortOk
<1> QED BY <1>1, <1>2, <1>9, SortWith DEF s, h, r

\* A half is sorted first.
LEMMA SortHalves ==
  ASSUME NEW c, SortInv(c), c.calls # <<>>, NEW next, NEW lo, NEW hi,
         \/ A!Last(c.calls).next = "left" /\ next = "right" /\ lo = A!Last(c.calls).lo /\ hi = A!Last(c.calls).mid
         \/ A!Last(c.calls).next = "right" /\ next = "merge" /\ lo = A!Last(c.calls).mid /\ hi = A!Last(c.calls).hi
  PROVE  SortInv(A!Halved(c, next, lo, hi))
<1> DEFINE s == c.started
           h == c.honest
           cs == c.calls
           r == c.result
           m == A!Last(cs)
           n == Len(s)
           w == [m EXCEPT !.next = next]
           f == A!Merging(lo, hi)
           ds == Append(Append(A!Front(cs), w), f)
<1>1. /\ s \in Seq(Elem) /\ h \in BOOLEAN /\ n \in Nat
      /\ Places(r, n) /\ Calls(cs, n) /\ StayedAll(cs, r, n)
      /\ h => SortedSoFar(s, cs, r)
      /\ Call(m, n) /\ c.scratch = <<>> /\ cs # <<>>
  BY SortSays
<1>2. A!Halved(c, next, lo, hi) = [c EXCEPT !.calls = ds]
  BY DEF A!Halved, A!Instead
<1>3. w.lo = m.lo /\ w.mid = m.mid /\ w.hi = m.hi /\ w.next = next
  BY <1>1 DEF Call
<1>4. f.lo = lo /\ f.hi = hi
  BY DEF A!Merging
<1>5. w = [A!Last(cs) EXCEPT !.next = w.next] /\ f = A!Merging(f.lo, f.hi) /\ m = A!Last(cs)
  BY <1>3, <1>4
<1>6. \/ m.next = "left" /\ w.next = "right" /\ f.lo = w.lo /\ f.hi = w.mid
      \/ m.next = "right" /\ w.next = "merge" /\ f.lo = w.mid /\ f.hi = w.hi
  BY <1>3, <1>4
<1> HIDE DEF s, h, cs, r, m, w, f
<1>7. /\ Calls(ds, n) /\ StayedAll(ds, r, n) /\ ds # <<>> /\ A!Last(ds) = f
      /\ f.next = "left"
      /\ h => SortedSoFar(s, ds, r)
  BY <1>1, <1>5, <1>6, CallsHalf
<1> HIDE DEF ds
<1>8. Scratch(s, ds, <<>>, r, h)
  BY <1>7 DEF Scratch
<1>9. SortOk(s, h, ds, <<>>, r)
  BY <1>1, <1>7, <1>8 DEF SortOk
<1> QED BY <1>1, <1>2, <1>9, SortWith DEF s, h, r

\* What was merged is copied back.
LEMMA SortMerges ==
  ASSUME NEW c, SortInv(c), c.calls # <<>>, A!Last(c.calls).next = "merge",
         ~(A!Last(c.calls).i < A!Last(c.calls).mid), ~(A!Last(c.calls).j < A!Last(c.calls).hi)
  PROVE  SortInv(A!Merged(c))
<1> DEFINE s == c.started
           h == c.honest
           cs == c.calls
           r == c.result
           m == A!Last(cs)
           n == Len(s)
           q == [x \in DOMAIN r |-> IF m.lo < x /\ x <= m.hi THEN c.scratch[x - m.lo] ELSE r[x]]
<1>1. /\ s \in Seq(Elem) /\ h \in BOOLEAN /\ n \in Nat
      /\ Places(r, n) /\ Calls(cs, n) /\ StayedAll(cs, r, n)
      /\ h => SortedSoFar(s, cs, r)
      /\ Call(m, n) /\ Stayed(m, r, n) /\ Copied(s, m, c.scratch, r, h)
      /\ cs # <<>> /\ ~(m.i < m.mid) /\ ~(m.j < m.hi)
  BY SortSays
<1>2. A!Merged(c) = [c EXCEPT !.calls = A!Front(cs), !.scratch = <<>>, !.result = q]
  BY DEF A!Merged
<1>3. m = A!Last(cs)
  OBVIOUS
<1> HIDE DEF s, h, cs, r, m
<1>4. /\ Places(q, n)
      /\ \A x \in 1 .. n : ~(m.lo < x /\ x <= m.hi) => q[x] = r[x]
      /\ \A x \in 1 .. n : m.lo < x /\ x <= m.hi => m.lo < q[x] /\ q[x] <= m.hi
      /\ h => InOrder(s, q, m.lo, m.hi)
  BY <1>1, CopiesBack
<1> HIDE DEF q
<1>7. /\ Calls(A!Front(cs), n) /\ StayedAll(A!Front(cs), q, n)
      /\ h => SortedSoFar(s, A!Front(cs), q)
  BY <1>1, <1>3, <1>4, Returns
<1>8. Scratch(s, A!Front(cs), <<>>, q, h)
  BY <1>1, ScratchBack
<1>9. SortOk(s, h, A!Front(cs), <<>>, q)
  BY <1>1, <1>4, <1>7, <1>8 DEF SortOk
<1> QED BY <1>2, <1>9, SortWith DEF s, h

\* What a sort answers.
LEMMA SortAnswers ==
  ASSUME A!ArraysAssumption, NEW c, SortInv(c), c.calls = <<>>
  PROVE  A!Permuted(c) /\ (c.honest => A!Stably(c))
<1> DEFINE s == c.started
           r == c.result
           n == Len(s)
<1>1. s \in Seq(Elem) /\ n \in Nat /\ DOMAIN s = 1 .. n
  BY DEF SortInv, SortOk
<1>2. Places(r, n)
  BY DEF SortInv, SortOk
<1>3. r \in [1 .. n -> 1 .. n] /\ DOMAIN r = 1 .. n
  BY <1>2 DEF Places
<1>4. Len(r) = n
  BY <1>1, <1>3, LenProperties
<1>5. A!Range(r) = 1 .. n
  <2> HIDE DEF r, n
  <2> QED BY <1>2, <1>3 DEF A!Range, Places
<1>6. A!Permuted(c)
  BY <1>1, <1>2, <1>3, <1>4, <1>5 DEF A!Permuted, Places
<1>7. ASSUME c.honest PROVE A!Stably(c)
  <2>1. Len(c.calls) = 0
    OBVIOUS
  <2>2. InOrder(s, r, 0, n)
    BY <1>7, <2>1 DEF SortInv, SortOk, SortedSoFar
  <2>3. ASSUME NEW x \in 1 .. n, NEW y \in 1 .. n, x < y PROVE Prec(s, r[x], r[y])
    BY <1>1, <2>2, <2>3 DEF InOrder
  <2> QED BY <1>3, <2>3 DEF A!Stably, A!Precedes, A!RankAt, Prec
<1> QED BY <1>6, <1>7

-----------------------------------------------------------------------------
(* Walks                                                                   *)

LEMMA SameCount == ASSUME NEW S PROVE A!Cardinality(S) = Cardinality(S)
BY DEF A!Cardinality, Cardinality

\* How many of the first k of a hold.
Held(a, k) == Cardinality({i \in 1 .. k : a[i]})

LEMMA HeldNone ==
  ASSUME NEW a
  PROVE  Held(a, 0) = 0
<1>1. {i \in 1 .. 0 : a[i]} = {}
  OBVIOUS
<1> QED BY <1>1, FS_EmptySet DEF Held

LEMMA HeldNat ==
  ASSUME NEW a, NEW k \in Nat
  PROVE  IsFiniteSet({i \in 1 .. k : a[i]}) /\ Held(a, k) \in Nat
<1>1. IsFiniteSet(1 .. k)
  BY FS_Interval
<1>2. IsFiniteSet({i \in 1 .. k : a[i]})
  BY <1>1, FS_Subset
<1> QED BY <1>2, FS_CardinalityType DEF Held

LEMMA HeldOneMore ==
  ASSUME NEW a, NEW k \in Nat
  PROVE  Held(a, k + 1) = IF a[k + 1] THEN Held(a, k) + 1 ELSE Held(a, k)
<1> DEFINE H == {i \in 1 .. k : a[i]}
<1>1. IsFiniteSet(H)
  BY HeldNat
<1>2. CASE a[k + 1]
  <2>1. {i \in 1 .. k + 1 : a[i]} = H \cup {k + 1} /\ k + 1 \notin H
    BY <1>2
  <2> HIDE DEF H
  <2>2. Cardinality(H \cup {k + 1}) = Cardinality(H) + 1
    BY <1>1, <2>1, FS_AddElement
  <2> QED BY <1>2, <2>1, <2>2 DEF Held, H
<1>3. CASE ~a[k + 1]
  <2>1. {i \in 1 .. k + 1 : a[i]} = H
    BY <1>3
  <2> QED BY <1>3, <2>1 DEF Held
<1> QED BY <1>2, <1>3

LEMMA HeldGrows ==
  ASSUME NEW a, NEW k \in Nat, NEW l \in Nat, k <= l
  PROVE  Held(a, k) <= Held(a, l)
<1>1. {i \in 1 .. k : a[i]} \subseteq {i \in 1 .. l : a[i]}
  OBVIOUS
<1>2. IsFiniteSet({i \in 1 .. l : a[i]})
  BY HeldNat
<1> QED BY <1>1, <1>2, FS_Subset DEF Held

\* Of those there were, with one more answer.
LEMMA HeldSame ==
  ASSUME NEW a, NEW b, NEW k \in Nat, \A i \in 1 .. k : b[i] = a[i]
  PROVE  Held(b, k) = Held(a, k)
<1>1. {i \in 1 .. k : b[i]} = {i \in 1 .. k : a[i]}
  OBVIOUS
<1> QED BY <1>1 DEF Held

\* The k-th of those that hold is one of as many.
LEMMA HeldThere ==
  ASSUME NEW a, NEW n \in Nat, NEW k \in 1 .. n, a[k]
  PROVE  Held(a, k) \in 1 .. Held(a, n)
<1>1. k - 1 \in Nat /\ (k - 1) + 1 = k
  OBVIOUS
<1> DEFINE l == k - 1
<1> HIDE DEF l
<1>2. l \in Nat /\ l + 1 = k
  BY <1>1 DEF l
<1>3. Held(a, l + 1) = Held(a, l) + 1 /\ Held(a, l) \in Nat
  BY <1>2, HeldOneMore, HeldNat
<1>k. k \in Nat /\ k <= n
  OBVIOUS
<1>4. Held(a, k) <= Held(a, n)
  BY <1>k, HeldGrows
<1>5. Held(a, k) \in Nat /\ Held(a, n) \in Nat
  BY <1>k, HeldNat
<1> QED BY <1>2, <1>3, <1>4, <1>5

\* select has kept those its block answered for.
Keeping(a, g, r, n) ==
  /\ Len(r) = Held(a, n)
  /\ \A k \in 1 .. n : a[k] => r[Held(a, k)] = g[k]

\* And one more, for which it has not answered.
Pending(a, g, r, n) ==
  /\ Len(r) = Held(a, n) + 1
  /\ r[Held(a, n) + 1] = g[n + 1]
  /\ \A k \in 1 .. n : a[k] => r[Held(a, k)] = g[k]

\* One more element is given and kept before its block has answered for it.
LEMMA KeepsFirst ==
  ASSUME NEW a, NEW g, NEW r, NEW n \in Nat, NEW e, Row(r), Row(g), Len(g) = n, Keeping(a, g, r, n)
  PROVE  Row(Append(r, e)) /\ Pending(a, Append(g, e), Append(r, e), n)
<1>1. /\ Row(Append(r, e)) /\ Len(Append(r, e)) = Held(a, n) + 1
      /\ Append(r, e)[Held(a, n) + 1] = e
      /\ \A k \in 1 .. Held(a, n) : Append(r, e)[k] = r[k]
  BY Pushed DEF Keeping
<1>2. Append(g, e)[n + 1] = e /\ \A k \in 1 .. n : Append(g, e)[k] = g[k]
  BY Pushed
<1>3. ASSUME NEW k \in 1 .. n, a[k] PROVE Append(r, e)[Held(a, k)] = Append(g, e)[k]
  <2>1. Held(a, k) \in 1 .. Held(a, n)
    BY <1>3, HeldThere
  <2> QED BY <1>1, <1>2, <1>3, <2>1 DEF Keeping
<1> QED BY <1>1, <1>2, <1>3 DEF Pending

\* It stays, or it goes.
StaysOrGoes(b, r, q, n) ==
  /\ b[n + 1] => q = r
  /\ ~b[n + 1] => q = A!Front(r)

LEMMA KeepsOrNot ==
  ASSUME NEW a, NEW g, NEW r, NEW n \in Nat, NEW b, NEW q, Row(r),
         \A k \in 1 .. n : b[k] = a[k], Pending(a, g, r, n), StaysOrGoes(b, r, q, n)
  PROVE  Row(q) /\ Keeping(b, g, q, n + 1)
<1>p. /\ Len(r) = Held(a, n) + 1 /\ r[Held(a, n) + 1] = g[n + 1]
      /\ \A k \in 1 .. n : a[k] => r[Held(a, k)] = g[k]
  BY DEF Pending
<1>1. \A k \in 1 .. n : b[k] = a[k]
  OBVIOUS
<1>q. (b[n + 1] => q = r) /\ (~b[n + 1] => q = A!Front(r))
  BY DEF StaysOrGoes
<1>0. Held(a, n) \in Nat
  BY HeldNat
<1>2. ASSUME NEW k \in 1 .. n PROVE Held(b, k) = Held(a, k)
  <2>1. k \in Nat /\ \A i \in 1 .. k : b[i] = a[i]
    BY <1>1
  <2> QED BY <2>1, HeldSame
<1>n. Held(b, n) = Held(a, n)
  BY <1>1, HeldSame
<1>3. Held(b, n + 1) = IF b[n + 1] THEN Held(b, n) + 1 ELSE Held(b, n)
  BY HeldOneMore
<1>4. \A k \in 1 .. n : b[k] => Held(b, k) \in 1 .. Held(a, n)
  BY <1>1, <1>2, HeldThere
<1>5. CASE b[n + 1]
  <2>1. q = r /\ Held(b, n + 1) = Held(a, n) + 1
    BY <1>1, <1>3, <1>5, <1>n, <1>q
  <2>2. ASSUME NEW k \in 1 .. n + 1, b[k] PROVE q[Held(b, k)] = g[k]
    <3>1. CASE k = n + 1
      BY <1>p, <2>1, <3>1
    <3>2. CASE k \in 1 .. n
      BY <1>p, <1>1, <1>2, <2>1, <2>2, <3>2
    <3> QED BY <3>1, <3>2
  <2> QED BY <1>p, <2>1, <2>2 DEF Keeping
<1>6. CASE ~b[n + 1]
  <2>1. Held(b, n + 1) = Held(a, n)
    BY <1>1, <1>3, <1>6, <1>n
  <2>2. r # <<>> /\ Len(r) - 1 = Held(a, n)
    BY <1>p, <1>0, RowIs
  <2>3. Row(q) /\ Len(q) = Held(a, n) /\ \A k \in 1 .. Held(a, n) : q[k] = r[k]
    <3>1. Row(A!Front(r)) /\ Len(A!Front(r)) = Len(r) - 1 /\ \A k \in 1 .. Len(r) - 1 : A!Front(r)[k] = r[k]
      BY <2>2, RowIs
    <3> QED BY <1>6, <1>q, <2>2, <3>1
  <2>4. ASSUME NEW k \in 1 .. n + 1, b[k] PROVE q[Held(b, k)] = g[k]
    <3>1. k \in 1 .. n
      BY <1>1, <1>6, <2>4
    <3>2. Held(b, k) \in 1 .. Held(a, n) /\ r[Held(b, k)] = g[k]
      BY <1>p, <1>1, <1>2, <1>4, <2>4, <3>1
    <3> QED BY <2>3, <3>2
  <2> QED BY <2>1, <2>3, <2>4 DEF Keeping
<1> QED BY <1>5, <1>6

\* A walk, however far it is.
Walked(c) ==
  /\ DOMAIN c = {"op", "started", "given", "answers", "limit", "i", "result"} /\ c.op \in A!Walks
  /\ c.started \in Seq(Elem) /\ c.given \in Seq(Elem) /\ Row(c.answers) /\ Row(c.result)
  /\ c.i \in Nat /\ c.limit = Len(c.started) /\ Len(c.answers) = c.i
  /\ c.op = "collect" => c.result = c.answers
  /\ c.op = "inject" /\ c.answers # <<>> => c.result = <<A!Last(c.answers)>>

\* One that has its answers.
WalkRest(c) ==
  /\ Walked(c) /\ c.i <= c.limit /\ Len(c.given) = c.i
  /\ c.op = "select" => Keeping(c.answers, c.given, c.result, c.i)

\* One that waits for its block.
WalkInv(c) ==
  /\ Walked(c) /\ c.i < c.limit /\ Len(c.given) = c.i + 1
  /\ c.op = "select" => Pending(c.answers, c.given, c.result, c.i)

LEMMA WalkBegins ==
  ASSUME items \in Seq(Elem), NEW op \in A!Walks
  PROVE  WalkRest(A!Walking(op))
<1> DEFINE c == A!Walking(op)
<1>1. /\ DOMAIN c = {"op", "started", "given", "answers", "limit", "i", "result"}
      /\ c.op = op /\ c.started = items /\ c.given = <<>> /\ c.answers = <<>>
      /\ c.limit = Len(items) /\ c.i = 0 /\ c.result = <<>>
  BY DEF A!Walking
<1> HIDE DEF c
<1>2. <<>> \in Seq(Elem) /\ Len(<<>>) = 0 /\ Row(<<>>) /\ Len(items) \in Nat
  BY DEF Row
<1>3. Walked(c)
  BY <1>1, <1>2 DEF Walked
<1>4. Keeping(<<>>, <<>>, <<>>, 0)
  BY <1>2, HeldNone DEF Keeping
<1> QED BY <1>1, <1>2, <1>3, <1>4 DEF WalkRest, c

\* It gives its block the next element there is.
LEMMA WalkGives ==
  ASSUME items \in Seq(Elem), NEW c, WalkRest(c), A!Going(c)
  PROVE  WalkInv(A!Given(c))
<1> DEFINE d == A!Given(c)
           e == items[c.i + 1]
<1>1. Walked(c) /\ c.i < c.limit /\ c.i < Len(items) /\ Len(c.given) = c.i
  BY DEF WalkRest, A!Going
<1>2. A!ElementAt(c.i) = e /\ e \in Elem
  BY <1>1 DEF A!ElementAt, Walked
<1>3. /\ DOMAIN d = DOMAIN c /\ d.op = c.op /\ d.started = c.started /\ d.answers = c.answers
      /\ d.limit = c.limit /\ d.i = c.i /\ d.given = Append(c.given, e)
      /\ d.result = IF c.op = "select" THEN Append(c.result, e) ELSE c.result
  BY <1>1, <1>2 DEF A!Given, Walked
<1> HIDE DEF d, e
<1>4. d.given \in Seq(Elem) /\ Len(d.given) = d.i + 1 /\ Row(c.given)
  BY <1>1, <1>2, <1>3, AppendProperties DEF Walked, Row
<1>5. ASSUME c.op = "select"
      PROVE  Row(d.result) /\ Pending(d.answers, d.given, d.result, d.i)
  <2>1. Row(c.result) /\ c.i \in Nat /\ Keeping(c.answers, c.given, c.result, c.i)
    BY <1>1, <1>5 DEF Walked, WalkRest
  <2>2. Row(Append(c.result, e)) /\ Pending(c.answers, Append(c.given, e), Append(c.result, e), c.i)
    BY <1>1, <1>4, <2>1, KeepsFirst
  <2>3. d.result = Append(c.result, e)
    BY <1>3, <1>5
  <2> QED BY <1>3, <2>2, <2>3
<1>6. Row(d.result)
  BY <1>1, <1>3, <1>5 DEF Walked
<1>7. Walked(d)
  BY <1>1, <1>3, <1>4, <1>6 DEF Walked
<1> QED BY <1>1, <1>3, <1>4, <1>5, <1>7 DEF WalkInv, d

\* Its block answers.
LEMMA WalkAnswered ==
  ASSUME NEW c, WalkInv(c), NEW v
  PROVE  WalkRest(A!Answered(c, v))
<1> DEFINE d == A!Answered(c, v)
           b == Append(c.answers, v)
<1>1. Walked(c) /\ c.i < c.limit /\ Len(c.given) = c.i + 1
  BY DEF WalkInv
<1>2. /\ DOMAIN d = DOMAIN c /\ d.op = c.op /\ d.started = c.started /\ d.given = c.given
      /\ d.limit = c.limit /\ d.i = c.i + 1 /\ d.answers = b
      /\ d.result = CASE c.op = "collect" -> Append(c.result, v)
                      [] c.op = "select" -> IF v THEN c.result ELSE A!Front(c.result)
                      [] c.op = "inject" -> <<v>>
                      [] OTHER -> c.result
  BY <1>1 DEF A!Answered, Walked
<1>3. Row(b) /\ Len(b) = c.i + 1 /\ b # <<>> /\ A!Last(b) = v
  <2>1. Row(c.answers) /\ Len(c.answers) = c.i /\ c.i \in Nat
    BY <1>1 DEF Walked
  <2>2. Row(b) /\ Len(b) = c.i + 1 /\ b[c.i + 1] = v
    BY <2>1, Pushed
  <2> HIDE DEF b
  <2> QED BY <2>1, <2>2, RowIs
<1> HIDE DEF d, b
<1>4. d.i \in Nat /\ d.i <= d.limit /\ Len(d.given) = d.i
  BY <1>1, <1>2 DEF Walked
<1>5. ASSUME c.op = "select" PROVE Row(d.result) /\ Keeping(d.answers, d.given, d.result, d.i)
  <2>1. Row(c.result) /\ Row(c.answers) /\ c.i \in Nat /\ Len(c.answers) = c.i
    BY <1>1, <1>5 DEF Walked
  <2>p. Pending(c.answers, c.given, c.result, c.i)
    BY <1>5 DEF WalkInv
  <2>2. b[c.i + 1] = v /\ \A k \in 1 .. c.i : b[k] = c.answers[k]
    BY <2>1, Pushed DEF b
  <2>3. StaysOrGoes(b, c.result, d.result, c.i)
    BY <1>2, <1>5, <2>2 DEF StaysOrGoes
  <2>4. Row(d.result) /\ Keeping(b, c.given, d.result, c.i + 1)
    BY <2>1, <2>2, <2>3, <2>p, KeepsOrNot
  <2> QED BY <1>2, <2>4
<1>6. Row(<<v>>)
  <2>1. <<v>> \in Seq({v})
    OBVIOUS
  <2> QED BY <2>1 DEF Row
<1>7. CASE c.op = "collect"
  <2>1. c.result = c.answers /\ d.result = Append(c.result, v)
    BY <1>1, <1>2, <1>7 DEF Walked
  <2>2. d.result = b
    BY <2>1 DEF b
  <2>3. Walked(d)
    BY <1>1, <1>2, <1>3, <1>4, <1>7, <2>2 DEF Walked
  <2> QED BY <1>2, <1>4, <1>7, <2>3 DEF WalkRest, d
<1>8. CASE c.op = "select"
  <2>1. Walked(d)
    BY <1>1, <1>2, <1>3, <1>4, <1>5, <1>8 DEF Walked
  <2> QED BY <1>2, <1>4, <1>5, <1>8, <2>1 DEF WalkRest, d
<1>9. CASE c.op = "inject"
  <2>1. d.result = <<v>>
    BY <1>2, <1>9
  <2>2. Walked(d)
    BY <1>1, <1>2, <1>3, <1>4, <1>6, <1>9, <2>1 DEF Walked
  <2> QED BY <1>2, <1>4, <1>9, <2>2 DEF WalkRest, d
<1>10. CASE c.op = "do"
  <2>1. d.result = c.result
    BY <1>2, <1>10
  <2>2. Walked(d)
    BY <1>1, <1>2, <1>3, <1>4, <1>10, <2>1 DEF Walked
  <2> QED BY <1>2, <1>4, <1>10, <2>2 DEF WalkRest, d
<1> QED BY <1>1, <1>7, <1>8, <1>9, <1>10 DEF Walked, A!Walks

\* What it answers, and as the array is when it does.
LEMMA WalkAnswers ==
  ASSUME items \in Seq(Elem), NEW c, WalkRest(c), ~A!Going(c)
  PROVE  /\ c.op \in A!Walks /\ Len(c.given) = Len(c.answers)
         /\ Len(c.given) = Len(c.started) \/ Len(items) <= Len(c.given)
         /\ A!AnswerOf(c)
<1>1. /\ Walked(c) /\ c.i <= c.limit /\ Len(c.given) = c.i /\ c.i \in Nat /\ c.limit \in Nat
      /\ Len(c.answers) = c.i /\ c.limit = Len(c.started) /\ c.op \in A!Walks /\ Len(items) \in Nat
  BY DEF WalkRest, Walked
<1>2. c.i = c.limit \/ Len(items) <= c.i
  BY <1>1 DEF A!Going
<1>3. ASSUME c.op = "select"
      PROVE  /\ Len(c.result) = A!Kept(c, Len(c.answers))
             /\ \A k \in DOMAIN c.answers : c.answers[k] => c.result[A!Kept(c, k)] = c.given[k]
  <2>1. Keeping(c.answers, c.given, c.result, c.i)
    BY <1>3 DEF WalkRest
  <2>2. DOMAIN c.answers = 1 .. c.i
    <3>1. PICK S : c.answers \in Seq(S)
      BY <1>1 DEF Walked, Row
    <3> QED BY <1>1, <3>1
  <2> QED BY <1>1, <2>1, <2>2, SameCount DEF Keeping, A!Kept, Held
<1>4. A!AnswerOf(c)
  BY <1>1, <1>3 DEF A!AnswerOf, Walked
<1> QED BY <1>1, <1>2, <1>4

\* One that waits has kept inside.
LEMMA WalkInside ==
  ASSUME A!ArraysAssumption, NEW c, WalkInv(c)
  PROVE  Stale \notin A!Range(c.given) /\ Len(c.given) = c.i + 1 /\ Len(c.given) <= Len(c.started)
<1>1. /\ Stale \notin Elem /\ c.given \in Seq(Elem) /\ Len(c.given) = c.i + 1 /\ c.i < Len(c.started)
      /\ c.i \in Nat /\ Len(c.started) \in Nat
  BY DEF WalkInv, Walked, A!ArraysAssumption
<1>2. A!Range(c.given) \subseteq Elem
  BY <1>1 DEF A!Range
<1> QED BY <1>1, <1>2

-----------------------------------------------------------------------------
(* Loops                                                                   *)

\* A loop, however far it is.
Loop(c) ==
  /\ DOMAIN c = {"op", "started", "given", "at", "to", "step", "over"} /\ c.op = "loop"
  /\ c.started \in Seq(Elem) /\ c.given \in Seq(Elem) /\ c.started[1] \in Elem
  /\ c.at \in Elem /\ c.to \in Elem /\ c.step \in Int /\ c.over \in BOOLEAN
  /\ A!LoopGives(c)

\* One whose block has answered, or has not been called.
LoopRest(c) ==
  /\ Loop(c)
  /\ c.given = <<>> => c.over = FALSE /\ c.at = c.started[1]
  /\ c.given # <<>> /\ c.over => A!Last(c.given) + c.step \notin Elem
  /\ c.given # <<>> /\ ~c.over => c.at = A!Last(c.given) + c.step

\* One that waits for its block.
LoopInv(c) == Loop(c) /\ c.over = FALSE /\ c.given # <<>> /\ A!Last(c.given) = c.at

LEMMA LoopBegins ==
  ASSUME A!ArraysAssumption, items \in Seq(Elem), Len(items) \in {2, 3}
  PROVE  LoopRest(A!Looping)
<1> DEFINE c == A!Looping
<1>1. /\ DOMAIN c = {"op", "started", "given", "at", "to", "step", "over"}
      /\ c.op = "loop" /\ c.started = items /\ c.given = <<>> /\ c.at = items[1] /\ c.to = items[2]
      /\ c.step = (IF Len(items) = 3 THEN items[3] ELSE 1) /\ c.over = FALSE
  BY DEF A!Looping
<1> HIDE DEF c
<1>2. items[1] \in Elem /\ items[2] \in Elem /\ (Len(items) = 3 => items[3] \in Elem)
  OBVIOUS
<1>3. c.step \in Int
  <2>1. Len(items) = 3 => items[3] \in Int
    BY <1>2 DEF A!ArraysAssumption
  <2>2. CASE Len(items) = 3
    BY <1>1, <2>1, <2>2
  <2>3. CASE Len(items) # 3
    BY <1>1, <2>3
  <2> QED BY <2>2, <2>3
<1>4. <<>> \in Seq(Elem) /\ Len(<<>>) = 0 /\ DOMAIN <<>> = {}
  OBVIOUS
<1>5. A!LoopGives(c)
  BY <1>1, <1>4 DEF A!LoopGives
<1>6. Loop(c)
  BY <1>1, <1>2, <1>3, <1>4, <1>5 DEF Loop
<1> QED BY <1>1, <1>6 DEF LoopRest, c

\* It gives its block the next integer, which is in its range.
LEMMA LoopOffers ==
  ASSUME A!ArraysAssumption, NEW c, LoopRest(c), A!InRange(c)
  PROVE  LoopInv(A!Called(c))
<1> DEFINE d == A!Called(c)
           g == Append(c.given, c.at)
           n == Len(c.given)
<1>1. /\ Loop(c) /\ c.over = FALSE
      /\ IF c.step > 0 THEN c.at <= c.to ELSE c.at >= c.to
      /\ c.given # <<>> => c.at = A!Last(c.given) + c.step
      /\ c.given = <<>> => c.at = c.started[1]
  BY DEF LoopRest, A!InRange, Loop
<1>2. c.given \in Seq(Elem) /\ n \in Nat /\ c.at \in Elem /\ (c.given # <<>> => A!Last(c.given) = c.given[n] /\ n >= 1)
  BY <1>1 DEF Loop, A!Last
<1>3. /\ g \in Seq(Elem) /\ Len(g) = n + 1 /\ g[n + 1] = c.at /\ g # <<>> /\ A!Last(g) = c.at
      /\ \A k \in 1 .. n : g[k] = c.given[k]
  BY <1>2, AppendProperties DEF A!Last
<1>4. /\ DOMAIN d = DOMAIN c /\ d.op = c.op /\ d.started = c.started /\ d.given = g
      /\ d.at = c.at /\ d.to = c.to /\ d.step = c.step /\ d.over = c.over
  BY <1>1 DEF A!Called, Loop
<1>5. /\ \A k \in 1 .. n : IF c.step > 0 THEN c.given[k] <= c.to ELSE c.given[k] >= c.to
      /\ c.given # <<>> => c.given[1] = c.started[1]
      /\ \A k \in 2 .. n : c.given[k] = c.given[k - 1] + c.step
  BY <1>1, <1>2 DEF Loop, A!LoopGives
<1> HIDE DEF d, g
<1>6. A!LoopGives(d)
  <2>1. DOMAIN g = 1 .. n + 1
    BY <1>3
  <2>e. n = 0 <=> c.given = <<>>
    BY <1>2, EmptySeq
  <2> HIDE DEF n
  <2>2. ASSUME NEW k \in 1 .. n + 1 PROVE IF c.step > 0 THEN g[k] <= c.to ELSE g[k] >= c.to
    <3>1. CASE k = n + 1
      BY <1>1, <1>3, <3>1
    <3>2. CASE k \in 1 .. n
      BY <1>3, <1>5, <3>2
    <3> QED BY <1>2, <3>1, <3>2
  <2>3. g[1] = c.started[1]
    <3>1. CASE n = 0
      BY <1>1, <1>3, <2>e, <3>1
    <3>2. CASE n # 0
      BY <1>2, <1>3, <1>5, <2>e, <3>2
    <3> QED BY <3>1, <3>2
  <2>4. ASSUME NEW k \in 2 .. n + 1 PROVE g[k] = g[k - 1] + c.step
    <3>1. CASE k = n + 1
      <4>1. g[k] = c.at /\ c.given # <<>> /\ k - 1 = n /\ n \in 1 .. n
        BY <1>2, <1>3, <2>e, <3>1
      <4>2. g[k - 1] = A!Last(c.given)
        BY <1>2, <1>3, <4>1
      <4> QED BY <1>1, <4>1, <4>2
    <3>2. CASE k \in 2 .. n
      <4>1. g[k] = c.given[k] /\ g[k - 1] = c.given[k - 1]
        BY <1>2, <1>3, <3>2
      <4> QED BY <1>5, <3>2, <4>1
    <3> QED BY <1>2, <3>1, <3>2
  <2> QED BY <1>3, <1>4, <2>1, <2>2, <2>3, <2>4 DEF A!LoopGives
<1>7. Loop(d)
  BY <1>1, <1>3, <1>4, <1>6 DEF Loop
<1> QED BY <1>1, <1>3, <1>4, <1>7 DEF LoopInv, d

\* Its block has answered.
LEMMA LoopSteps ==
  ASSUME A!ArraysAssumption, NEW c, LoopInv(c)
  PROVE  LoopRest(A!Stepped(c))
<1>1. Loop(c) /\ c.over = FALSE /\ c.given # <<>> /\ A!Last(c.given) = c.at
  BY DEF LoopInv
<1> DEFINE d == A!Stepped(c)
<1>2. CASE c.at + c.step \in Elem
  <2>1. /\ DOMAIN d = DOMAIN c /\ d.op = c.op /\ d.started = c.started /\ d.given = c.given
        /\ d.at = c.at + c.step /\ d.to = c.to /\ d.step = c.step /\ d.over = c.over
    BY <1>1, <1>2 DEF A!Stepped, Loop
  <2> HIDE DEF d
  <2>2. A!LoopGives(d)
    BY <1>1, <2>1 DEF Loop, A!LoopGives
  <2>3. Loop(d)
    BY <1>1, <1>2, <2>1, <2>2 DEF Loop
  <2> QED BY <1>1, <2>1, <2>3 DEF LoopRest, d
<1>3. CASE c.at + c.step \notin Elem
  <2>1. /\ DOMAIN d = DOMAIN c /\ d.op = c.op /\ d.started = c.started /\ d.given = c.given
        /\ d.at = c.at /\ d.to = c.to /\ d.step = c.step /\ d.over = TRUE
    BY <1>1, <1>3 DEF A!Stepped, Loop
  <2> HIDE DEF d
  <2>2. A!LoopGives(d)
    BY <1>1, <2>1 DEF Loop, A!LoopGives
  <2>3. Loop(d)
    BY <1>1, <2>1, <2>2 DEF Loop
  <2> QED BY <1>1, <1>3, <2>1, <2>3 DEF LoopRest, d
<1> QED BY <1>2, <1>3

\* What it has done when it ends.
LEMMA LoopEnds ==
  ASSUME A!ArraysAssumption, NEW c, LoopRest(c), ~A!InRange(c)
  PROVE  c.op = "loop" /\ A!LoopGives(c) /\ A!LoopedThrough(c)
<1>1. Loop(c) /\ c.at \in Int /\ c.to \in Int /\ c.step \in Int
  BY DEF LoopRest, Loop, A!ArraysAssumption
<1>2. CASE c.given = <<>>
  BY <1>1, <1>2 DEF A!LoopedThrough, LoopRest, Loop, A!InRange
<1>3. CASE c.given # <<>> /\ c.over
  BY <1>1, <1>3 DEF A!LoopedThrough, LoopRest, Loop
<1>4. CASE c.given # <<>> /\ ~c.over
  BY <1>1, <1>4 DEF A!LoopedThrough, LoopRest, Loop, A!InRange
<1> QED BY <1>2, <1>3, <1>4

-----------------------------------------------------------------------------
(* What these answer                                                       *)

\* What one that ended had done.
Answers(c, now) ==
  /\ c.op \in A!Walks =>
       /\ Len(c.given) = Len(c.answers)
       /\ Len(c.given) = Len(c.started) \/ Len(now) <= Len(c.given)
       /\ A!AnswerOf(c)
  /\ c.op = "sorted" => A!Permuted(c) /\ (c.honest => A!Stably(c))
  /\ c.op = "loop" => A!LoopGives(c) /\ A!LoopedThrough(c)

\* What waits for its block, or is a sort.
Runs(c) == c = A!Idle \/ WalkInv(c) \/ LoopInv(c) \/ SortInv(c)

ArraysInv == items \in Seq(Elem) /\ Runs(running) /\ Answers(ended.call, ended.items)

LEMMA NoneAnswers == Answers(A!NoneEnded.call, A!NoneEnded.items)
BY DEF Answers, A!NoneEnded, A!Idle, A!Walks

LEMMA RunsStay ==
  ASSUME ArraysInv, NEW c, Runs(c), A!Stays(c)
  PROVE  ArraysInv'
BY NoneAnswers DEF ArraysInv, A!Stays

LEMMA RunsGo ==
  ASSUME A!ArraysAssumption, ArraysInv, NEW c, WalkRest(c) \/ LoopRest(c), A!Goes(c)
  PROVE  ArraysInv'
<1>1. items \in Seq(Elem)
  BY DEF ArraysInv
<1>2. CASE A!Calling(c)
  <2>1. A!Stays(A!Called(c))
    BY <1>2 DEF A!Goes
  <2>2. CASE WalkRest(c)
    <3>1. c.op # "loop" /\ A!Called(c) = A!Given(c) /\ A!Going(c)
      BY <1>2, <2>2 DEF WalkRest, Walked, A!Walks, A!Called, A!Calling
    <3>2. WalkInv(A!Given(c))
      BY <1>1, <2>2, <3>1, WalkGives
    <3> QED BY <2>1, <3>1, <3>2, RunsStay DEF Runs
  <2>3. CASE LoopRest(c)
    <3>1. A!InRange(c)
      BY <1>2, <2>3 DEF LoopRest, Loop, A!Calling
    <3>2. LoopInv(A!Called(c))
      BY <2>3, <3>1, LoopOffers
    <3> QED BY <2>1, <3>2, RunsStay DEF Runs
  <2> QED BY <2>2, <2>3
<1>3. CASE ~A!Calling(c)
  <2>1. running' = A!Idle /\ ended' = [call |-> c, items |-> items] /\ items' = items
    BY <1>3 DEF A!Goes, A!Ends
  <2>2. Answers(c, items)
    <3>1. CASE WalkRest(c)
      <4>1. c.op \in A!Walks /\ ~A!Going(c)
        BY <1>3, <3>1 DEF WalkRest, Walked, A!Walks, A!Calling
      <4> QED BY <1>1, <3>1, <4>1, WalkAnswers DEF Answers, A!Walks
    <3>2. CASE LoopRest(c)
      <4>1. ~A!InRange(c)
        BY <1>3, <3>2 DEF LoopRest, Loop, A!Calling
      <4> QED BY <3>2, <4>1, LoopEnds DEF Answers, A!Walks
    <3> QED BY <3>1, <3>2
  <2>3. ended'.call = c /\ ended'.items = items
    BY <2>1
  <2> QED BY <1>1, <2>1, <2>2, <2>3 DEF ArraysInv, Runs
<1> QED BY <1>2, <1>3

\* What is in progress is what its op says.
LEMMA RunsAs ==
  ASSUME NEW c, Runs(c)
  PROVE  /\ c.op \in A!Walks => WalkInv(c)
         /\ c.op = "loop" => LoopInv(c)
         /\ c.op = "sorted" => SortInv(c)
BY DEF Runs, A!Idle, WalkInv, Walked, LoopInv, Loop, SortInv, A!Walks

LEMMA ArraysStart ==
  ASSUME A!ArraysAssumption, A!Init
  PROVE  ArraysInv
<1>1. items \in Seq(Elem)
  BY DEF A!Init, A!ArraysAssumption
<1> QED BY <1>1, NoneAnswers DEF A!Init, ArraysInv, Runs

LEMMA Changes ==
  ASSUME ArraysInv, NEW now \in Seq(Elem), A!Change(now)
  PROVE  ArraysInv'
BY NoneAnswers DEF ArraysInv, A!Change

LEMMA ArraysStep ==
  ASSUME A!ArraysAssumption, ArraysInv, A!Next
  PROVE  ArraysInv'
<1> USE DEF ArraysInv
<1>0. items \in Seq(Elem) /\ Runs(running)
  OBVIOUS
<1> USE DEF A!Innermost
<1>1. ASSUME NEW op \in A!Walks, A!StartWalk(op) PROVE ArraysInv'
  BY <1>0, <1>1, WalkBegins, RunsGo DEF A!StartWalk
<1>2. ASSUME NEW honest \in BOOLEAN, A!StartSort(honest) PROVE ArraysInv'
  BY <1>0, <1>2, SortBegins, RunsStay DEF A!StartSort, Runs
<1>3. CASE A!StartLoop
  BY <1>0, <1>3, LoopBegins, RunsGo DEF A!StartLoop
<1>4. ASSUME NEW ops \in SUBSET A!Walks, NEW v, A!WalkOn(ops, v) PROVE ArraysInv'
  <2>1. WalkInv(running)
    BY <1>0, <1>4, RunsAs DEF A!WalkOn
  <2>2. WalkRest(A!Answered(running, v))
    BY <2>1, WalkAnswered
  <2> QED BY <1>4, <2>2, RunsGo DEF A!WalkOn
<1>5. ASSUME NEW before \in BOOLEAN, A!SortOn(before) PROVE ArraysInv'
  <2>1. /\ SortInv(running) /\ running.calls # <<>> /\ A!Last(running.calls).next = "merge"
        /\ A!Last(running.calls).i < A!Last(running.calls).mid /\ A!Last(running.calls).j < A!Last(running.calls).hi
        /\ running.honest => before = A!Before(running)
    BY <1>0, <1>5, RunsAs DEF A!SortOn, A!Asks
  <2>2. A!Before(running) \in BOOLEAN
    BY DEF A!Before
  <2>3. SortInv(A!Taken(running, before))
    BY <2>1, <2>2, SortTakes
  <2> QED BY <1>5, <2>3, RunsStay DEF A!SortOn, Runs
<1>6. CASE A!SortShort
  <2>1. /\ SortInv(running) /\ running.calls # <<>> /\ A!Last(running.calls).next = "left"
        /\ A!Last(running.calls).hi - A!Last(running.calls).lo < 2
    BY <1>0, <1>6, RunsAs DEF A!SortShort, A!Short
  <2>2. SortInv(A!Returned(running))
    BY <2>1, SortReturns
  <2> QED BY <1>6, <2>2, RunsStay DEF A!SortShort, Runs
<1>7. CASE A!SortLeft
  <2> DEFINE h == A!Halved(running, "right", A!Last(running.calls).lo, A!Last(running.calls).mid)
  <2>1. SortInv(running) /\ running.calls # <<>> /\ A!Last(running.calls).next = "left" /\ A!Stays(h)
    BY <1>0, <1>7, RunsAs DEF A!SortLeft
  <2>2. SortInv(h)
    BY <2>1, SortHalves
  <2> HIDE DEF h
  <2> QED BY <2>1, <2>2, RunsStay DEF Runs
<1>8. CASE A!SortRight
  <2> DEFINE h == A!Halved(running, "merge", A!Last(running.calls).mid, A!Last(running.calls).hi)
  <2>1. SortInv(running) /\ running.calls # <<>> /\ A!Last(running.calls).next = "right" /\ A!Stays(h)
    BY <1>0, <1>8, RunsAs DEF A!SortRight
  <2>2. SortInv(h)
    BY <2>1, SortHalves
  <2> HIDE DEF h
  <2> QED BY <2>1, <2>2, RunsStay DEF Runs
<1>9. CASE A!MergeRest
  <2> DEFINE right == A!Last(running.calls).j < A!Last(running.calls).hi
  <2>1. /\ SortInv(running) /\ running.calls # <<>> /\ A!Last(running.calls).next = "merge"
        /\ (A!Last(running.calls).i < A!Last(running.calls).mid) # right
        /\ A!Stays(A!Taken(running, right))
    BY <1>0, <1>9, RunsAs DEF A!MergeRest
  <2>0. ~right => A!Last(running.calls).i < A!Last(running.calls).mid
    BY <2>1
  <2>2. CASE right
    <3>1. SortInv(A!Taken(running, TRUE))
      BY <2>1, <2>2, SortTakes
    <3>2. A!Taken(running, right) = A!Taken(running, TRUE)
      BY <2>2 DEF A!Taken
    <3> QED BY <2>1, <3>1, <3>2, RunsStay DEF Runs
  <2>3. CASE ~right
    <3>1. SortInv(A!Taken(running, FALSE))
      BY <2>0, <2>1, <2>3, SortTakes
    <3>2. A!Taken(running, right) = A!Taken(running, FALSE)
      BY <2>3 DEF A!Taken
    <3> QED BY <2>1, <3>1, <3>2, RunsStay DEF Runs
  <2> QED BY <2>2, <2>3
<1>10. CASE A!MergeEnds
  <2>1. /\ SortInv(running) /\ running.calls # <<>> /\ A!Last(running.calls).next = "merge"
        /\ ~(A!Last(running.calls).i < A!Last(running.calls).mid) /\ ~(A!Last(running.calls).j < A!Last(running.calls).hi)
        /\ A!Stays(A!Merged(running))
    BY <1>0, <1>10, RunsAs DEF A!MergeEnds
  <2>2. SortInv(A!Merged(running))
    BY <2>1, SortMerges
  <2> QED BY <2>1, <2>2, RunsStay DEF Runs
<1>11. CASE A!SortEnds
  <2>1. SortInv(running) /\ running.calls = <<>> /\ running.op = "sorted"
    BY <1>0, <1>11, RunsAs DEF A!SortEnds
  <2>2. Answers(running, items)
    BY <2>1, SortAnswers DEF Answers, A!Walks
  <2>3. running' = A!Idle /\ ended' = [call |-> running, items |-> items] /\ items' = items
    BY <1>11 DEF A!SortEnds, A!Ends
  <2>4. ended'.call = running /\ ended'.items = items
    BY <2>3
  <2> QED BY <1>0, <2>2, <2>3, <2>4 DEF Runs
<1>12. CASE A!LoopOn
  <2>1. LoopInv(running) /\ A!Goes(A!Stepped(running))
    BY <1>0, <1>12, RunsAs DEF A!LoopOn
  <2> QED BY <2>1, LoopSteps, RunsGo
<1>13. CASE A!Fail
  BY <1>13, NoneAnswers DEF A!Fail, Runs
<1>14. ASSUME NEW e \in Elem, A!Add(e) PROVE ArraysInv'
  <2>1. Append(items, e) \in Seq(Elem)
    BY <1>0
  <2> QED BY <1>14, <2>1, Changes DEF A!Add
<1>15. CASE A!RemoveLast
  <2>1. A!Front(items) \in Seq(Elem)
    BY <1>0, <1>15 DEF A!RemoveLast, A!Front
  <2> QED BY <1>15, <2>1, Changes DEF A!RemoveLast
<1>16. ASSUME NEW i \in DOMAIN items, NEW e \in Elem, A!AtPut(i, e) PROVE ArraysInv'
  <2>1. [items EXCEPT ![i] = e] \in Seq(Elem)
    BY <1>0, ExceptSeq
  <2> QED BY <1>16, <2>1, Changes DEF A!AtPut
<1>17. {"do"} \in SUBSET A!Walks /\ {"collect", "inject"} \in SUBSET A!Walks /\ {"select"} \in SUBSET A!Walks
  BY DEF A!Walks
<1> QED
  BY <1>1, <1>2, <1>3, <1>4, <1>5, <1>6, <1>7, <1>8, <1>9, <1>10, <1>11, <1>12, <1>13, <1>14, <1>15,
     <1>16, <1>17 DEF A!Next

\* Whatever their blocks do to the array, and for any elements, ranks and arrays:
\* what walks, sorts and loops answer is of what they were given.
THEOREM AnswersAreKept == A!Spec => []AnswersHold
<1>0. A!ArraysAssumption
  BY ArraysAssumption
<1>1. A!Init => ArraysInv
  BY <1>0, ArraysStart
<1>2. ArraysInv /\ [A!Next]_(A!vars) => ArraysInv'
  <2>1. ASSUME ArraysInv, UNCHANGED A!vars PROVE ArraysInv'
    BY <2>1 DEF ArraysInv, A!vars
  <2> QED BY <1>0, <2>1, ArraysStep
<1>3. ArraysInv => AnswersHold
  <2> SUFFICES ASSUME ArraysInv PROVE AnswersHold
    OBVIOUS
  <2>1. Runs(running) /\ Answers(ended.call, ended.items)
    BY DEF ArraysInv
  <2>2. A!WalksKeepInside
    <3>1. running.op \in A!Walks =>
            Stale \notin A!Range(running.given) /\ Len(running.given) = running.i + 1
            /\ Len(running.given) <= Len(running.started)
      BY <1>0, <2>1, RunsAs, WalkInside
    <3>2. running.op = "loop" => A!LoopGives(running)
      BY <2>1, RunsAs DEF LoopInv, Loop
    <3> QED BY <3>1, <3>2 DEF A!WalksKeepInside
  <2> QED BY <2>1, <2>2 DEF AnswersHold, A!AnswersHold, Answers
<1> QED BY <1>1, <1>2, <1>3, PTL DEF A!Spec

===============================================================================
