---------------------------- MODULE CollectorProof ----------------------------
(***************************************************************************)
(* Proofs about Collector for every set of addresses, every graph on them  *)
(* and every nesting of primitives: nothing in use is freed, a collection  *)
(* frees exactly what nothing reaches, and symbols stay unique.            *)
(***************************************************************************)
EXTENDS Collector, SequenceTheorems, FiniteSetTheorems, TLAPS

\* How the primitives in progress lie on the stack: each over its receiver,
\* all but the innermost with a result and a block running.  The innermost
\* waits for its result while that is being allocated.
Nested ==
  /\ \A i \in 1 .. Len(calls) : calls[i].base \in 1 .. Len(stack)
  /\ \A i, j \in 1 .. Len(calls) : i < j => calls[i].base < calls[j].base
  /\ \A i \in 1 .. Len(calls) - 1 : calls[i].result # None
  /\ calls # <<>> => (Current.result = None <=> request.to = "result")
  /\ request.to # "stack" => calls # <<>>
  /\ Len(temps) = Made
  /\ \A i \in 1 .. Made : temps[i] = calls[i].result

Shape == TypeOK /\ Nested

-----------------------------------------------------------------------------
(* Sequences                                                               *)

\* What a prefix of a sequence holds.
LEMMA Prefix ==
  ASSUME NEW S, NEW s \in Seq(S), NEW n \in 0 .. Len(s)
  PROVE  /\ SubSeq(s, 1, n) \in Seq(S)
         /\ Len(SubSeq(s, 1, n)) = n
         /\ \A i \in 1 .. n : SubSeq(s, 1, n)[i] = s[i]
<1>1. Len(s) \in Nat /\ \A i \in 1 .. n : s[i] \in S
  BY ElementOfSeq
<1>2. /\ SubSeq(s, 1, n) \in Seq(S)
      /\ Len(SubSeq(s, 1, n)) = IF 1 <= n THEN n - 1 + 1 ELSE 0
  BY <1>1, SubSeqProperties
<1>3. \A i \in 1 .. n : SubSeq(s, 1, n)[i] = s[i]
  BY <1>1
<1> DEFINE t == SubSeq(s, 1, n)
<1> HIDE DEF t
<1>4. (IF 1 <= n THEN n - 1 + 1 ELSE 0) = n
  BY <1>1
<1> QED BY <1>2, <1>3, <1>4 DEF t

\* All but the last element.
LEMMA FrontFacts ==
  ASSUME NEW S, NEW s \in Seq(S), s # <<>>
  PROVE  /\ Len(s) \in Nat /\ Len(s) >= 1 /\ s[Len(s)] \in S
         /\ Front(s) \in Seq(S)
         /\ Len(Front(s)) = Len(s) - 1
         /\ \A i \in 1 .. Len(s) - 1 : Front(s)[i] = s[i]
<1>1. Len(s) \in Nat /\ Len(s) >= 1
  BY EmptySeq
<1>2. s[Len(s)] \in S
  BY <1>1, ElementOfSeq
<1>3. Len(s) - 1 \in 0 .. Len(s)
  BY <1>1
<1>4. Front(s) = SubSeq(s, 1, Len(s) - 1)
  BY DEF Front
<1> QED BY <1>1, <1>2, <1>3, <1>4, Prefix

\* A sequence with one more element.
LEMMA AppendFacts ==
  ASSUME NEW S, NEW s \in Seq(S), NEW e \in S
  PROVE  /\ Append(s, e) \in Seq(S) /\ Append(s, e) # <<>>
         /\ Len(Append(s, e)) = Len(s) + 1
         /\ Append(s, e)[Len(s) + 1] = e
         /\ \A i \in 1 .. Len(s) : Append(s, e)[i] = s[i]
BY EmptySeq

\* The elements of a sequence.
LEMMA Elements ==
  ASSUME NEW S, NEW s \in Seq(S)
  PROVE  /\ Len(s) \in Nat
         /\ ToSet(s) = {s[i] : i \in 1 .. Len(s)}
         /\ ToSet(s) \subseteq S
         /\ s = <<>> <=> Len(s) = 0
<1>1. Len(s) \in Nat /\ DOMAIN s = 1 .. Len(s)
  BY LenProperties
<1>2. \A i \in 1 .. Len(s) : s[i] \in S
  BY ElementOfSeq
<1>3. s = <<>> <=> Len(s) = 0
  BY EmptySeq
<1> QED BY <1>1, <1>2, <1>3 DEF ToSet

\* A function on an initial segment of the numbers is a sequence.
LEMMA Tabulated ==
  ASSUME NEW S, NEW n \in Nat, NEW f \in [1 .. n -> S]
  PROVE  f \in Seq(S) /\ Len(f) = n
<1>1. f \in Seq(S)
  BY SeqDef
<1>2. DOMAIN f = 1 .. n
  OBVIOUS
<1>3. Len(f) \in Nat /\ DOMAIN f = 1 .. Len(f)
  BY <1>1, LenProperties
<1> QED BY <1>1, <1>2, <1>3

-----------------------------------------------------------------------------
(* Shape                                                                   *)

\* The facts about the variables that the steps below use most.
LEMMA Typed ==
  ASSUME TypeOK
  PROVE  /\ Len(stack) \in Nat /\ Len(temps) \in Nat /\ Len(calls) \in Nat
         /\ \A i \in 1 .. Len(stack) : stack[i] \in Cell
         /\ stack # <<>> => Top \in Cell
         /\ \A i \in 1 .. Len(calls) : calls[i] \in Call
         /\ calls # <<>> => Current \in Call /\ Len(calls) >= 1
         /\ stack # <<>> <=> Len(stack) >= 1
<1>1. Len(stack) \in Nat /\ Len(temps) \in Nat /\ Len(calls) \in Nat
  BY DEF TypeOK
<1>2. \A i \in 1 .. Len(stack) : stack[i] \in Cell
  BY ElementOfSeq DEF TypeOK
<1>3. \A i \in 1 .. Len(calls) : calls[i] \in Call
  BY ElementOfSeq DEF TypeOK
<1>4. stack # <<>> => Top \in Cell /\ Len(stack) >= 1
  BY FrontFacts DEF TypeOK, Top
<1>5. calls # <<>> => Current \in Call /\ Len(calls) >= 1
  BY FrontFacts DEF TypeOK, Current
<1>6. stack = <<>> => Len(stack) = 0
  OBVIOUS
<1> QED BY <1>1, <1>2, <1>3, <1>4, <1>5, <1>6

\* The primitive on top, over its receiver.
LEMMA BaseFacts ==
  ASSUME Shape, calls # <<>>
  PROVE  /\ Base = Current.base /\ Base \in 1 .. Len(stack)
         /\ \A i \in 1 .. Len(calls) - 1 : calls[i].base \in 1 .. Base - 1
         /\ Current.result = None => Made = Len(calls) - 1
         /\ Current.result # None => Made = Len(calls)
<1>1. Len(calls) \in Nat /\ Len(calls) >= 1 /\ Len(stack) \in Nat
      /\ \A i \in 1 .. Len(calls) : calls[i] \in Call
  BY Typed DEF Shape
<1>2. Base = calls[Len(calls)].base /\ Base \in 1 .. Len(stack)
  BY <1>1 DEF Base, Current, Shape, Nested
<1>3. \A i \in 1 .. Len(calls) - 1 : calls[i].base < calls[Len(calls)].base
  BY <1>1 DEF Shape, Nested
<1>4. \A i \in 1 .. Len(calls) - 1 : calls[i].base \in Nat /\ calls[i].base >= 1
  BY <1>1 DEF Shape, Nested, Call
<1> QED BY <1>1, <1>2, <1>3, <1>4 DEF Made, Current

\* Releasing the resources of some cells.
LEMMA ReleasedType ==
  ASSUME TypeOK, NEW cells \in SUBSET Cell, Released(cells)
  PROVE  /\ releases' \in Seq(Nat) /\ Len(releases') = Len(releases)
         /\ handle' \in [Cell -> 0 .. Len(releases')]
<1> DEFINE n(h) == Cardinality({c \in cells : handle[c] = h})
<1>1. ASSUME NEW h PROVE n(h) \in Nat
  <2>1. IsFiniteSet({c \in cells : handle[c] = h})
    BY FS_Subset, CollectorAssumption
  <2> QED BY <2>1, FS_CardinalityType
<1>2. Len(releases) \in Nat /\ DOMAIN releases = 1 .. Len(releases)
      /\ \A h \in 1 .. Len(releases) : releases[h] \in Nat
  BY LenProperties, ElementOfSeq DEF TypeOK
<1>3. releases' = [h \in 1 .. Len(releases) |-> releases[h] + n(h)]
  BY <1>2 DEF Released
<1> HIDE DEF n
<1>4. releases' \in [1 .. Len(releases) -> Nat]
  BY <1>1, <1>2, <1>3
<1>5. releases' \in Seq(Nat) /\ Len(releases') = Len(releases)
  BY <1>2, <1>4, Tabulated
<1>6. handle' \in [Cell -> 0 .. Len(releases)]
  BY <1>2 DEF Released, TypeOK
<1> QED BY <1>5, <1>6

\* A cell is asked for where the roots are cells.
LEMMA AskType ==
  ASSUME TypeOK, NEW make \in Kind, NEW to \in {"stack", "result", "piece"}, Ask(make, to)
  PROVE  /\ request' \in Request /\ request'.to = to /\ request'.make = make
         /\ phase' \in {"run", "mark", "sweep", "ended"}
         /\ marked' \subseteq Cell /\ gray' \subseteq Cell
<1>1. Roots \subseteq Cell
  BY Elements, CollectorAssumption DEF Roots, TypeOK
<1> QED BY <1>1 DEF Ask, TypeOK, Request, collection

LEMMA ShapeInit == Init => Shape
<1> SUFFICES ASSUME Init PROVE Shape
  OBVIOUS
<1>1. /\ releases \in Seq(Nat) /\ stack \in Seq(Cell) /\ temps \in Seq(Cell)
      /\ calls \in Seq(Call) /\ Len(releases) = 0 /\ Len(calls) = 0 /\ Len(temps) = 0
  BY EmptySeq DEF Init
<1>2. TypeOK
  BY <1>1 DEF Init, TypeOK, Kind
<1>3. Nested
  BY <1>1 DEF Init, Nested, NoRequest, Made
<1> QED BY <1>2, <1>3 DEF Shape

\* The types and the nesting survive a step in which the primitives, the
\* temporary roots and what is being allocated for stay as they are, and the
\* stack keeps every receiver.
LEMMA ShapeStays ==
  ASSUME Shape, TypeOK', UNCHANGED <<temps, calls>>, request'.to = request.to,
         \A i \in 1 .. Len(calls) : calls[i].base <= Len(stack')
  PROVE  Shape'
<1>1. Len(stack') \in Nat /\ Len(calls) \in Nat /\ \A i \in 1 .. Len(calls) : calls[i] \in Call
  BY Typed DEF Shape, TypeOK
<1>2. \A i \in 1 .. Len(calls) : calls[i].base \in 1 .. Len(stack')
  BY <1>1 DEF Shape, Nested
<1>3. Current' = Current /\ Made' = Made
  BY DEF Current, Made
<1> QED BY <1>2, <1>3 DEF Shape, Nested

\* Every receiver is below what the running code may pop.
LEMMA BasesBelow ==
  ASSUME Shape
  PROVE  /\ Base \in 0 .. Len(stack)
         /\ \A i \in 1 .. Len(calls) : calls[i].base \in Nat /\ calls[i].base <= Base
<1>1. Len(calls) \in Nat /\ Len(stack) \in Nat /\ \A i \in 1 .. Len(calls) : calls[i] \in Call
  BY Typed DEF Shape
<1>2. CASE calls = <<>>
  BY <1>1, <1>2 DEF Base
<1>3. CASE calls # <<>>
  <2>1. \A i \in 1 .. Len(calls) - 1 : calls[i].base \in 1 .. Base - 1
    BY <1>3, BaseFacts
  <2>2. Base = calls[Len(calls)].base /\ Base \in 1 .. Len(stack)
    BY <1>3, BaseFacts DEF Current
  <2> QED BY <1>1, <2>1, <2>2 DEF Call
<1> QED BY <1>2, <1>3

\* One instruction of the program.
LEMMA ShapeInstruction == Shape /\ Instruction => Shape'
<1> SUFFICES ASSUME Shape, Instruction PROVE Shape'
  OBVIOUS
<1>1. /\ TypeOK /\ Len(stack) \in Nat /\ Base \in 0 .. Len(stack)
      /\ \A i \in 1 .. Len(calls) : calls[i].base \in Nat /\ calls[i].base <= Base
      /\ stack \in Seq(Cell) /\ refs \in [Cell -> SUBSET Cell]
  BY Typed, BasesBelow DEF Shape, TypeOK
<1>2. ASSUME NEW c \in Cell, Push(c) PROVE Shape'
  <2>1. stack' \in Seq(Cell) /\ Len(stack') = Len(stack) + 1
    BY <1>1, <1>2, AppendFacts DEF Push
  <2>2. TypeOK'
    BY <1>1, <1>2, <2>1 DEF Push, TypeOK, graph, collection
  <2>3. \A i \in 1 .. Len(calls) : calls[i].base <= Len(stack')
    BY <1>1, <2>1
  <2>4. UNCHANGED <<temps, calls>> /\ request' = request
    BY <1>2 DEF Push
  <2> QED BY <2>2, <2>3, <2>4, ShapeStays
<1>3. ASSUME UNCHANGED <<what, handle, releases, table, temps, kept, calls, phase, marked, gray, request>>,
             refs' \in [Cell -> SUBSET Cell], stack # <<>>, stack' = Front(stack), Len(stack) > Base
      PROVE  Shape'
  <2>1. stack' \in Seq(Cell) /\ Len(stack') = Len(stack) - 1
    BY <1>1, <1>3, FrontFacts
  <2>2. TypeOK'
    BY <1>1, <1>3, <2>1 DEF TypeOK
  <2>3. \A i \in 1 .. Len(calls) : calls[i].base <= Len(stack')
    BY <1>1, <1>3, <2>1
  <2> QED BY <1>3, <2>2, <2>3, ShapeStays
<1>4. ASSUME UNCHANGED <<stack, temps, calls>>, TypeOK', request'.to = request.to PROVE Shape'
  <2>1. \A i \in 1 .. Len(calls) : calls[i].base <= Len(stack')
    BY <1>1, <1>4
  <2> QED BY <1>4, <2>1, ShapeStays
<1>5. CASE PushGlobal
  BY <1>2, <1>5, CollectorAssumption DEF PushGlobal
<1>6. CASE Load
  <2>1. \A c \in refs[Top] : c \in Cell
    BY <1>1, <1>6, Typed DEF Load
  <2> QED BY <1>2, <1>6, <2>1 DEF Load
<1>7. CASE Pop
  <2>1. stack # <<>>
    BY <1>1, <1>7, Typed DEF Pop
  <2> QED BY <1>1, <1>3, <1>7, <2>1 DEF Pop, graph, collection
<1>8. CASE Store
  <2>1. stack # <<>> /\ Len(stack) > Base
    BY <1>1, <1>8, Typed DEF Store
  <2>2. Top \in Cell
    BY <1>1, <2>1, Typed
  <2>3. refs' \in [Cell -> SUBSET Cell]
    BY <1>1, <1>8, <2>2 DEF Store
  <2> QED BY <1>3, <1>8, <2>1, <2>3 DEF Store, collection
<1>9. CASE Forget
  <2>1. refs' \in [Cell -> SUBSET Cell]
    BY <1>1, <1>9 DEF Forget
  <2>2. TypeOK'
    BY <1>1, <1>9, <2>1 DEF Forget, TypeOK, program, collection
  <2> QED BY <1>4, <1>9, <2>2 DEF Forget, program
<1>10. CASE Retain \/ Unretain
  <2>1. kept' \subseteq Cell
    BY <1>1, <1>10, Typed DEF Retain, Unretain, TypeOK
  <2>2. TypeOK'
    BY <1>1, <1>10, <2>1 DEF Retain, Unretain, TypeOK, graph, collection
  <2> QED BY <1>4, <1>10, <2>2 DEF Retain, Unretain
<1>11. CASE GiveBack
  <2>1. {Top} \in SUBSET Cell
    BY <1>1, <1>11, Typed DEF GiveBack
  <2>2. releases' \in Seq(Nat) /\ handle' \in [Cell -> 0 .. Len(releases')]
    BY <1>1, <1>11, <2>1, ReleasedType DEF GiveBack
  <2>3. TypeOK'
    BY <1>1, <1>11, <2>2 DEF GiveBack, TypeOK, program, collection
  <2> QED BY <1>4, <1>11, <2>3 DEF GiveBack, program
<1>12. ASSUME NEW make \in Kind, Ask(make, "stack"), Running, UNCHANGED <<graph, program>>
       PROVE  Shape'
  <2>1. /\ request' \in Request /\ request'.to = "stack"
        /\ phase' \in {"run", "mark", "sweep", "ended"}
        /\ marked' \subseteq Cell /\ gray' \subseteq Cell
    BY <1>1, <1>12, AskType
  <2>2. TypeOK'
    BY <1>1, <1>12, <2>1 DEF TypeOK, graph, program
  <2>3. request.to = "stack"
    BY <1>12 DEF Running, NoRequest
  <2> QED BY <1>4, <1>12, <2>1, <2>2, <2>3 DEF program
<1>13. CASE New
  BY <1>12, <1>13 DEF New, Kind
<1>14. ASSUME NEW n \in Name, Intern(n) PROVE Shape'
  <2> DEFINE found == {c \in table : what[c] = n}
  <2>1. CASE found = {}
    <3>1. Ask(n, "stack") /\ Running /\ UNCHANGED <<graph, program>>
      BY <1>14, <2>1 DEF Intern, program
    <3> QED BY <1>12, <3>1 DEF Kind
  <2>2. CASE found # {}
    <3>1. PICK c \in table : Push(c)
      BY <1>14, <2>2 DEF Intern, Push
    <3> QED BY <1>1, <1>2, <3>1 DEF TypeOK
  <2> QED BY <2>1, <2>2
<1> QED BY <1>5, <1>6, <1>7, <1>8, <1>9, <1>10, <1>11, <1>13, <1>14 DEF Instruction

\* A step of the collector.
LEMMA ShapeCollection == Shape /\ Collection => Shape'
<1> SUFFICES ASSUME Shape, Collection PROVE Shape'
  OBVIOUS
<1>1. /\ TypeOK /\ Len(stack) \in Nat
      /\ \A i \in 1 .. Len(calls) : calls[i].base <= Len(stack)
      /\ refs \in [Cell -> SUBSET Cell] /\ what \in [Cell -> {"free"} \cup Kind]
  BY Typed, BasesBelow DEF Shape, TypeOK
<1>2. UNCHANGED <<stack, temps, calls, kept, request>>
  BY DEF Collection, Blacken, Marked, Sweep, program
<1>3. CASE Blacken
  <2>1. TypeOK'
    BY <1>1, <1>3 DEF Blacken, TypeOK, graph, program, Edges
  <2> QED BY <1>1, <1>2, <2>1, ShapeStays
<1>4. CASE Marked
  <2>1. TypeOK'
    BY <1>1, <1>4 DEF Marked, TypeOK, graph, program, collection
  <2> QED BY <1>1, <1>2, <2>1, ShapeStays
<1>5. CASE Sweep
  <2> DEFINE dead == heap \ marked
  <2>1. dead \in SUBSET Cell
    BY DEF heap
  <2>2. releases' \in Seq(Nat) /\ handle' \in [Cell -> 0 .. Len(releases')]
    BY <1>1, <1>5, <2>1, ReleasedType DEF Sweep
  <2>3. /\ what' = [c \in Cell |-> IF c \in dead THEN "free" ELSE what[c]]
        /\ refs' = [c \in Cell |-> IF c \in dead THEN {} ELSE refs[c]]
        /\ table' = Pruned /\ marked' = {} /\ phase' = "run" /\ gray' = gray
    BY <1>5 DEF Sweep
  <2> HIDE DEF dead
  <2>4. what' \in [Cell -> {"free"} \cup Kind] /\ refs' \in [Cell -> SUBSET Cell]
    BY <1>1, <2>3
  <2>5. TypeOK'
    BY <1>1, <1>2, <2>2, <2>3, <2>4 DEF TypeOK, Pruned
  <2> QED BY <1>1, <1>2, <2>5, ShapeStays
<1> QED BY <1>3, <1>4, <1>5 DEF Collection

\* A step of a primitive.
LEMMA ShapePrimitive == Shape /\ Primitive => Shape'
<1> SUFFICES ASSUME Shape, Primitive PROVE Shape'
  OBVIOUS
<1> DEFINE n == Len(calls)
<1>1. /\ TypeOK /\ Len(stack) \in Nat /\ n \in Nat /\ Base \in 0 .. Len(stack)
      /\ \A i \in 1 .. n : calls[i] \in Call /\ calls[i].base \in Nat /\ calls[i].base <= Base
      /\ stack \in Seq(Cell) /\ temps \in Seq(Cell) /\ calls \in Seq(Call)
      /\ refs \in [Cell -> SUBSET Cell]
  BY Typed, BasesBelow DEF Shape, TypeOK
<1>2. request = NoRequest => (calls # <<>> => Current.result # None) /\ Made = n
  BY DEF Shape, Nested, NoRequest, Made
<1>3. CASE StartPrimitive
  <2> DEFINE e == [base |-> Len(stack), result |-> None, inBlock |-> FALSE]
  <2>1. /\ request = NoRequest /\ calls' = Append(calls, e) /\ Len(stack) > Base
        /\ UNCHANGED <<what, refs, handle, releases, table, stack, temps, kept>>
        /\ Ask("plain", "result")
    BY <1>3 DEF StartPrimitive, Running, graph
  <2>2. e \in Call
    BY <1>1 DEF Call
  <2> HIDE DEF e
  <2>3. /\ calls' \in Seq(Call) /\ Len(calls') = n + 1 /\ calls'[n + 1] = e
        /\ \A i \in 1 .. n : calls'[i] = calls[i]
        /\ calls' # <<>>
    BY <1>1, <2>1, <2>2, AppendFacts
  <2>4. /\ request' \in Request /\ request'.to = "result"
        /\ phase' \in {"run", "mark", "sweep", "ended"}
        /\ marked' \subseteq Cell /\ gray' \subseteq Cell
    BY <1>1, <2>1, AskType DEF Kind
  <2>5. TypeOK'
    BY <1>1, <2>1, <2>3, <2>4 DEF TypeOK
  <2>6. Current' = e /\ e.result = None /\ e.base = Len(stack)
    BY <1>1, <2>3 DEF Current, e
  <2>7. Made' = n /\ Made = n
    BY <1>1, <1>2, <2>1, <2>3, <2>6 DEF Made
  <2>8. \A i \in 1 .. n : calls[i].result # None
    BY <1>1, <1>2, <2>1 DEF Shape, Nested, Current
  <2>9. \A i \in 1 .. Len(calls') : calls'[i].base \in 1 .. Len(stack')
    BY <1>1, <2>1, <2>3, <2>6 DEF Shape, Nested
  <2>10. ASSUME NEW i \in 1 .. Len(calls'), NEW j \in 1 .. Len(calls'), i < j
         PROVE  calls'[i].base < calls'[j].base
    <3>1. i \in 1 .. n
      BY <1>1, <2>3, <2>10
    <3>2. CASE j = n + 1
      <4>1. calls'[i] = calls[i] /\ calls'[j] = e
        BY <2>3, <3>1, <3>2
      <4>2. calls[i].base \in Nat /\ calls[i].base <= Base /\ Base \in Nat /\ Base < Len(stack)
        BY <1>1, <2>1, <3>1
      <4> QED BY <1>1, <2>6, <4>1, <4>2
    <3>3. CASE j # n + 1
      <4>1. j \in 1 .. n /\ calls'[i] = calls[i] /\ calls'[j] = calls[j]
        BY <1>1, <2>3, <3>1, <3>3
      <4> QED BY <2>10, <3>1, <4>1 DEF Shape, Nested
    <3> QED BY <3>2, <3>3
  <2>11. Len(temps') = Made' /\ \A i \in 1 .. Made' : temps'[i] = calls'[i].result
    BY <2>1, <2>3, <2>7 DEF Shape, Nested
  <2>12. \A i \in 1 .. Len(calls') - 1 : calls'[i].result # None
    BY <1>1, <2>3, <2>8
  <2>13. Nested'
    BY <2>3, <2>4, <2>6, <2>9, <2>10, <2>11, <2>12 DEF Nested
  <2> QED BY <2>5, <2>13 DEF Shape
<1>4. ASSUME NEW b \in BOOLEAN, calls # <<>>, calls' = [calls EXCEPT ![n].inBlock = b],
             UNCHANGED <<what, handle, releases, table, temps, kept, phase, marked, gray, request>>,
             refs' \in [Cell -> SUBSET Cell],
             stack' \in Seq(Cell), Len(stack') >= Base
      PROVE  Shape'
  <2>1. n \in 1 .. n /\ [calls[n] EXCEPT !.inBlock = b] \in Call
    <3>1. n \in 1 .. n
      BY <1>1, <1>4, EmptySeq
    <3>2. calls[n] \in Call
      BY <1>1, <3>1
    <3> QED BY <3>1, <3>2 DEF Call
  <2>2. /\ calls' \in Seq(Call) /\ Len(calls') = n
        /\ \A i \in 1 .. n : calls'[i] = IF i = n THEN [calls[n] EXCEPT !.inBlock = b] ELSE calls[i]
    BY <1>1, <1>4, <2>1, ExceptSeq
  <2>3. \A i \in 1 .. n : calls'[i].base = calls[i].base /\ calls'[i].result = calls[i].result
    BY <1>1, <2>1, <2>2 DEF Call
  <2>4. TypeOK'
    BY <1>1, <1>4, <2>2 DEF TypeOK
  <2>5. Current'.result = Current.result /\ calls' # <<>>
    BY <1>1, <2>1, <2>2, <2>3, EmptySeq DEF Current
  <2>6. Made' = Made /\ Made \in 0 .. n
    BY <1>1, <1>4, <2>1, <2>2, <2>5 DEF Made
  <2>7. \A i \in 1 .. n : calls[i].base \in 1 .. Len(stack')
    <3>1. Len(stack') \in Nat
      BY <1>4
    <3> QED BY <1>1, <1>4, <3>1 DEF Shape, Nested
  <2>8. Nested'
    BY <1>4, <2>1, <2>2, <2>3, <2>5, <2>6, <2>7 DEF Shape, Nested
  <2> QED BY <2>4, <2>8 DEF Shape
<1>5. CASE CallBlock
  <2>1. calls # <<>> /\ Base = Current.base /\ Base \in 1 .. Len(stack)
    BY <1>5, BaseFacts DEF CallBlock, InPrimitive
  <2>2. stack[Current.base] \in Cell
    BY <1>1, <2>1, Typed
  <2>3. PICK c \in Cell : stack' = Append(stack, c)
    BY <1>1, <1>5, <2>2 DEF CallBlock
  <2>4. stack' \in Seq(Cell) /\ Len(stack') = Len(stack) + 1
    BY <1>1, <2>3, AppendFacts
  <2>5. Len(stack') >= Base
    BY <1>1, <2>4
  <2> QED BY <1>1, <1>4, <1>5, <2>1, <2>4, <2>5 DEF CallBlock, graph, collection
<1>6. CASE BlockAnswers
  <2>1. calls # <<>> /\ request = NoRequest /\ stack # <<>>
    BY <1>1, <1>6, Typed DEF BlockAnswers, Running
  <2>2. Top \in Cell
    BY <1>1, <2>1, Typed
  <2>3. refs' \in [Cell -> SUBSET Cell]
    BY <1>1, <1>6, <2>2 DEF BlockAnswers
  <2>4. stack' \in Seq(Cell) /\ Len(stack') = Base
    BY <1>1, <1>6, Prefix DEF BlockAnswers
  <2>5. Len(stack') >= Base
    BY <1>1, <2>4
  <2> QED BY <1>4, <1>6, <2>1, <2>3, <2>4, <2>5 DEF BlockAnswers, collection
<1>7. ASSUME calls # <<>>, request = NoRequest, calls' = Front(calls), temps' = Front(temps),
             UNCHANGED <<what, refs, handle, releases, table, kept, phase, marked, gray, request>>,
             stack' \in Seq(Cell), Len(stack') >= Base - 1
      PROVE  Shape'
  <2>1. Len(temps) = n /\ \A i \in 1 .. n : temps[i] = calls[i].result
    BY <1>1, <1>2, <1>7 DEF Shape, Nested
  <2>2. /\ calls' \in Seq(Call) /\ Len(calls') = n - 1 /\ n >= 1
        /\ \A i \in 1 .. n - 1 : calls'[i] = calls[i]
    BY <1>1, <1>7, FrontFacts
  <2>3. temps # <<>>
    BY <2>1, <2>2, <1>1, EmptySeq
  <2>4. /\ temps' \in Seq(Cell) /\ Len(temps') = n - 1
        /\ \A i \in 1 .. n - 1 : temps'[i] = temps[i]
    BY <1>1, <1>7, <2>1, <2>3, FrontFacts
  <2>5. TypeOK'
    BY <1>1, <1>7, <2>2, <2>4 DEF TypeOK
  <2>6. \A i \in 1 .. n - 1 : calls[i].result # None /\ calls[i].base \in 1 .. Len(stack')
    <3>1. \A i \in 1 .. n - 1 : calls[i].base \in 1 .. Base - 1
      BY <1>7, BaseFacts
    <3>2. Len(stack') \in Nat /\ Base \in Nat
      BY <1>1, <1>7
    <3> QED BY <1>1, <1>7, <3>1, <3>2 DEF Shape, Nested
  <2>7. calls' # <<>> => Current' = calls[n - 1] /\ n - 1 >= 1
    BY <1>1, <2>2, EmptySeq DEF Current
  <2>8. Made' = n - 1
    BY <1>1, <2>2, <2>6, <2>7 DEF Made
  <2>9. request'.to = "stack"
    BY <1>7 DEF NoRequest
  <2>10. calls' # <<>> => Current'.result # None
    BY <1>1, <2>6, <2>7
  <2>11. ASSUME NEW i \in 1 .. n - 1
         PROVE  temps'[i] = calls'[i].result
    <3>1. i \in 1 .. n
      BY <1>1, <2>2
    <3> QED BY <2>1, <2>2, <2>4, <3>1
  <2>12. ASSUME NEW i \in 1 .. n - 1, NEW j \in 1 .. n - 1, i < j
         PROVE  calls'[i].base < calls'[j].base
    <3>1. i \in 1 .. n /\ j \in 1 .. n
      BY <1>1, <2>2
    <3>2. calls[i].base < calls[j].base
      BY <1>1, <2>12, <3>1 DEF Shape, Nested
    <3>3. calls'[i] = calls[i] /\ calls'[j] = calls[j]
      BY <2>2
    <3> QED BY <3>2, <3>3
  <2>13. \A i \in 1 .. Len(calls') - 1 : calls'[i].result # None
    BY <1>1, <2>2, <2>6
  <2>14. Nested'
    BY <2>2, <2>4, <2>6, <2>8, <2>9, <2>10, <2>11, <2>12, <2>13 DEF Nested
  <2> QED BY <2>5, <2>14 DEF Shape
<1>8. CASE BlockFails
  <2>1. calls # <<>> /\ Base \in 1 .. Len(stack)
    BY <1>8, BaseFacts DEF BlockFails
  <2>2. Base - 1 \in 0 .. Len(stack)
    BY <1>1, <2>1
  <2>3. stack' \in Seq(Cell) /\ Len(stack') = Base - 1
    BY <1>1, <1>8, <2>2, Prefix DEF BlockFails
  <2> QED BY <1>1, <1>7, <1>8, <2>1, <2>3 DEF BlockFails, Running, graph, collection
<1>9. CASE EndPrimitive
  <2>1. calls # <<>> /\ Base \in 1 .. Len(stack) /\ request = NoRequest
    BY <1>9, BaseFacts DEF EndPrimitive, InPrimitive
  <2>2. Base - 1 \in 0 .. Len(stack)
    BY <1>1, <2>1
  <2>3. Current.result \in Cell
    BY <1>1, <1>2, <2>1, Typed DEF Call
  <2>4. SubSeq(stack, 1, Base - 1) \in Seq(Cell) /\ Len(SubSeq(stack, 1, Base - 1)) = Base - 1
    BY <1>1, <2>2, Prefix
  <2>5. stack' \in Seq(Cell) /\ Len(stack') = Base - 1 + 1
    BY <1>9, <2>3, <2>4, AppendFacts DEF EndPrimitive
  <2>6. Len(stack') >= Base - 1
    BY <1>1, <2>5
  <2> QED BY <1>7, <1>9, <2>1, <2>5, <2>6 DEF EndPrimitive, graph, collection
<1>10. CASE AddPiece
  <2>1. calls # <<>> /\ request = NoRequest /\ Ask("plain", "piece") /\ UNCHANGED <<graph, program>>
    BY <1>10 DEF AddPiece, InPrimitive
  <2>2. /\ request' \in Request /\ request'.to = "piece"
        /\ phase' \in {"run", "mark", "sweep", "ended"}
        /\ marked' \subseteq Cell /\ gray' \subseteq Cell
    BY <1>1, <2>1, AskType DEF Kind
  <2>3. TypeOK'
    BY <1>1, <2>1, <2>2 DEF TypeOK, graph, program
  <2>4. Nested'
    BY <1>2, <2>1, <2>2 DEF Shape, Nested, program, Current, Made
  <2> QED BY <2>3, <2>4 DEF Shape
<1> QED BY <1>3, <1>5, <1>6, <1>8, <1>9, <1>10 DEF Primitive

\* The new cell is made, the process ends, or the machine is freed.
LEMMA ShapeMake == Shape /\ (Make \/ Exit \/ FreeAll) => Shape'
<1> SUFFICES ASSUME Shape, Make \/ Exit \/ FreeAll PROVE Shape'
  OBVIOUS
<1> DEFINE n == Len(calls)
<1>1. /\ TypeOK /\ Len(stack) \in Nat /\ n \in Nat
      /\ \A i \in 1 .. n : calls[i] \in Call /\ calls[i].base <= Len(stack)
      /\ stack \in Seq(Cell) /\ temps \in Seq(Cell) /\ calls \in Seq(Call)
      /\ refs \in [Cell -> SUBSET Cell] /\ what \in [Cell -> {"free"} \cup Kind]
      /\ releases \in Seq(Nat) /\ handle \in [Cell -> 0 .. Len(releases)]
      /\ Len(releases) \in Nat /\ table \subseteq Cell
    BY Typed, BasesBelow DEF Shape, TypeOK
<1>2. CASE Exit
  <2>1. TypeOK'
    BY <1>1, <1>2 DEF Exit, TypeOK, graph, program, collection
  <2> QED BY <1>1, <1>2, <2>1, ShapeStays DEF Exit, program
<1>3. CASE FreeAll
  <2>1. heap \in SUBSET Cell
    BY DEF heap
  <2>2. releases' \in Seq(Nat) /\ handle' \in [Cell -> 0 .. Len(releases')]
    BY <1>1, <1>3, <2>1, ReleasedType DEF FreeAll
  <2>3. stack' = <<>> /\ stack' \in Seq(Cell)
    BY <1>3, EmptySeq DEF FreeAll
  <2>4. TypeOK'
    BY <1>1, <1>3, <2>2, <2>3 DEF FreeAll, TypeOK, collection
  <2>5. calls = <<>> /\ n = 0
    BY <1>3 DEF FreeAll
  <2> QED BY <1>1, <1>3, <2>4, <2>5, ShapeStays DEF FreeAll
<1>4. CASE Make
  <2>1. PICK c \in Cell :
          /\ what[c] = "free"
          /\ what' = [what EXCEPT ![c] = request.make]
          /\ Place(c)
          /\ IF request.make = "foreign"
             THEN /\ handle' = [handle EXCEPT ![c] = Len(releases) + 1]
                  /\ releases' = Append(releases, 0)
             ELSE UNCHANGED <<handle, releases>>
          /\ table' = IF request.make \in Name THEN table \cup {c} ELSE table
    BY <1>4 DEF Make
  <2>2. request \in Request /\ request' = NoRequest /\ UNCHANGED <<kept, phase, marked, gray>>
    BY <1>1, <1>4 DEF Make, TypeOK, collection
  <2>3. what' \in [Cell -> {"free"} \cup Kind]
    BY <1>1, <2>1, <2>2 DEF Request
  <2>4. releases' \in Seq(Nat) /\ handle' \in [Cell -> 0 .. Len(releases')]
    <3>1. CASE request.make = "foreign"
      <4>1. releases' \in Seq(Nat) /\ Len(releases') = Len(releases) + 1
        <5>1. releases' = Append(releases, 0) /\ 0 \in Nat /\ releases \in Seq(Nat)
          BY <1>1, <2>1, <3>1
        <5>2. Append(releases, 0) \in Seq(Nat) /\ Len(Append(releases, 0)) = Len(releases) + 1
          BY <5>1, AppendFacts
        <5> QED BY <5>1, <5>2
      <4> QED BY <1>1, <2>1, <3>1, <4>1
    <3>2. CASE request.make # "foreign"
      BY <1>1, <2>1, <3>2
    <3> QED BY <3>1, <3>2
  <2>5. table' \subseteq Cell
    BY <1>1, <2>1
  <2>6. NoRequest.to = "stack"
    BY DEF NoRequest
  <2>7. CASE request.to = "stack"
    <3>1. /\ stack' = Append(stack, c) /\ refs' = [refs EXCEPT ![c] = {}]
          /\ UNCHANGED <<temps, calls>>
      BY <2>1, <2>7 DEF Place
    <3>2. stack' \in Seq(Cell) /\ Len(stack') = Len(stack) + 1
      BY <1>1, <2>1, <3>1, AppendFacts
    <3>3. refs' \in [Cell -> SUBSET Cell]
      BY <1>1, <3>1
    <3>4. TypeOK'
      BY <1>1, <2>2, <2>3, <2>4, <2>5, <3>1, <3>2, <3>3 DEF TypeOK
    <3>5. \A i \in 1 .. n : calls[i].base <= Len(stack')
      <4>1. \A i \in 1 .. n : calls[i].base \in Nat
        BY <1>1 DEF Call
      <4> QED BY <1>1, <3>2, <4>1
    <3> QED BY <2>2, <2>6, <2>7, <3>1, <3>4, <3>5, ShapeStays
  <2>8. CASE request.to = "piece"
    <3>1. /\ refs' = [refs EXCEPT ![c] = {}, ![Current.result] = @ \cup {c}]
          /\ UNCHANGED <<stack, temps, calls>>
      BY <2>1, <2>8 DEF Place
    <3>2. refs' \in [Cell -> SUBSET Cell]
      BY <1>1, <2>1, <3>1
    <3>3. TypeOK'
      BY <1>1, <2>2, <2>3, <2>4, <2>5, <3>1, <3>2 DEF TypeOK
    <3>4. Nested'
      BY <2>2, <2>6, <2>8, <3>1 DEF Shape, Nested, Current, Made
    <3> QED BY <3>3, <3>4 DEF Shape
  <2>9. CASE request.to = "result"
    <3>1. /\ calls' = [calls EXCEPT ![n].result = c]
          /\ temps' = Append(temps, c)
          /\ refs' = [refs EXCEPT ![c] = {}]
          /\ UNCHANGED stack
      BY <2>1, <2>9 DEF Place
    <3>2. calls # <<>> /\ Current.result = None /\ Made = n - 1 /\ n \in 1 .. n
      BY <1>1, <2>9, EmptySeq DEF Shape, Nested, Made
    <3>3. [calls[n] EXCEPT !.result = c] \in Call
      BY <1>1, <2>1, <3>2 DEF Call
    <3>4. /\ calls' \in Seq(Call) /\ Len(calls') = n
          /\ \A i \in 1 .. n : calls'[i] = IF i = n THEN [calls[n] EXCEPT !.result = c] ELSE calls[i]
      BY <1>1, <3>1, <3>2, <3>3, ExceptSeq
    <3>5. calls' # <<>> /\ calls'[n].result = c /\ Current' = calls'[n] /\ c # None
      BY <1>1, <2>1, <3>2, <3>3, <3>4, EmptySeq, CollectorAssumption DEF Current, Call
    <3>6. Made' = n
      BY <1>1, <3>4, <3>5 DEF Made
    <3>7. /\ temps' \in Seq(Cell) /\ Len(temps') = n
          /\ temps'[n] = c /\ \A i \in 1 .. n - 1 : temps'[i] = temps[i]
      <4>1. Len(temps) = n - 1
        BY <3>2 DEF Shape, Nested
      <4>2. /\ temps' \in Seq(Cell) /\ Len(temps') = Len(temps) + 1
            /\ temps'[Len(temps) + 1] = c /\ \A i \in 1 .. Len(temps) : temps'[i] = temps[i]
        BY <1>1, <2>1, <3>1, AppendFacts
      <4> QED BY <1>1, <4>1, <4>2
    <3>8. refs' \in [Cell -> SUBSET Cell]
      BY <1>1, <3>1
    <3>9. TypeOK'
      BY <1>1, <2>2, <2>3, <2>4, <2>5, <3>1, <3>4, <3>7, <3>8 DEF TypeOK
    <3>10. \A i \in 1 .. n - 1 : calls'[i] = calls[i]
      BY <1>1, <3>4
    <3>11. \A i \in 1 .. n : calls'[i].base = calls[i].base
      BY <1>1, <3>2, <3>4 DEF Call
    <3>12. \A i \in 1 .. n : temps'[i] = calls'[i].result
      <4>1. \A i \in 1 .. n - 1 : temps[i] = calls[i].result
        BY <3>2 DEF Shape, Nested
      <4>2. ASSUME NEW i \in 1 .. n, i # n PROVE temps'[i] = calls'[i].result
        <5>1. i \in 1 .. n - 1
          BY <1>1, <4>2
        <5> QED BY <3>2, <3>7, <3>10, <4>1, <5>1
      <4> QED BY <3>5, <3>7, <4>2
    <3>13. \A i \in 1 .. n - 1 : calls'[i].result # None
      BY <3>10 DEF Shape, Nested
    <3>14. Nested'
      BY <2>2, <2>6, <3>1, <3>4, <3>5, <3>6, <3>7, <3>11, <3>12, <3>13 DEF Shape, Nested
    <3> QED BY <3>9, <3>14 DEF Shape
  <2> QED BY <2>2, <2>7, <2>8, <2>9 DEF Request
<1> QED BY <1>2, <1>3, <1>4

LEMMA ShapeNext == Shape /\ [Next]_vars => Shape'
<1>1. Shape /\ UNCHANGED vars => Shape'
  BY DEF vars, Shape, TypeOK, Nested, Current, Made
<1> QED BY <1>1, ShapeInstruction, ShapePrimitive, ShapeCollection, ShapeMake DEF Next

-----------------------------------------------------------------------------
(* Marking and sweeping                                                    *)

\* What the collector has established: everything marked and taken off the
\* worklist has its edges marked, and nothing is marked that a set holding
\* the roots and closed under edges could leave out.
Marking ==
  /\ Roots \subseteq marked
  /\ marked \subseteq heap
  /\ gray \subseteq marked
  /\ \A c \in marked \ gray : refs[c] \subseteq marked
  /\ phase = "sweep" => gray = {}
  /\ \A s \in SUBSET Cell : (Roots \subseteq s /\ Closed(s)) => marked \subseteq s

Sound ==
  /\ phase # "ended" => Roots \subseteq heap /\ Closed(heap)
  /\ phase \in {"mark", "sweep"} => Marking

\* What a sequence holds when it grows or is cut.
LEMMA GrownOrCut ==
  ASSUME NEW S, NEW s \in Seq(S)
  PROVE  /\ \A e \in S : ToSet(Append(s, e)) = ToSet(s) \cup {e}
         /\ \A n \in 0 .. Len(s) : ToSet(SubSeq(s, 1, n)) \subseteq ToSet(s)
         /\ s # <<>> => ToSet(Front(s)) \subseteq ToSet(s)
         /\ \A i \in 1 .. Len(s) : s[i] \in ToSet(s)
         /\ s # <<>> => s[Len(s)] \in ToSet(s)
<1>1. Len(s) \in Nat /\ ToSet(s) = {s[i] : i \in 1 .. Len(s)}
  BY Elements
<1>2. ASSUME NEW e \in S PROVE ToSet(Append(s, e)) = ToSet(s) \cup {e}
  <2> DEFINE t == Append(s, e)
  <2>1. /\ t \in Seq(S) /\ Len(t) = Len(s) + 1 /\ t[Len(s) + 1] = e
        /\ \A i \in 1 .. Len(s) : t[i] = s[i]
    BY AppendFacts
  <2> HIDE DEF t
  <2>2. ToSet(t) = {t[i] : i \in 1 .. Len(s) + 1}
    BY <2>1, Elements
  <2>3. {t[i] : i \in 1 .. Len(s) + 1} = {t[i] : i \in 1 .. Len(s)} \cup {t[Len(s) + 1]}
    BY <1>1
  <2>4. {t[i] : i \in 1 .. Len(s)} = {s[i] : i \in 1 .. Len(s)}
    BY <2>1
  <2> QED BY <1>1, <2>1, <2>2, <2>3, <2>4 DEF t
<1>3. ASSUME NEW n \in 0 .. Len(s) PROVE ToSet(SubSeq(s, 1, n)) \subseteq ToSet(s)
  <2> DEFINE t == SubSeq(s, 1, n)
  <2>1. t \in Seq(S) /\ Len(t) = n /\ \A i \in 1 .. n : t[i] = s[i]
    BY Prefix
  <2> HIDE DEF t
  <2>2. ToSet(t) = {t[i] : i \in 1 .. n}
    BY <2>1, Elements
  <2> QED BY <1>1, <2>1, <2>2 DEF t
<1>4. s # <<>> => ToSet(Front(s)) \subseteq ToSet(s)
  <2> SUFFICES ASSUME s # <<>> PROVE ToSet(Front(s)) \subseteq ToSet(s)
    OBVIOUS
  <2>1. Len(s) - 1 \in 0 .. Len(s) /\ Front(s) = SubSeq(s, 1, Len(s) - 1)
    BY <1>1, FrontFacts DEF Front
  <2> QED BY <1>3, <2>1
<1>5. \A i \in 1 .. Len(s) : s[i] \in ToSet(s)
  BY <1>1
<1>6. s # <<>> => s[Len(s)] \in ToSet(s)
  BY <1>1, FrontFacts
<1> QED BY <1>2, <1>3, <1>4, <1>5, <1>6

\* A step between two collections that makes no cell: what it roots and what
\* it makes cells point at is on the heap.
LEMMA MutatorStep ==
  ASSUME Sound, phase = "run", what' = what,
         Roots' \subseteq heap, \A c \in heap : refs'[c] \subseteq heap,
         phase' = "run" \/ (phase' = "mark" /\ marked' = Roots' /\ gray' = Roots')
  PROVE  Sound'
<1>1. heap' = heap
  BY DEF heap
<1>2. phase' = "mark" => Marking'
  BY <1>1 DEF Marking
<1>3. Closed(heap)'
  BY <1>1 DEF Closed
<1> QED BY <1>1, <1>2, <1>3 DEF Sound

\* What is in reach of the running code is on the heap.
LEMMA InReach ==
  ASSUME Shape, Sound, phase = "run"
  PROVE  /\ Roots \subseteq heap
         /\ stack # <<>> => Top \in heap /\ refs[Top] \subseteq heap
         /\ \A i \in 1 .. Len(stack) : stack[i] \in heap /\ refs[stack[i]] \subseteq heap
         /\ \A c \in heap : refs[c] \subseteq heap
         /\ ToSet(stack) \subseteq heap /\ ToSet(temps) \subseteq heap /\ kept \subseteq heap
         /\ Root \in heap
         /\ calls # <<>> /\ request.to # "result" => Current.result \in ToSet(temps)
<1>1. Roots \subseteq heap /\ \A c \in heap : refs[c] \subseteq heap
  BY DEF Sound, Closed
<1>2. stack \in Seq(Cell) /\ temps \in Seq(Cell)
  BY DEF Shape, TypeOK
<1>3. stack # <<>> => Top \in ToSet(stack)
  BY <1>2, GrownOrCut DEF Top
<1>4. \A i \in 1 .. Len(stack) : stack[i] \in ToSet(stack)
  BY <1>2, GrownOrCut
<1>5. ASSUME calls # <<>>, request.to # "result" PROVE Current.result \in ToSet(temps)
  <2>1. Current.result # None /\ Made = Len(calls) /\ Len(temps) = Len(calls)
    BY <1>5 DEF Shape, Nested, Made
  <2>2. Len(calls) \in 1 .. Len(calls)
    BY <1>5, Typed DEF Shape
  <2>3. temps[Len(calls)] = Current.result
    BY <2>1, <2>2 DEF Shape, Nested, Current
  <2> QED BY <1>2, <2>1, <2>2, <2>3, GrownOrCut
<1> QED BY <1>1, <1>3, <1>4, <1>5 DEF Roots

LEMMA SoundInit == Init => Sound
<1> SUFFICES ASSUME Init PROVE Sound
  OBVIOUS
<1>1. heap = {Root}
  BY CollectorAssumption DEF Init, heap
<1>2. Roots = {Root}
  <2>1. ToSet(stack) = {} /\ ToSet(temps) = {}
    BY DEF Init, ToSet
  <2> QED BY <2>1 DEF Init, Roots
<1> QED BY <1>1, <1>2, CollectorAssumption DEF Init, Sound, Closed

\* One instruction of the program.
LEMMA SoundInstruction == Shape /\ Sound /\ Instruction => Sound'
<1> SUFFICES ASSUME Shape, Sound, Instruction PROVE Sound'
  OBVIOUS
<1>1. phase = "run" /\ request = NoRequest /\ temps' = temps /\ what' = what
  BY DEF Instruction, PushGlobal, Load, Push, Pop, Store, Forget, Retain, Unretain,
         GiveBack, New, Intern, Running, graph, program
<1>2. /\ Roots \subseteq heap
      /\ stack # <<>> => Top \in heap /\ refs[Top] \subseteq heap
      /\ \A c \in heap : refs[c] \subseteq heap
      /\ ToSet(stack) \subseteq heap /\ ToSet(temps) \subseteq heap /\ kept \subseteq heap
      /\ Root \in heap
  BY <1>1, InReach
<1>3. stack \in Seq(Cell) /\ Len(stack) \in Nat /\ refs \in [Cell -> SUBSET Cell]
      /\ Base \in Nat /\ heap \subseteq Cell
  BY BasesBelow DEF Shape, TypeOK, heap
<1>4. ASSUME NEW c \in heap, Push(c) PROVE Sound'
  <2>1. ToSet(stack') = ToSet(stack) \cup {c}
    BY <1>3, <1>4, GrownOrCut DEF Push
  <2>2. Roots' \subseteq heap
    BY <1>1, <1>2, <1>4, <2>1 DEF Roots, Push
  <2> QED BY <1>1, <1>2, <1>4, <2>2, MutatorStep DEF Push, graph
<1>5. CASE PushGlobal
  BY <1>2, <1>4, <1>5 DEF PushGlobal
<1>6. CASE Load
  BY <1>2, <1>4, <1>6 DEF Load
<1>7. CASE Pop \/ Store
  <2>1. stack # <<>> /\ stack' = Front(stack) /\ phase' = "run" /\ kept' = kept
    BY <1>1, <1>3, <1>7, Typed DEF Pop, Store, Shape
  <2>2. ToSet(stack') \subseteq ToSet(stack)
    BY <1>3, <2>1, GrownOrCut
  <2>3. Roots' \subseteq heap
    BY <1>1, <1>2, <2>1, <2>2 DEF Roots
  <2>4. \A c \in heap : refs'[c] \subseteq heap
    BY <1>2, <1>3, <1>7, <2>1 DEF Pop, Store, graph
  <2> QED BY <1>1, <2>1, <2>3, <2>4, MutatorStep
<1>8. CASE Forget
  <2>1. \A c \in heap : refs'[c] \subseteq heap
    BY <1>2, <1>3, <1>8 DEF Forget
  <2>2. Roots' = Roots /\ phase' = "run"
    BY <1>1, <1>8 DEF Roots, Forget, program
  <2> QED BY <1>1, <1>2, <2>1, <2>2, MutatorStep
<1>9. CASE Retain \/ Unretain
  <2>1. kept' \subseteq heap /\ stack' = stack /\ refs' = refs /\ phase' = "run"
    BY <1>1, <1>2, <1>9 DEF Retain, Unretain, graph
  <2>2. Roots' \subseteq heap
    BY <1>1, <1>2, <2>1 DEF Roots
  <2> QED BY <1>1, <1>2, <2>1, <2>2, MutatorStep
<1>10. CASE GiveBack
  <2>1. Roots' = Roots /\ refs' = refs /\ phase' = "run"
    BY <1>1, <1>10 DEF GiveBack, Roots, program
  <2> QED BY <1>1, <1>2, <2>1, MutatorStep
<1>11. ASSUME NEW make, Ask(make, "stack"), UNCHANGED <<graph, program>> PROVE Sound'
  <2>1. Roots' = Roots /\ refs' = refs
    BY <1>11 DEF Roots, graph, program
  <2>2. phase' = "run" \/ (phase' = "mark" /\ marked' = Roots' /\ gray' = Roots')
    BY <1>1, <1>11, <2>1 DEF Ask
  <2> QED BY <1>1, <1>2, <2>1, <2>2, MutatorStep
<1>12. CASE New
  BY <1>11, <1>12 DEF New
<1>13. ASSUME NEW n \in Name, Intern(n) PROVE Sound'
  <2> DEFINE found == {c \in table : what[c] = n}
  <2>1. CASE found = {}
    <3>1. Ask(n, "stack") /\ UNCHANGED <<graph, program>>
      BY <1>13, <2>1 DEF Intern, program
    <3> QED BY <1>11, <3>1
  <2>2. CASE found # {}
    <3>1. PICK c \in found : Push(c)
      BY <1>13, <2>2 DEF Intern, Push
    <3>2. c \in heap
      BY <3>1, CollectorAssumption DEF heap, Shape, TypeOK
    <3> QED BY <1>4, <3>1, <3>2
  <2> QED BY <2>1, <2>2
<1> QED BY <1>5, <1>6, <1>7, <1>8, <1>9, <1>10, <1>12, <1>13 DEF Instruction

\* A step of a primitive.
LEMMA SoundPrimitive == Shape /\ Sound /\ Primitive => Sound'
<1> SUFFICES ASSUME Shape, Sound, Primitive PROVE Sound'
  OBVIOUS
<1>1. /\ phase = "run" /\ request = NoRequest /\ what' = what /\ kept' = kept
      /\ request.to # "result"
  BY DEF Primitive, StartPrimitive, CallBlock, BlockAnswers, BlockFails, AddPiece,
         EndPrimitive, Running, InPrimitive, graph, program, NoRequest
<1>2. /\ Roots \subseteq heap
      /\ stack # <<>> => Top \in heap /\ refs[Top] \subseteq heap
      /\ \A i \in 1 .. Len(stack) : stack[i] \in heap /\ refs[stack[i]] \subseteq heap
      /\ \A c \in heap : refs[c] \subseteq heap
      /\ ToSet(stack) \subseteq heap /\ ToSet(temps) \subseteq heap /\ kept \subseteq heap
      /\ Root \in heap
      /\ calls # <<>> => Current.result \in ToSet(temps)
  BY <1>1, InReach
<1>3. /\ stack \in Seq(Cell) /\ temps \in Seq(Cell) /\ Len(stack) \in Nat
      /\ refs \in [Cell -> SUBSET Cell] /\ heap \subseteq Cell
      /\ Base \in 0 .. Len(stack)
  BY BasesBelow DEF Shape, TypeOK, heap
<1>4. calls # <<>> => /\ Base = Current.base /\ Base \in 1 .. Len(stack) /\ Base - 1 \in 0 .. Len(stack)
                      /\ temps # <<>>
  <2> SUFFICES ASSUME calls # <<>>
               PROVE  /\ Base = Current.base /\ Base \in 1 .. Len(stack) /\ Base - 1 \in 0 .. Len(stack)
                      /\ temps # <<>>
    OBVIOUS
  <2>1. temps # <<>>
    BY <1>2 DEF ToSet
  <2> QED BY <1>3, <2>1, BaseFacts
<1>5. ASSUME NEW make, NEW to, Ask(make, to), UNCHANGED <<graph, stack, temps, kept>>
      PROVE  Sound'
  <2>1. Roots' = Roots /\ refs' = refs
    BY <1>5 DEF Roots, graph
  <2>2. phase' = "run" \/ (phase' = "mark" /\ marked' = Roots' /\ gray' = Roots')
    BY <1>1, <1>5, <2>1 DEF Ask
  <2> QED BY <1>1, <1>2, <2>1, <2>2, MutatorStep
<1>6. CASE StartPrimitive
  BY <1>5, <1>6 DEF StartPrimitive
<1>7. CASE AddPiece
  BY <1>5, <1>7 DEF AddPiece, program
<1>8. ASSUME ToSet(stack') \subseteq heap, ToSet(temps') \subseteq heap,
             \A c \in heap : refs'[c] \subseteq heap, phase' = phase
      PROVE  Sound'
  <2>1. Roots' \subseteq heap
    BY <1>1, <1>2, <1>8 DEF Roots
  <2> QED BY <1>1, <1>8, <2>1, MutatorStep
<1>9. CASE CallBlock
  <2>1. calls # <<>>
    BY <1>9 DEF CallBlock, InPrimitive
  <2>2. PICK c \in refs[stack[Current.base]] : stack' = Append(stack, c)
    BY <1>9 DEF CallBlock
  <2>3. c \in heap /\ c \in Cell
    BY <1>2, <1>3, <1>4, <2>1, <2>2
  <2>4. ToSet(stack') = ToSet(stack) \cup {c}
    BY <1>3, <2>2, <2>3, GrownOrCut
  <2> QED BY <1>2, <1>8, <1>9, <2>3, <2>4 DEF CallBlock, graph
<1>10. CASE BlockAnswers
  <2>1. calls # <<>> /\ stack # <<>> /\ stack' = SubSeq(stack, 1, Base) /\ temps' = temps /\ phase' = phase
    BY <1>3, <1>10, Typed DEF BlockAnswers, Shape
  <2>2. ToSet(stack') \subseteq ToSet(stack)
    BY <1>3, <2>1, GrownOrCut
  <2>3. refs' = [refs EXCEPT ![Current.result] = @ \cup {Top}]
    BY <1>10 DEF BlockAnswers
  <2>4. \A c \in heap : refs'[c] \subseteq heap
    BY <1>2, <1>3, <2>1, <2>3
  <2> QED BY <1>2, <1>8, <2>1, <2>2, <2>4
<1>11. CASE BlockFails
  <2>1. /\ calls # <<>> /\ stack' = SubSeq(stack, 1, Base - 1) /\ temps' = Front(temps)
        /\ phase' = phase /\ refs' = refs
    BY <1>11 DEF BlockFails, graph
  <2>2. ToSet(stack') \subseteq ToSet(stack) /\ ToSet(temps') \subseteq ToSet(temps)
    BY <1>3, <1>4, <2>1, GrownOrCut
  <2> QED BY <1>2, <1>8, <2>1, <2>2
<1>12. CASE EndPrimitive
  <2>1. /\ calls # <<>> /\ stack' = Append(SubSeq(stack, 1, Base - 1), Current.result)
        /\ temps' = Front(temps) /\ phase' = phase /\ refs' = refs
    BY <1>12 DEF EndPrimitive, InPrimitive, graph
  <2>2. /\ ToSet(SubSeq(stack, 1, Base - 1)) \subseteq ToSet(stack)
        /\ ToSet(temps') \subseteq ToSet(temps)
    BY <1>3, <1>4, <2>1, GrownOrCut
  <2>3. Current.result \in heap /\ SubSeq(stack, 1, Base - 1) \in Seq(Cell)
    BY <1>2, <1>3, <1>4, <2>1, Prefix
  <2>4. ToSet(stack') = ToSet(SubSeq(stack, 1, Base - 1)) \cup {Current.result}
    <3> DEFINE under == SubSeq(stack, 1, Base - 1)
    <3>1. under \in Seq(Cell) /\ Current.result \in Cell /\ stack' = Append(under, Current.result)
      BY <1>3, <2>1, <2>3
    <3> HIDE DEF under
    <3>2. ToSet(Append(under, Current.result)) = ToSet(under) \cup {Current.result}
      BY <3>1, GrownOrCut
    <3> QED BY <3>1, <3>2 DEF under
  <2> QED BY <1>2, <1>8, <2>1, <2>2, <2>3, <2>4
<1> QED BY <1>6, <1>7, <1>9, <1>10, <1>11, <1>12 DEF Primitive

\* The cell that was asked for is made, or the machine ends.
LEMMA SoundMake == Shape /\ Sound /\ (Make \/ Exit \/ FreeAll) => Sound'
<1> SUFFICES ASSUME Shape, Sound, Make \/ Exit \/ FreeAll PROVE Sound'
  OBVIOUS
<1>1. CASE Exit \/ FreeAll
  BY <1>1 DEF Exit, FreeAll, Sound
<1>2. CASE Make
  <2>1. PICK c \in Cell : what[c] = "free" /\ what' = [what EXCEPT ![c] = request.make] /\ Place(c)
    BY <1>2 DEF Make
  <2>2. phase = "run" /\ phase' = "run" /\ kept' = kept /\ request # NoRequest
    BY <1>2 DEF Make
  <2>3. /\ stack \in Seq(Cell) /\ temps \in Seq(Cell) /\ refs \in [Cell -> SUBSET Cell]
        /\ what \in [Cell -> {"free"} \cup Kind] /\ request \in Request
    BY <2>2 DEF Shape, TypeOK
  <2>4. /\ \A d \in heap : refs[d] \subseteq heap
        /\ ToSet(stack) \subseteq heap /\ ToSet(temps) \subseteq heap /\ kept \subseteq heap
        /\ Root \in heap
        /\ calls # <<>> /\ request.to # "result" => Current.result \in ToSet(temps)
    BY <2>2, InReach
  <2>5. heap' = heap \cup {c}
    <3>1. request.make # "free"
      BY <2>3, CollectorAssumption DEF Request, Kind
    <3> QED BY <2>1, <2>3, <3>1 DEF heap
  <2>6. ASSUME ToSet(stack') \subseteq heap', ToSet(temps') \subseteq heap',
               \A d \in heap' : refs'[d] \subseteq heap'
        PROVE  Sound'
    BY <2>2, <2>4, <2>5, <2>6 DEF Sound, Roots, Closed
  <2>7. CASE request.to = "stack"
    <3>1. stack' = Append(stack, c) /\ refs' = [refs EXCEPT ![c] = {}] /\ temps' = temps
      BY <2>1, <2>7 DEF Place
    <3>2. ToSet(stack') = ToSet(stack) \cup {c}
      BY <2>3, <3>1, GrownOrCut
    <3>3. \A d \in heap' : refs'[d] \subseteq heap'
      BY <2>3, <2>4, <2>5, <3>1 DEF heap
    <3> QED BY <2>4, <2>5, <2>6, <3>1, <3>2, <3>3
  <2>8. CASE request.to = "result"
    <3>1. temps' = Append(temps, c) /\ refs' = [refs EXCEPT ![c] = {}] /\ stack' = stack
      BY <2>1, <2>8 DEF Place
    <3>2. ToSet(temps') = ToSet(temps) \cup {c}
      BY <2>3, <3>1, GrownOrCut
    <3>3. \A d \in heap' : refs'[d] \subseteq heap'
      BY <2>3, <2>4, <2>5, <3>1 DEF heap
    <3> QED BY <2>4, <2>5, <2>6, <3>1, <3>2, <3>3
  <2>9. CASE request.to = "piece"
    <3>1. /\ refs' = [refs EXCEPT ![c] = {}, ![Current.result] = @ \cup {c}]
          /\ UNCHANGED <<stack, temps>>
      BY <2>1, <2>9 DEF Place
    <3>2. \A d \in heap' : refs'[d] \subseteq heap'
      BY <2>3, <2>4, <2>5, <3>1 DEF heap
    <3> QED BY <2>4, <2>5, <2>6, <3>1, <3>2
  <2> QED BY <2>3, <2>7, <2>8, <2>9 DEF Request
<1> QED BY <1>1, <1>2

\* A step of the collector.
LEMMA SoundCollection == Shape /\ Sound /\ Collection => Sound'
<1> SUFFICES ASSUME Shape, Sound, Collection PROVE Sound'
  OBVIOUS
<1>1. /\ phase \in {"mark", "sweep"} /\ Marking /\ Roots \subseteq heap /\ Closed(heap)
      /\ Roots' = Roots
  BY DEF Collection, Blacken, Marked, Sweep, Sound, program, Roots
<1>2. refs \in [Cell -> SUBSET Cell] /\ what \in [Cell -> {"free"} \cup Kind] /\ marked \subseteq Cell
  BY DEF Shape, TypeOK
<1>3. CASE Blacken
  <2>1. PICK c \in gray : /\ marked' = marked \cup refs[c]
                          /\ gray' = (gray \ {c}) \cup (refs[c] \ marked)
    BY <1>3 DEF Blacken, Edges
  <2>2. UNCHANGED <<what, refs, phase>> /\ phase = "mark"
    BY <1>3 DEF Blacken, graph
  <2>3. heap' = heap /\ c \in heap /\ refs[c] \subseteq heap
    BY <1>1, <2>1, <2>2 DEF heap, Marking, Closed
  <2>4. \A d \in marked' \ gray' : refs[d] \subseteq marked'
    BY <1>1, <2>1 DEF Marking
  <2>5. ASSUME NEW s \in SUBSET Cell, Roots \subseteq s, Closed(s) PROVE marked' \subseteq s
    <3>1. marked \subseteq s
      BY <1>1, <2>5 DEF Marking
    <3> QED BY <1>1, <2>1, <2>5, <3>1 DEF Marking, Closed
  <2>6. Marking'
    BY <1>1, <2>1, <2>2, <2>3, <2>4, <2>5 DEF Marking, Closed
  <2> QED BY <1>1, <2>2, <2>3, <2>6 DEF Sound, Closed
<1>4. CASE Marked
  <2>1. UNCHANGED <<what, refs, marked, gray>> /\ phase = "mark" /\ phase' = "sweep" /\ gray = {}
    BY <1>4 DEF Marked, graph, collection
  <2> QED BY <1>1, <2>1 DEF Sound, Marking, Closed, heap
<1>5. CASE Sweep
  <2>1. /\ phase = "sweep" /\ phase' = "run" /\ gray = {}
        /\ what' = [c \in Cell |-> IF c \in heap \ marked THEN "free" ELSE what[c]]
        /\ refs' = [c \in Cell |-> IF c \in heap \ marked THEN {} ELSE refs[c]]
    BY <1>1, <1>5 DEF Sweep, Marking
  <2>2. heap' = marked
    BY <1>1, <2>1 DEF heap, Marking
  <2>3. \A c \in marked : refs'[c] = refs[c] /\ refs[c] \subseteq marked
    BY <1>1, <1>2, <2>1 DEF Marking
  <2> QED BY <1>1, <2>1, <2>2, <2>3 DEF Sound, Closed, Marking
<1> QED BY <1>3, <1>4, <1>5 DEF Collection

LEMMA SoundNext == Shape /\ Sound /\ [Next]_vars => Sound'
<1>1. Sound /\ UNCHANGED vars => Sound'
  BY DEF vars, Sound, Marking, Roots, heap, Closed
<1> QED BY <1>1, SoundInstruction, SoundPrimitive, SoundCollection, SoundMake DEF Next

-----------------------------------------------------------------------------
(* Symbols                                                                 *)

\* The table holds the symbols, one of each spelling, and a symbol that is
\* being made is in it under no spelling.
Unique ==
  /\ phase # "ended" => table = Symbols
  /\ \A c, d \in table : what[c] = what[d] => c = d
  /\ request.make \in Name => \A c \in table : what[c] # request.make

LEMMA UniqueInit == Init => Unique
BY CollectorAssumption DEF Init, Unique, Symbols, NoRequest, Kind

LEMMA UniqueNext == Shape /\ Sound /\ Unique /\ [Next]_vars => Unique'
<1> SUFFICES ASSUME Shape, Sound, Unique, [Next]_vars PROVE Unique'
  OBVIOUS
<1>1. /\ what \in [Cell -> {"free"} \cup Kind] /\ table \subseteq Cell
      /\ request \in Request \cup {NoRequest}
  BY DEF Shape, TypeOK
<1>2. "plain" \notin Name /\ "foreign" \notin Name /\ "free" \notin Name /\ NoRequest.make = "free"
  BY CollectorAssumption DEF NoRequest
<1>3. ASSUME what' = what, table' = table, phase' # "ended" => phase # "ended",
             request' = request \/ request'.make \notin Name
      PROVE  Unique'
  BY <1>3 DEF Unique, Symbols
<1>4. ASSUME NEW make, NEW to, Ask(make, to), make \notin Name, UNCHANGED <<what, table>>, phase = "run"
      PROVE  Unique'
  <2>1. request'.make = make
    BY <1>4 DEF Ask
  <2> QED BY <1>3, <1>4, <2>1
<1>5. CASE Instruction
  <2>1. phase = "run" /\ UNCHANGED <<what, table>>
    BY <1>5 DEF Instruction, PushGlobal, Load, Push, Pop, Store, Forget, Retain, Unretain,
           GiveBack, New, Intern, Running, graph
  <2>2. CASE New
    BY <1>2, <1>4, <2>1, <2>2 DEF New
  <2>3. ASSUME NEW n \in Name, Intern(n) PROVE Unique'
    <3>1. CASE {c \in table : what[c] = n} # {}
      BY <1>3, <2>1, <2>3, <3>1 DEF Intern
    <3>2. CASE {c \in table : what[c] = n} = {}
      <4>1. request'.make = n /\ \A c \in table : what[c] # n
        BY <2>3, <3>2 DEF Intern, Ask
      <4> QED BY <2>1, <4>1 DEF Unique, Symbols
    <3> QED BY <3>1, <3>2
  <2>4. CASE ~New /\ ~\E n \in Name : Intern(n)
    <3>1. request' = request
      BY <1>5, <2>4 DEF Instruction, PushGlobal, Load, Push, Pop, Store, Forget, Retain, Unretain,
             GiveBack
    <3> QED BY <1>3, <2>1, <3>1
  <2> QED BY <2>2, <2>3, <2>4
<1>6. CASE Primitive
  <2>1. phase = "run" /\ UNCHANGED <<what, table>>
    BY <1>6 DEF Primitive, StartPrimitive, CallBlock, BlockAnswers, BlockFails, AddPiece,
           EndPrimitive, Running, InPrimitive, graph
  <2>2. CASE StartPrimitive \/ AddPiece
    BY <1>2, <1>4, <2>1, <2>2 DEF StartPrimitive, AddPiece
  <2>3. CASE CallBlock \/ BlockAnswers \/ BlockFails \/ EndPrimitive
    BY <1>3, <2>1, <2>3 DEF CallBlock, BlockAnswers, BlockFails, EndPrimitive
  <2> QED BY <1>6, <2>2, <2>3 DEF Primitive
<1>7. CASE Make
  <2>1. PICK c \in Cell :
          /\ what[c] = "free"
          /\ what' = [what EXCEPT ![c] = request.make]
          /\ table' = IF request.make \in Name THEN table \cup {c} ELSE table
    BY <1>7 DEF Make
  <2>2. phase = "run" /\ phase' = "run" /\ request' = NoRequest
    BY <1>7 DEF Make
  <2>3. c \notin table /\ table = Symbols
    BY <1>2, <2>1, <2>2 DEF Unique, Symbols
  <2>4. \A d \in Cell : what'[d] = IF d = c THEN request.make ELSE what[d]
    BY <1>1, <2>1
  <2>5. table' = Symbols'
    BY <1>2, <2>1, <2>3, <2>4 DEF Symbols
  <2>6. ASSUME NEW d \in table', NEW e \in table', what'[d] = what'[e] PROVE d = e
    BY <1>1, <2>1, <2>3, <2>4, <2>6 DEF Unique
  <2> QED BY <1>2, <2>2, <2>5, <2>6 DEF Unique
<1>8. CASE Exit
  BY <1>3, <1>8 DEF Exit, graph
<1>9. CASE Collection
  <2>1. CASE Blacken \/ Marked
    <3>1. phase # "ended"
      BY <2>1 DEF Blacken, Marked
    <3> QED BY <1>3, <2>1, <3>1 DEF Blacken, Marked, graph
  <2>2. CASE Sweep
    <3>1. /\ table' = table \cap marked /\ request' = request /\ phase = "sweep"
          /\ what' = [c \in Cell |-> IF c \in heap \ marked THEN "free" ELSE what[c]]
      BY <2>2 DEF Sweep, Pruned
    <3>2. marked \subseteq heap /\ table = Symbols
      BY <3>1 DEF Sound, Marking, Unique
    <3>3. \A c \in Cell : what'[c] = IF c \in heap \ marked THEN "free" ELSE what[c]
      BY <3>1
    <3>4. table' = Symbols'
      BY <1>2, <3>1, <3>2, <3>3 DEF Symbols, heap
    <3>5. \A c \in table' : c \in table /\ what'[c] = what[c]
      BY <1>1, <3>1, <3>3
    <3> QED BY <3>1, <3>4, <3>5 DEF Unique
  <2> QED BY <1>9, <2>1, <2>2 DEF Collection
<1>10. CASE FreeAll
  BY <1>2, <1>10 DEF FreeAll, Unique
<1>11. CASE UNCHANGED vars
  BY <1>3, <1>11 DEF vars
<1> QED BY <1>5, <1>6, <1>7, <1>8, <1>9, <1>10, <1>11 DEF Next

-----------------------------------------------------------------------------
(* Foreign resources                                                       *)

\* A free address owns nothing, and a resource has one owner.
Owners ==
  /\ \A c \in Cell : what[c] = "free" => handle[c] = 0
  /\ \A c, d \in Cell : handle[c] # 0 /\ handle[c] = handle[d] => c = d

Accounted == Owners /\ ReleasedOnce

LEMMA AccountedInit == Init => Accounted
BY DEF Init, Accounted, Owners, ReleasedOnce

LEMMA AccountedStays ==
  ASSUME Accounted, UNCHANGED <<what, handle, releases>>
  PROVE  Accounted'
BY DEF Accounted, Owners, ReleasedOnce

\* Cells give up what they own: each resource is counted for its one owner, and
\* what has been given up is counted no more.
LEMMA ReleasedAccounts ==
  ASSUME TypeOK, Accounted, NEW cells \in SUBSET Cell, Released(cells)
  PROVE  /\ ReleasedOnce'
         /\ \A c \in Cell : handle'[c] = IF c \in cells THEN 0 ELSE handle[c]
<1> DEFINE held(h) == {c \in cells : handle[c] = h}
<1>1. \A c \in Cell : handle'[c] = IF c \in cells THEN 0 ELSE handle[c]
  BY DEF Released
<1>2. DOMAIN releases = 1 .. Len(releases) /\ \A h \in DOMAIN releases : releases[h] \in Nat
  BY LenProperties, ElementOfSeq DEF TypeOK
<1>3. /\ DOMAIN releases' = DOMAIN releases
      /\ \A h \in DOMAIN releases : releases'[h] = releases[h] + Cardinality(held(h))
  BY DEF Released
<1>4. ASSUME NEW h \in DOMAIN releases
      PROVE  releases'[h] = IF \E c \in Cell : handle'[c] = h THEN 0 ELSE 1
  <2>1. h # 0 /\ releases[h] = IF \E c \in Cell : handle[c] = h THEN 0 ELSE 1
    BY <1>2 DEF Accounted, ReleasedOnce
  <2>2. ASSUME NEW c \in cells, handle[c] = h
        PROVE  releases'[h] = IF \E d \in Cell : handle'[d] = h THEN 0 ELSE 1
    <3>1. held(h) = {c}
      BY <2>1, <2>2 DEF Accounted, Owners
    <3>2. Cardinality(held(h)) = 1
      BY <3>1, FS_Singleton
    <3>3. ~\E d \in Cell : handle'[d] = h
      BY <1>1, <2>1, <2>2 DEF Accounted, Owners
    <3>4. releases[h] = 0
      BY <2>1, <2>2
    <3> QED BY <1>3, <3>2, <3>3, <3>4
  <2>3. ASSUME ~\E c \in cells : handle[c] = h
        PROVE  releases'[h] = IF \E d \in Cell : handle'[d] = h THEN 0 ELSE 1
    <3>1. held(h) = {}
      BY <2>3
    <3>2. Cardinality(held(h)) = 0
      BY <3>1, FS_EmptySet
    <3>3. (\E d \in Cell : handle'[d] = h) <=> \E d \in Cell : handle[d] = h
      BY <1>1, <2>1, <2>3
    <3>4. releases'[h] = releases[h]
      BY <1>2, <1>3, <3>2
    <3> QED BY <2>1, <3>3, <3>4
  <2> QED BY <2>2, <2>3
<1> QED BY <1>1, <1>3, <1>4 DEF ReleasedOnce

\* Of those cells that are freed as well, and of any others, a resource has one owner.
LEMMA FreedAccounts ==
  ASSUME TypeOK, Accounted, NEW cells \in SUBSET Cell, Released(cells),
         \A c \in Cell : what'[c] = "free" => what[c] = "free" \/ c \in cells
  PROVE  Accounted'
<1>1. ReleasedOnce' /\ \A c \in Cell : handle'[c] = IF c \in cells THEN 0 ELSE handle[c]
  BY ReleasedAccounts
<1>2. Owners'
  BY <1>1 DEF Accounted, Owners
<1> QED BY <1>1, <1>2 DEF Accounted

LEMMA MakeAccounts == TypeOK /\ Accounted /\ Make => Accounted'
<1> SUFFICES ASSUME TypeOK, Accounted, Make PROVE Accounted'
  OBVIOUS
<1>1. PICK c \in Cell :
        /\ what[c] = "free" /\ what' = [what EXCEPT ![c] = request.make]
        /\ IF request.make = "foreign"
           THEN /\ handle' = [handle EXCEPT ![c] = Len(releases) + 1]
                /\ releases' = Append(releases, 0)
           ELSE UNCHANGED <<handle, releases>>
  BY DEF Make
<1>2. /\ what \in [Cell -> {"free"} \cup Kind] /\ handle \in [Cell -> 0 .. Len(releases)]
      /\ releases \in Seq(Nat) /\ handle[c] = 0
  BY <1>1 DEF TypeOK, Accounted, Owners
<1>3. \A d \in Cell : d # c => what'[d] = what[d]
  BY <1>1, <1>2
<1>4. CASE request.make = "foreign"
  <2> DEFINE n == Len(releases) + 1
  <2>1. /\ DOMAIN releases = 1 .. Len(releases) /\ Len(releases) \in Nat
        /\ DOMAIN releases' = 1 .. n /\ releases'[n] = 0
        /\ \A h \in 1 .. Len(releases) : releases'[h] = releases[h]
    <3>1. releases' = Append(releases, 0) /\ 0 \in Nat
      BY <1>1, <1>4
    <3>2. /\ releases' \in Seq(Nat) /\ Len(releases') = n /\ releases'[n] = 0
          /\ \A h \in 1 .. Len(releases) : releases'[h] = releases[h]
      BY <1>2, <3>1, AppendProperties
    <3> QED BY <1>2, <3>2, LenProperties
  <2>2. \A d \in Cell : handle'[d] = IF d = c THEN n ELSE handle[d]
    BY <1>1, <1>2, <1>4
  <2>3. \A d \in Cell : handle[d] \in 0 .. Len(releases)
    BY <1>2
  <2>4. what'[c] = "foreign"
    BY <1>1, <1>2, <1>4
  <2>5. n \in Nat /\ n # 0 /\ n \notin 0 .. Len(releases) /\ 1 .. n = 1 .. Len(releases) \cup {n}
    BY <2>1
  <2> HIDE DEF n
  <2>6. Owners'
    BY <1>2, <1>3, <2>2, <2>3, <2>4, <2>5 DEF Accounted, Owners
  <2>7. ASSUME NEW h \in 1 .. Len(releases)
        PROVE  releases'[h] = IF \E d \in Cell : handle'[d] = h THEN 0 ELSE 1
    <3>1. h # n /\ h # 0
      BY <2>5
    <3>2. (\E d \in Cell : handle'[d] = h) <=> \E d \in Cell : handle[d] = h
      BY <1>2, <2>2, <3>1
    <3> QED BY <2>1, <3>2 DEF Accounted, ReleasedOnce
  <2>8. releases'[n] = IF \E d \in Cell : handle'[d] = n THEN 0 ELSE 1
    BY <2>1, <2>2
  <2>9. ReleasedOnce'
    BY <2>1, <2>5, <2>7, <2>8 DEF ReleasedOnce
  <2> QED BY <2>6, <2>9 DEF Accounted
<1>5. CASE request.make # "foreign"
  <2>1. Owners'
    BY <1>1, <1>2, <1>3, <1>5 DEF Accounted, Owners
  <2>2. ReleasedOnce'
    BY <1>1, <1>5 DEF Accounted, ReleasedOnce
  <2> QED BY <2>1, <2>2 DEF Accounted
<1> QED BY <1>4, <1>5

LEMMA AccountedNext == TypeOK /\ Accounted /\ [Next]_vars => Accounted'
<1> SUFFICES ASSUME TypeOK, Accounted, [Next]_vars PROVE Accounted'
  OBVIOUS
<1>1. CASE Instruction
  <2>1. CASE GiveBack
    <3>1. Top \in Cell
      BY <2>1, Elements DEF GiveBack, TypeOK, Top
    <3>2. Released({Top}) /\ what' = what
      BY <2>1 DEF GiveBack
    <3> QED BY <3>1, <3>2, FreedAccounts
  <2>2. CASE ~GiveBack
    <3>1. UNCHANGED <<what, handle, releases>>
      BY <1>1, <2>2 DEF Instruction, PushGlobal, Load, Push, Pop, Store, Forget, Retain, Unretain,
             New, Intern, graph
    <3> QED BY <3>1, AccountedStays
  <2> QED BY <2>1, <2>2
<1>2. CASE Primitive
  <2>1. UNCHANGED <<what, handle, releases>>
    BY <1>2 DEF Primitive, StartPrimitive, CallBlock, BlockAnswers, BlockFails, AddPiece,
           EndPrimitive, graph
  <2> QED BY <2>1, AccountedStays
<1>3. CASE Make
  BY <1>3, MakeAccounts
<1>4. CASE Exit \/ Blacken \/ Marked
  <2>1. UNCHANGED <<what, handle, releases>>
    BY <1>4 DEF Exit, Blacken, Marked, graph
  <2> QED BY <2>1, AccountedStays
<1>5. CASE Sweep
  <2> DEFINE dead == heap \ marked
  <2>1. dead \in SUBSET Cell /\ Released(dead)
        /\ \A c \in Cell : what'[c] = IF c \in dead THEN "free" ELSE what[c]
    BY <1>5 DEF Sweep, heap
  <2> HIDE DEF dead
  <2> QED BY <2>1, FreedAccounts
<1>6. CASE FreeAll
  <2>1. heap \in SUBSET Cell /\ Released(heap)
    BY <1>6 DEF FreeAll, heap
  <2>2. \A c \in Cell : what'[c] = "free" => what[c] = "free" \/ c \in heap
    BY DEF heap
  <2> QED BY <2>1, <2>2, FreedAccounts
<1>7. CASE UNCHANGED vars
  BY <1>7, AccountedStays DEF vars
<1> QED BY <1>1, <1>2, <1>3, <1>4, <1>5, <1>6, <1>7 DEF Next, Collection

-----------------------------------------------------------------------------
(* Theorems                                                                *)

\* Three invariants, each inductive on top of those before it.
THEOREM Invariant == Spec => [](Shape /\ Sound /\ Unique)
<1>1. Init => Shape /\ Sound /\ Unique
  BY ShapeInit, SoundInit, UniqueInit
<1>2. (Shape /\ Sound /\ Unique) /\ [Next]_vars => (Shape /\ Sound /\ Unique)'
  BY ShapeNext, SoundNext, UniqueNext
<1> QED BY <1>1, <1>2, PTL DEF Spec

\* Every variable has its type.
THEOREM TypeCorrect == Spec => []TypeOK
<1>1. Shape => TypeOK
  BY DEF Shape
<1> QED BY <1>1, Invariant, PTL

\* The results of the primitives in progress are temporary roots.
LEMMA LocalsAreRooted == Shape => Locals \subseteq ToSet(temps)
<1> SUFFICES ASSUME Shape, NEW i \in DOMAIN calls, calls[i].result # None
             PROVE  calls[i].result \in ToSet(temps)
  BY DEF Locals
<1>1. DOMAIN calls = 1 .. Len(calls) /\ temps \in Seq(Cell)
  BY LenProperties DEF Shape, TypeOK
<1>2. i \in 1 .. Made
  BY <1>1, Typed, EmptySeq DEF Shape, Made, Current, TypeOK
<1>3. temps[i] = calls[i].result /\ i \in 1 .. Len(temps)
  BY <1>2 DEF Shape, Nested
<1> QED BY <1>1, <1>3, GrownOrCut

\* No root, no local of a primitive and no cell points at freed memory: a
\* collection may come at any allocation, under any nesting of primitives.
THEOREM NothingInUseIsFreed == Spec => []NothingDangles
<1>1. Shape /\ Sound => NothingDangles
  BY LocalsAreRooted DEF Sound, NothingDangles, Closed, Roots
<1> QED BY <1>1, Invariant, PTL

\* Every way out of a primitive drops the root it pushed, however deep.
THEOREM RootsMatchPrimitives == Spec => []TempsBalanced
<1>1. ASSUME Shape PROVE TempsBalanced
  <2>1. temps \in Seq(Cell) /\ Len(temps) = Made /\ \A i \in 1 .. Made : temps[i] = calls[i].result
    BY <1>1 DEF Shape, TypeOK, Nested
  <2>2. temps = [i \in 1 .. Len(temps) |-> temps[i]]
    BY <2>1, LenProperties
  <2> QED BY <2>1, <2>2 DEF TempsBalanced
<1> QED BY <1>1, Invariant, PTL

\* A spelling has one symbol, whatever collections come between two uses of it.
THEOREM SymbolsStayUnique == Spec => []SymbolsUnique
<1>1. Unique => SymbolsUnique
  BY DEF Unique, SymbolsUnique
<1> QED BY <1>1, Invariant, PTL

\* A collection leaves the cells reachable from the roots, and no other.
THEOREM SweepIsExact == Spec => FreesExactlyGarbage
<1> DEFINE Exact == phase = "sweep" => heap' = Reachable(Roots)
<1>1. ASSUME Shape, Sound, [Next]_vars PROVE [Exact]_vars
  <2> SUFFICES ASSUME phase = "sweep", Next PROVE heap' = Reachable(Roots)
    BY <1>1
  <2>1. Sweep
    BY DEF Next, Instruction, PushGlobal, Load, Push, Pop, Store, Forget, Retain, Unretain,
           GiveBack, New, Intern, Running, Primitive, StartPrimitive, CallBlock, BlockAnswers,
           BlockFails, AddPiece, EndPrimitive, InPrimitive, Make, Exit, FreeAll, Collection,
           Blacken, Marked
  <2>2. Marking /\ gray = {}
    BY <1>1 DEF Sound, Marking
  <2>3. heap' = marked
    BY <2>1, <2>2 DEF Sweep, Marking, heap
  <2>4. Roots \subseteq marked /\ Closed(marked) /\ marked \subseteq Cell
    BY <2>2 DEF Marking, Closed, heap
  <2>5. Reachable(Roots) \subseteq marked
    BY <2>4 DEF Reachable
  <2>6. marked \subseteq Reachable(Roots)
    BY <2>2, <2>4 DEF Marking, Reachable
  <2> QED BY <2>3, <2>5, <2>6
<1>2. Shape /\ Sound /\ [Next]_vars => [Exact]_vars
  BY <1>1
<1> QED BY <1>2, Invariant, PTL DEF Spec, FreesExactlyGarbage

\* A foreign resource is released exactly once, when its cell is freed or when an
\* extension gives it back, however the two and the machine's end are ordered.
THEOREM ResourcesReleasedOnce == Spec => []ReleasedOnce
<1>1. Init => Accounted
  BY AccountedInit
<1>2. TypeOK /\ Accounted /\ [Next]_vars => Accounted'
  BY AccountedNext
<1>3. Accounted => ReleasedOnce
  BY DEF Accounted
<1> QED BY <1>1, <1>2, <1>3, TypeCorrect, PTL DEF Spec
===============================================================================
