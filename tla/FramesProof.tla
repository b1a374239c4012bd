----------------------------- MODULE FramesProof -----------------------------
(***************************************************************************)
(* Proofs about Frames for every program, frame limit and stack size: the  *)
(* types, the layout of the stack, the nesting of run_frames, and that a   *)
(* block reaches the activation that wrote it exactly while it is there.   *)
(***************************************************************************)
EXTENDS Frames, Iteration, SequenceTheorems, TLAPS

\* Ids and activation numbers are handed out in the order frames are pushed,
\* and the slots go up with them.
Ordered ==
  /\ \A i \in Live : frames[i].id < nextId /\ frames[i].act < born
  /\ \A i, j \in Live : i < j => frames[i].act < frames[j].act
  /\ \A i, j \in Live : i < j => frames[i].slots <= frames[j].slots

\* What the index and the id of a home say, for a block or for the frame
\* running one: they pick out the activation that wrote the body.
Writer(code, home, homeId, homeAct) ==
  /\ homeId < nextId
  /\ homeAct < born
  /\ \A j \in Live : frames[j].act = homeAct <=> (j = home /\ frames[j].id = homeId)
  /\ \A j \in Live : frames[j].act = homeAct => frames[j].code = Encloser[code]

BlockWriters == \A b \in blocks : Writer(b.code, b.home, b.homeId, b.homeAct)

FrameWriters ==
  \A i \in Live :
    ~TopLevel(frames[i].code) =>
      Writer(frames[i].code, frames[i].home, frames[i].homeId, frames[i].homeAct)

\* Where each run_frames call began: at a frame over its mark, with the
\* operands of the send it serves below it and the sender's slots below those.
RunsPlaced ==
  /\ runs # <<>> => TopLevel(frames[0].code)
  /\ \A k \in 1 .. Len(runs) :
       IF k = 1
       THEN runs[k].base = 0 /\ runs[k].mark = 0 /\ runs[k].drop = 0
       ELSE /\ runs[k].base >= 1 /\ runs[k].drop >= 1
            /\ frames[runs[k].base - 1].slots
                 + SlotCount[frames[runs[k].base - 1].code]
               <= runs[k].mark - runs[k].drop

Inv == /\ TypeOK
       /\ ActivationsApart
       /\ RunsNested
       /\ RunsPlaced
       /\ Ordered
       /\ BlockWriters
       /\ FrameWriters

\* The numbers among the constants, for steps that are only arithmetic.
LEMMA Bounds ==
  /\ FramesMax \in Nat /\ FramesMax > 0
  /\ StackMax \in Nat
  /\ \A c \in Code : SlotCount[c] \in Nat
  BY FramesAssumption

\* Sequences of runs: the last one, and the rest.
LEMMA RunsFacts ==
  ASSUME NEW s \in Seq(Run), s # <<>>
  PROVE  /\ Len(s) \in Nat \ {0}
         /\ Last(s) \in Run /\ Last(s) = s[Len(s)]
         /\ Front(s) \in Seq(Run) /\ Len(Front(s)) = Len(s) - 1
         /\ \A k \in 1 .. Len(s) - 1 : Front(s)[k] = s[k]
         /\ \A k \in 1 .. Len(s) : s[k] \in Run
<1>1. Len(s) \in Nat \ {0} /\ Len(s) \in Int /\ Len(s) >= 1
  BY EmptySeq
<1>2. \A k \in 1 .. Len(s) : s[k] \in Run
  BY ElementOfSeq
<1>3. Last(s) \in Run /\ Last(s) = s[Len(s)]
  BY <1>1, <1>2 DEF Last
<1> DEFINE t == SubSeq(s, 1, Len(s) - 1)
<1>4. t \in Seq(Run) /\ Len(t) = Len(s) - 1 /\ \A k \in 1 .. Len(s) - 1 : t[k] = s[k]
  <2>1. 1 \in Int /\ Len(s) - 1 \in Int /\ \A i \in 1 .. Len(s) - 1 : s[i] \in Run
    BY <1>1, <1>2
  <2>2. /\ t \in Seq(Run)
        /\ Len(t) = IF 1 <= Len(s) - 1 THEN Len(s) - 1 - 1 + 1 ELSE 0
    BY <2>1, SubSeqProperties
  <2>3. \A k \in 1 .. Len(s) - 1 : t[k] = s[k]
    BY <1>1
  <2> HIDE DEF t
  <2>4. ASSUME NEW n \in Int, n >= 1
        PROVE  n - 1 = IF 1 <= n - 1 THEN n - 1 - 1 + 1 ELSE 0
    BY <2>4
  <2>5. Len(t) = Len(s) - 1
    BY <1>1, <2>2, <2>4
  <2> QED BY <2>2, <2>3, <2>5
<1>5. Front(s) = t
  BY DEF Front
<1> HIDE DEF t
<1> QED BY <1>1, <1>2, <1>3, <1>4, <1>5

\* The new machine has the invariant.
LEMMA InitInv == Init => Inv
<1> SUFFICES ASSUME Init PROVE Inv
  OBVIOUS
<1>1. Live = {} /\ Len(runs) = 0
  BY DEF Init, Live
<1>2. NoFrame \in Frame
  BY FramesAssumption DEF NoFrame, Frame, Index, Stack
<1>3. TypeOK
  <2>1. frames \in [Index -> Frame] /\ frameCount \in 0 .. FramesMax /\ stackTop \in Stack
    BY <1>2, FramesAssumption DEF Init, Stack
  <2>2. runs \in Seq(Run)
    BY EmptySeq DEF Init
  <2>3. nextId \in Nat \ {0} /\ born \in Nat /\ blocks \subseteq Block
    BY DEF Init
  <2>4. hadError \in BOOLEAN
    BY DEF Init
  <2> QED BY <1>1, <2>1, <2>2, <2>3, <2>4 DEF Init, TypeOK
<1>4. ActivationsApart /\ RunsNested /\ RunsPlaced
  BY <1>1 DEF Init, ActivationsApart, RunsNested, RunsPlaced
<1>5. Ordered /\ BlockWriters /\ FrameWriters
  BY <1>1 DEF Init, Ordered, BlockWriters, FrameWriters
<1> QED BY <1>3, <1>4, <1>5 DEF Inv

\* Pushing a frame over slots that belong to nobody keeps what the invariant
\* says of frames and blocks, whatever happens to the frames it replaces.
LEMMA PlaceKeeps ==
  ASSUME Inv, NEW c \in Code, NEW count \in Index, count <= frameCount,
         NEW at \in Stack, at + SlotCount[c] <= StackMax,
         NEW home \in Index \cup {-1}, NEW homeId \in Nat, NEW homeAct \in Nat,
         ~TopLevel(c) => Writer(c, home, homeId, homeAct),
         count > 0 => /\ runs # <<>>
                      /\ frames[count - 1].slots + SlotCount[frames[count - 1].code] <= at,
         PlaceFrame(count, NewFrame(c, at, home, homeId, homeAct)),
         blocks' = blocks
  PROVE  /\ frames' \in [Index -> Frame]
         /\ frameCount' \in 1 .. FramesMax
         /\ stackTop' \in Stack
         /\ nextId' \in Nat \ {0} /\ born' \in Nat
         /\ \A i \in Live' : frames'[i].code \in Code
         /\ Ordered'
         /\ BlockWriters'
         /\ FrameWriters'
  <1> DEFINE f == NewFrame(c, at, home, homeId, homeAct)
  <1>1. f \in Frame /\ f.code = c /\ f.slots = at /\ f.id = nextId /\ f.act = born
        /\ f.home = home /\ f.homeId = homeId /\ f.homeAct = homeAct
    BY DEF Inv, TypeOK, NewFrame, Frame
  <1>2. /\ frames' = [frames EXCEPT ![count] = f] /\ frameCount' = count + 1
        /\ stackTop' = at + SlotCount[c] /\ nextId' = nextId + 1 /\ born' = born + 1
    BY <1>1 DEF PlaceFrame
  <1> HIDE DEF f
  <1>b. /\ frames \in [Index -> Frame] /\ frameCount \in Nat
        /\ count \in 0 .. FramesMax - 1 /\ FramesMax \in Nat
    BY Bounds DEF Inv, TypeOK, Index
  <1>c. /\ \A i \in 0 .. count - 1 : i \in Live /\ i \in Index /\ i # count
        /\ Live' = (0 .. count - 1) \cup {count}
    BY <1>2, <1>b DEF Index, Live
  <1>3. /\ frames' \in [Index -> Frame] /\ frames'[count] = f
        /\ \A i \in 0 .. count - 1 : frames'[i] = frames[i] /\ i \in Live
        /\ Live' = (0 .. count - 1) \cup {count}
    BY <1>1, <1>2, <1>b, <1>c
  <1>a. ASSUME NEW i \in 0 .. count - 1
        PROVE  /\ frames[i] \in Frame /\ frames[i].act \in Nat /\ frames[i].id \in Nat
               /\ frames[i].slots \in Nat
    <2>1. i \in Index
      BY FramesAssumption DEF Index
    <2>2. frames[i] \in Frame
      BY <2>1 DEF Inv, TypeOK
    <2> QED BY <2>2 DEF Frame, Stack
  <1>d. ASSUME NEW i \in 0 .. count - 1
        PROVE  frames[i].slots <= at
    <2> DEFINE g == frames[count - 1]
    <2>1. /\ count - 1 \in 0 .. count - 1 /\ count > 0 /\ count - 1 \in Live /\ i \in Live
          /\ i = count - 1 \/ i < count - 1
      BY <1>b, <1>c
    <2>2. g.slots \in Nat /\ g.code \in Code
      BY <1>a, <2>1 DEF Inv, TypeOK
    <2>3. frames[i].slots <= g.slots /\ frames[i].slots \in Nat
      BY <1>a, <2>1, <2>2 DEF Inv, Ordered
    <2>4. g.slots + SlotCount[g.code] <= at /\ SlotCount[g.code] \in Nat /\ at \in Nat
      BY <2>1, <2>2, FramesAssumption DEF Stack
    <2> HIDE DEF g
    <2> QED BY <2>2, <2>3, <2>4
  <1>4. frameCount' \in 1 .. FramesMax /\ stackTop' \in Stack
        /\ nextId' \in Nat \ {0} /\ born' \in Nat
    BY <1>2, FramesAssumption DEF Inv, TypeOK, Index, Stack
  <1>5. \A i \in Live' : frames'[i].code \in Code
    BY <1>1, <1>3 DEF Inv, TypeOK
  <1>6. Ordered'
    <2>1. \A i \in Live' : frames'[i].id < nextId' /\ frames'[i].act < born'
      BY <1>1, <1>2, <1>3, <1>a DEF Inv, TypeOK, Ordered
    <2>2. ASSUME NEW i \in Live', NEW j \in Live', i < j
          PROVE  frames'[i].act < frames'[j].act /\ frames'[i].slots <= frames'[j].slots
      <3>1. i \in 0 .. count - 1
        BY <1>3, <2>2 DEF Index
      <3>2. CASE j = count
        BY <3>1, <3>2, <1>1, <1>3, <1>d DEF Inv, Ordered
      <3>3. CASE j \in 0 .. count - 1
        BY <3>1, <3>3, <1>3, <2>2 DEF Inv, Ordered
      <3> QED BY <3>2, <3>3, <1>3
    <2> QED BY <2>1, <2>2 DEF Ordered
  <1>7. ASSUME NEW cc, NEW h, NEW hid \in Nat, NEW ha \in Nat, Writer(cc, h, hid, ha)
        PROVE  Writer(cc, h, hid, ha)'
    <2>1. nextId \in Nat /\ born \in Nat /\ count \in Nat
      BY FramesAssumption DEF Inv, TypeOK, Index
    <2>2. /\ nextId' = nextId + 1 /\ born' = born + 1
          /\ hid < nextId /\ ha < born
      BY <1>2, <1>7 DEF Writer
    <2> QED BY <1>1, <1>2, <1>3, <1>7, <2>1, <2>2 DEF Writer
  <1>8. BlockWriters'
    BY <1>7 DEF BlockWriters, Inv, TypeOK, Block
  <1>9. FrameWriters'
    <2> SUFFICES ASSUME NEW i \in Live', ~TopLevel(frames'[i].code)
                 PROVE Writer(frames[i].code, frames[i].home,
                              frames[i].homeId, frames[i].homeAct)'
      BY DEF FrameWriters, TopLevel
    <2>1. CASE i = count
      BY <2>1, <1>1, <1>3, <1>7
    <2>2. CASE i \in 0 .. count - 1
      <3>1. frames'[i] = frames[i] /\ frames[i].homeId \in Nat /\ frames[i].homeAct \in Nat
        BY <2>2, <1>3, <1>a DEF Frame
      <3>2. Writer(frames[i].code, frames[i].home, frames[i].homeId, frames[i].homeAct)
        BY <2>2, <1>3, <3>1 DEF Inv, FrameWriters, TopLevel
      <3> QED BY <3>1, <3>2, <1>7
    <2> QED BY <2>1, <2>2, <1>3
  <1> QED BY <1>3, <1>4, <1>5, <1>6, <1>8, <1>9

\* Ending activations from the top keeps it too.
LEMMA ShrinkKeeps ==
  ASSUME Inv, NEW n \in 0 .. frameCount, frameCount' = n, frames' = frames,
         nextId' = nextId, born' = born, blocks' = blocks
  PROVE  /\ Ordered' /\ BlockWriters' /\ FrameWriters'
         /\ \A i \in Live' : i \in Live /\ frames'[i].code \in Code
  <1>0. frameCount \in Nat
    BY FramesAssumption DEF Inv, TypeOK
  <1>1. \A i \in Live' : i \in Live
    BY <1>0 DEF Live
  <1>2. \A cc, h, hid, ha : Writer(cc, h, hid, ha) => Writer(cc, h, hid, ha)'
    BY <1>1 DEF Writer
  <1>3. Ordered'
    BY <1>1 DEF Inv, Ordered
  <1>4. BlockWriters'
    BY <1>2 DEF Inv, BlockWriters
  <1>5. FrameWriters'
    BY <1>1, <1>2 DEF Inv, FrameWriters, TopLevel
  <1>6. \A i \in Live' : frames'[i].code \in Code
    BY <1>1 DEF Inv, TypeOK
  <1> QED BY <1>1, <1>3, <1>4, <1>5, <1>6

\* What is known of the running activation.
LEMMA TopFacts ==
  ASSUME Inv, runs # <<>>
  PROVE  /\ frameCount - 1 \in Live /\ frameCount - 1 \in Index /\ frameCount \in Nat
         /\ Top \in Frame /\ Top.code \in Code /\ Top.slots \in Nat
         /\ Top.id \in Nat /\ Top.act \in Nat
         /\ SlotCount[Top.code] \in Nat
         /\ Operands = stackTop - (Top.slots + SlotCount[Top.code])
         /\ Operands >= 0 /\ Operands \in Int
         /\ stackTop \in Nat /\ stackTop <= StackMax
  <1>1. frameCount - 1 \in Live /\ frameCount - 1 \in Index /\ frameCount \in Nat
    BY FramesAssumption DEF Inv, TypeOK, Live, Index
  <1>2. Top \in Frame /\ Top.code \in Code
    BY <1>1 DEF Inv, TypeOK, Top
  <1>3. Top.slots \in Nat /\ Top.id \in Nat /\ Top.act \in Nat
    BY <1>2 DEF Frame, Stack
  <1>4. SlotCount[Top.code] \in Nat
    BY <1>2, FramesAssumption
  <1>5. Top.slots + SlotCount[Top.code] <= stackTop
    BY <1>1 DEF Inv, ActivationsApart, Top
  <1>6. stackTop \in Nat /\ stackTop <= StackMax
    BY FramesAssumption DEF Inv, TypeOK, Stack
  <1>7. /\ Operands = stackTop - (Top.slots + SlotCount[Top.code])
        /\ Operands >= 0 /\ Operands \in Int
    BY <1>3, <1>4, <1>5, <1>6 DEF Operands
  <1> QED BY <1>1, <1>2, <1>3, <1>4, <1>6, <1>7

\* What is known of the innermost run_frames: its frame is in place, and its
\* caller's slots and the operands it keeps lie below its mark.
LEMMA LastFacts ==
  ASSUME Inv, runs # <<>>
  PROVE  /\ Last(runs) \in Run /\ Last(runs) = runs[Len(runs)]
         /\ Last(runs).base \in Index /\ Last(runs).base < frameCount
         /\ Last(runs).mark \in Stack /\ Last(runs).drop \in Nat
         /\ frames[Last(runs).base].slots = Last(runs).mark
         /\ Len(runs) = 1 => /\ Last(runs).base = 0 /\ Last(runs).mark = 0
                             /\ Last(runs).drop = 0
         /\ Len(runs) # 1 => /\ Last(runs).base >= 1 /\ Last(runs).drop >= 1
                             /\ Last(runs).mark - Last(runs).drop >= 0
                             /\ frames[Last(runs).base - 1].slots
                                  + SlotCount[frames[Last(runs).base - 1].code]
                                <= Last(runs).mark - Last(runs).drop
  <1>1. /\ Len(runs) \in Nat \ {0}
        /\ Last(runs) \in Run /\ Last(runs) = runs[Len(runs)]
    BY RunsFacts DEF Inv, TypeOK
  <1>2. Last(runs).base \in Index /\ Last(runs).mark \in Stack /\ Last(runs).drop \in Nat
    BY <1>1 DEF Run
  <1>3. Len(runs) \in 1 .. Len(runs)
    BY <1>1
  <1>4. Last(runs).base < frameCount /\ frames[Last(runs).base].slots = Last(runs).mark
    BY <1>1, <1>3 DEF Inv, RunsNested
  <1>5. Len(runs) = 1 => Last(runs).base = 0 /\ Last(runs).mark = 0 /\ Last(runs).drop = 0
    BY <1>1, <1>3 DEF Inv, RunsPlaced
  <1>6. ASSUME Len(runs) # 1
        PROVE  /\ Last(runs).base >= 1 /\ Last(runs).drop >= 1
               /\ frames[Last(runs).base - 1].slots
                    + SlotCount[frames[Last(runs).base - 1].code]
                  <= Last(runs).mark - Last(runs).drop
    BY <1>1, <1>3, <1>6 DEF Inv, RunsPlaced
  <1>7. ASSUME Len(runs) # 1
        PROVE  Last(runs).mark - Last(runs).drop >= 0
    <2> DEFINE g == frames[Last(runs).base - 1]
    <2>1. Last(runs).base - 1 \in Live /\ Last(runs).base - 1 \in Index
      BY <1>2, <1>4, <1>6, <1>7, Bounds DEF Inv, TypeOK, Live, Index
    <2>2. g \in Frame /\ g.code \in Code
      BY <2>1 DEF Inv, TypeOK
    <2>3. g.slots \in Nat /\ SlotCount[g.code] \in Nat
      BY <2>2, FramesAssumption DEF Frame, Stack
    <2>4. g.slots + SlotCount[g.code] <= Last(runs).mark - Last(runs).drop
      BY <1>6, <1>7
    <2>5. Last(runs).mark \in Int /\ Last(runs).drop \in Int
      BY <1>2 DEF Stack
    <2> HIDE DEF g
    <2> QED BY <2>3, <2>4, <2>5
  <1> QED BY <1>1, <1>2, <1>4, <1>5, <1>6, <1>7

\* The outermost run_frames is sol_vm_run's and no other is.
LEMMA KindFacts ==
  ASSUME Inv, runs # <<>>
  PROVE  Last(runs).kind = "run" <=> Len(runs) = 1
  <1>1. Len(runs) \in 1 .. Len(runs) /\ Last(runs) = runs[Len(runs)]
    BY RunsFacts DEF Inv, TypeOK
  <1> QED BY <1>1 DEF Inv, RunsNested

\* The innermost run's frames have their slots above its mark, and at least one
\* of them: there is always something for its caller to pop.
LEMMA MarkBelow ==
  ASSUME Inv, runs # <<>>
  PROVE  Last(runs).mark < stackTop
  <1> DEFINE base == Last(runs).base
  <1>1. /\ base \in Index /\ base < frameCount /\ frames[base].slots = Last(runs).mark
        /\ Last(runs).mark \in Stack
    BY LastFacts
  <1>2. /\ frameCount - 1 \in Live /\ frameCount \in Nat /\ Top.code \in Code
        /\ Top.slots \in Nat /\ SlotCount[Top.code] \in Nat /\ stackTop \in Nat
        /\ Operands >= 0 /\ Operands = stackTop - (Top.slots + SlotCount[Top.code])
    BY TopFacts
  <1>3. base \in Live /\ (base = frameCount - 1 \/ base < frameCount - 1)
    BY <1>1, <1>2 DEF Index, Live
  <1>4. Last(runs).mark <= Top.slots
    BY <1>1, <1>2, <1>3 DEF Inv, Ordered, Top, Stack
  <1>5. SlotCount[Top.code] >= 1
    BY <1>2, FramesAssumption
  <1>6. Last(runs).mark \in Int
    BY <1>1 DEF Stack
  <1> QED BY <1>2, <1>4, <1>5, <1>6

\* The run_frames calls in progress stay as they are when nothing at or below
\* the innermost one's first frame changes.
LEMMA RunsStay ==
  ASSUME Inv, runs # <<>>, Len(runs') = Len(runs), runs' \in Seq(Run),
         \A k \in 1 .. Len(runs) :
           /\ runs'[k].base = runs[k].base /\ runs'[k].mark = runs[k].mark
           /\ runs'[k].drop = runs[k].drop
           /\ (runs'[k].kind = "run") <=> (runs[k].kind = "run"),
         \A i \in 0 .. Last(runs).base : i < frameCount',
         \A i \in Index : i < Last(runs).base => frames'[i] = frames[i],
         frames'[Last(runs).base].slots = frames[Last(runs).base].slots,
         Len(runs) = 1 => TopLevel(frames'[Last(runs).base].code)
  PROVE  RunsNested' /\ RunsPlaced'
  <1> DEFINE n == Len(runs)
  <1>1. n \in Nat /\ n >= 1 /\ Last(runs) = runs[n]
        /\ \A k \in 1 .. n : runs[k] \in Run
    BY RunsFacts DEF Inv, TypeOK
  <1>2. ASSUME NEW k \in 1 .. n
        PROVE  /\ runs[k].base \in Index /\ runs[k].base \in 0 .. Last(runs).base
               /\ k # n => runs[k].base < Last(runs).base
    <2>1. runs[k].base \in Index /\ runs[n].base \in Index
      BY <1>1 DEF Run
    <2>2. k # n => runs[k].base < runs[n].base
      BY <1>1 DEF Inv, RunsNested
    <2> QED BY <1>1, <2>1, <2>2, FramesAssumption DEF Index
  <1>3. ASSUME NEW k \in 1 .. n
        PROVE  frames'[runs[k].base].slots = frames[runs[k].base].slots
    BY <1>1, <1>2
  <1>4. RunsNested'
    <2>1. \A k \in 1 .. n : /\ (runs[k].kind = "run") <=> (k = 1)
                            /\ \A j \in 1 .. k - 1 : runs[j].base < runs[k].base
                            /\ frames[runs[k].base].slots = runs[k].mark
      BY DEF Inv, RunsNested
    <2>2. \A k \in 1 .. n : runs'[k].base < frameCount'
      BY <1>2
    <2> QED BY <1>1, <1>3, <2>1, <2>2 DEF RunsNested
  <1>5. TopLevel(frames'[0].code)
    <2>1. CASE n = 1
      BY <2>1, LastFacts
    <2>2. CASE n # 1
      <3>1. 0 < Last(runs).base /\ 0 \in Index
        BY <2>2, LastFacts, FramesAssumption DEF Index
      <3>2. frames'[0] = frames[0] /\ TopLevel(frames[0].code)
        BY <3>1 DEF Inv, RunsPlaced
      <3> QED BY <3>2
    <2> QED BY <2>1, <2>2
  <1>6. ASSUME NEW k \in 1 .. n, k # 1
        PROVE  /\ runs[k].base >= 1 /\ runs[k].drop >= 1
               /\ frames'[runs[k].base - 1] = frames[runs[k].base - 1]
               /\ frames[runs[k].base - 1].slots
                    + SlotCount[frames[runs[k].base - 1].code]
                  <= runs[k].mark - runs[k].drop
    <2>1. /\ runs[k].base >= 1 /\ runs[k].drop >= 1
          /\ frames[runs[k].base - 1].slots
               + SlotCount[frames[runs[k].base - 1].code]
             <= runs[k].mark - runs[k].drop
      BY <1>6 DEF Inv, RunsPlaced
    <2>2. runs[k].base \in 0 .. Last(runs).base /\ Last(runs).base \in 0 .. FramesMax - 1
      BY <1>2, LastFacts DEF Index
    <2>3. runs[k].base - 1 \in Index /\ runs[k].base - 1 < Last(runs).base
      BY <2>1, <2>2, FramesAssumption DEF Index
    <2> QED BY <2>1, <2>3
  <1>7. runs[1].base = 0 /\ runs[1].mark = 0 /\ runs[1].drop = 0
    BY <1>1 DEF Inv, RunsPlaced
  <1>8. RunsPlaced'
    BY <1>1, <1>5, <1>6, <1>7 DEF RunsPlaced, TopLevel
  <1> QED BY <1>4, <1>8

\* The innermost call ends and the machine is back at its first frame.
LEMMA RunsPop ==
  ASSUME Inv, runs # <<>>, Len(runs) # 1, runs' = Front(runs),
         frames' = frames, frameCount' = Last(runs).base
  PROVE  RunsNested' /\ RunsPlaced' /\ runs' # <<>> /\ runs' \in Seq(Run)
  <1> DEFINE n == Len(runs)
  <1>0. runs \in Seq(Run)
    BY DEF Inv, TypeOK
  <1>a. n \in Nat /\ n # 0 /\ n # 1
    BY <1>0, RunsFacts
  <1> HIDE DEF n
  <1>b. n > 1
    BY <1>a
  <1> USE DEF n
  <1>1. /\ n \in Nat /\ n > 1 /\ Last(runs) = runs[n]
        /\ runs' \in Seq(Run) /\ Len(runs') = n - 1
        /\ \A k \in 1 .. n - 1 : runs'[k] = runs[k]
    BY <1>0, <1>a, <1>b, RunsFacts
  <1>2. runs' # <<>>
    BY <1>1
  <1>3. RunsNested'
    BY <1>1 DEF Inv, RunsNested
  <1>4. RunsPlaced'
    BY <1>1, <1>2 DEF Inv, RunsPlaced, TopLevel
  <1> QED BY <1>1, <1>2, <1>3, <1>4

\* A primitive starts a call of run_frames at a new frame above the others.
LEMMA RunsPush ==
  ASSUME Inv, runs # <<>>, NEW r \in Run, r.kind # "run",
         runs' = Append(runs, r), r.base = frameCount, r.drop >= 1,
         Operands >= r.drop, r.mark = stackTop,
         frameCount' = frameCount + 1, frames'[frameCount].slots = r.mark,
         \A i \in 0 .. frameCount - 1 : frames'[i] = frames[i]
  PROVE  RunsNested' /\ RunsPlaced' /\ runs' # <<>> /\ runs' \in Seq(Run)
  <1> DEFINE n == Len(runs)
  <1>1. /\ n \in Nat /\ n >= 1 /\ \A k \in 1 .. n : runs[k] \in Run
        /\ runs' \in Seq(Run) /\ Len(runs') = n + 1 /\ runs' # <<>>
        /\ \A k \in 1 .. n : runs'[k] = runs[k]
        /\ runs'[n + 1] = r
    BY RunsFacts, AppendProperties DEF Inv, TypeOK
  <1>2. ASSUME NEW k \in 1 .. n
        PROVE  runs[k].base \in 0 .. frameCount - 1
    <2>1. runs[k].base \in Index
      BY <1>1 DEF Run
    <2>2. runs[k].base < frameCount
      BY DEF Inv, RunsNested
    <2>3. frameCount \in Nat /\ FramesMax \in Nat
      BY TopFacts, FramesAssumption
    <2> QED BY <2>1, <2>2, <2>3 DEF Index
  <1>c. frameCount \in Nat
    BY TopFacts
  <1>3. RunsNested'
    <2>1. ASSUME NEW k \in 1 .. n
          PROVE  /\ (runs'[k].kind = "run") <=> (k = 1)
                 /\ runs'[k].base < frameCount'
                 /\ \A j \in 1 .. k - 1 : runs'[j].base < runs'[k].base
                 /\ frames'[runs'[k].base].slots = runs'[k].mark
      <3>1. /\ (runs[k].kind = "run") <=> (k = 1)
            /\ runs[k].base < frameCount
            /\ \A j \in 1 .. k - 1 : runs[j].base < runs[k].base
            /\ frames[runs[k].base].slots = runs[k].mark
        BY DEF Inv, RunsNested
      <3>2. runs'[k] = runs[k] /\ \A j \in 1 .. k - 1 : runs'[j] = runs[j]
        BY <1>1
      <3>3. frames'[runs[k].base] = frames[runs[k].base] /\ runs[k].base < frameCount'
        BY <1>2, <1>c
      <3> QED BY <3>1, <3>2, <3>3
    <2>2. /\ r.kind # "run" /\ n + 1 # 1
          /\ r.base < frameCount'
          /\ \A j \in 1 .. n : runs'[j].base < r.base
          /\ frames'[r.base].slots = r.mark
      BY <1>1, <1>2, <1>c
    <2> QED BY <1>1, <2>1, <2>2 DEF RunsNested
  <1>4. TopLevel(frames[0].code)' /\ frames'[0] = frames[0]
    BY TopFacts DEF Inv, RunsPlaced, TopLevel, Live
  <1>5. frames[frameCount - 1].slots + SlotCount[frames[frameCount - 1].code]
          <= r.mark - r.drop
    <2>1. /\ Top.slots \in Nat /\ SlotCount[Top.code] \in Nat /\ stackTop \in Nat
          /\ Operands = stackTop - (Top.slots + SlotCount[Top.code])
      BY TopFacts
    <2>2. r.drop \in Nat
      BY DEF Run
    <2>3. Top.slots + SlotCount[Top.code] <= r.mark - r.drop
      BY <2>1, <2>2
    <2> QED BY <2>3 DEF Top
  <1>6. frames'[frameCount - 1] = frames[frameCount - 1] /\ frameCount >= 1
    BY TopFacts DEF Live
  <1>7. RunsPlaced'
    <2>1. ASSUME NEW k \in 1 .. n, k # 1
          PROVE  /\ runs'[k].base >= 1 /\ runs'[k].drop >= 1
                 /\ frames'[runs'[k].base - 1].slots
                      + SlotCount[frames'[runs'[k].base - 1].code]
                    <= runs'[k].mark - runs'[k].drop
      <3>1. /\ runs[k].base >= 1 /\ runs[k].drop >= 1
            /\ frames[runs[k].base - 1].slots
                 + SlotCount[frames[runs[k].base - 1].code]
               <= runs[k].mark - runs[k].drop
        BY <2>1 DEF Inv, RunsPlaced
      <3>2. runs[k].base - 1 \in 0 .. frameCount - 1
        BY <1>2, <1>c, <3>1
      <3> QED BY <1>1, <3>1, <3>2
    <2>2. runs'[1].base = 0 /\ runs'[1].mark = 0 /\ runs'[1].drop = 0
      BY <1>1 DEF Inv, RunsPlaced
    <2> QED BY <1>1, <1>4, <1>5, <1>6, <2>1, <2>2 DEF RunsPlaced
  <1> QED BY <1>1, <1>3, <1>7

\* A frame pushed over what the one below it owns leaves the stack divided.
LEMMA PlaceApart ==
  ASSUME Inv, NEW c \in Code, NEW count \in Index, count <= frameCount,
         NEW at \in Stack, NEW home, NEW homeId, NEW homeAct,
         count > 0 => /\ runs # <<>>
                      /\ frames[count - 1].slots + SlotCount[frames[count - 1].code] <= at,
         PlaceFrame(count, NewFrame(c, at, home, homeId, homeAct))
  PROVE  ActivationsApart'
  <1> DEFINE f == NewFrame(c, at, home, homeId, homeAct)
  <1>1. f.slots = at /\ f.code = c
    BY DEF NewFrame
  <1>2. /\ frames' = [frames EXCEPT ![count] = f] /\ frameCount' = count + 1
        /\ stackTop' = at + SlotCount[c]
    BY <1>1 DEF PlaceFrame
  <1> HIDE DEF f
  <1>3. count \in Nat /\ frameCount \in Nat
    BY FramesAssumption DEF Index, Inv, TypeOK
  <1>4. /\ frames'[count] = f
        /\ \A i \in 0 .. count - 1 : frames'[i] = frames[i]
        /\ Live' = (0 .. count - 1) \cup {count}
    BY <1>2, <1>3, FramesAssumption DEF Inv, TypeOK, Index, Live
  <1>5. ASSUME NEW i \in 0 .. count - 1
        PROVE  frames'[i].slots + SlotCount[frames'[i].code] <= frames'[i + 1].slots
    <2>1. CASE i = count - 1
      BY <2>1, <1>1, <1>3, <1>4
    <2>2. CASE i # count - 1
      <3>1. i + 1 \in 0 .. count - 1 /\ i \in Live /\ i # frameCount - 1 /\ runs # <<>>
        BY <2>2, <1>3 DEF Live
      <3>2. frames[i].slots + SlotCount[frames[i].code] <= frames[i + 1].slots
        BY <3>1 DEF Inv, ActivationsApart
      <3> QED BY <3>1, <3>2, <1>4
    <2> QED BY <2>1, <2>2
  <1>6. frames'[count].slots + SlotCount[frames'[count].code] <= stackTop'
    BY <1>1, <1>2, <1>4, FramesAssumption DEF Stack
  <1>7. ASSUME NEW i \in Live'
        PROVE  frames'[i].slots + SlotCount[frames'[i].code]
                 <= IF i = frameCount' - 1 THEN stackTop' ELSE frames'[i + 1].slots
    <2>1. CASE i = count
      BY <2>1, <1>2, <1>3, <1>6
    <2>2. CASE i \in 0 .. count - 1
      BY <2>2, <1>2, <1>3, <1>5
    <2> QED BY <2>1, <2>2, <1>4
  <1> QED BY <1>7 DEF ActivationsApart

\* Taking frames away, and putting the stack back to a height above the slots
\* of the frame that is now on top, leaves it divided too.
LEMMA ShrinkApart ==
  ASSUME Inv, runs # <<>>, NEW n \in 1 .. frameCount, frameCount' = n,
         frames' = frames, NEW h \in Int, stackTop' = h,
         frames[n - 1].slots + SlotCount[frames[n - 1].code] <= h
  PROVE  ActivationsApart'
  <1>1. frameCount \in Nat
    BY FramesAssumption DEF Inv, TypeOK
  <1>2. Live' = 0 .. n - 1 /\ Live = 0 .. frameCount - 1
    BY DEF Live
  <1>3. ASSUME NEW i \in 0 .. n - 1, i # n - 1
        PROVE  frames[i].slots + SlotCount[frames[i].code] <= frames[i + 1].slots
    BY <1>1, <1>2, <1>3 DEF Inv, ActivationsApart
  <1> QED BY <1>1, <1>2, <1>3 DEF ActivationsApart

-----------------------------------------------------------------------------
(* One lemma per action                                                    *)

LEMMA StartInv ==
  ASSUME Inv, NEW c \in Code, Start(c)
  PROVE  Inv'
  <1>1. /\ runs = <<>> /\ TopLevel(c)
        /\ PlaceFrame(0, NewFrame(c, 0, -1, 0, 0))
        /\ runs' = <<[kind |-> "run", base |-> 0, mark |-> 0, drop |-> 0]>>
        /\ hadError' = FALSE /\ blocks' = blocks
    BY DEF Start
  <1>2. 0 \in Index /\ 0 <= frameCount /\ 0 \in Stack /\ 0 + SlotCount[c] <= StackMax
        /\ -1 \in Index \cup {-1} /\ 0 \in Nat
    BY FramesAssumption DEF Index, Stack, Inv, TypeOK
  <1>a. ~(0 > 0)
    OBVIOUS
  <1>3. /\ frames' \in [Index -> Frame] /\ frameCount' \in 1 .. FramesMax
        /\ stackTop' \in Stack /\ nextId' \in Nat \ {0} /\ born' \in Nat
        /\ \A i \in Live' : frames'[i].code \in Code
        /\ Ordered' /\ BlockWriters' /\ FrameWriters'
    BY <1>1, <1>2, <1>a, PlaceKeeps
  <1>4. ActivationsApart'
    BY <1>1, <1>2, PlaceApart
  <1>5. /\ frames' = [frames EXCEPT ![0] = NewFrame(c, 0, -1, 0, 0)]
        /\ frameCount' = 1
    BY <1>1 DEF PlaceFrame
  <1>6. frames'[0].code = c /\ frames'[0].slots = 0
    BY <1>2, <1>5 DEF Inv, TypeOK, NewFrame
  <1> DEFINE r == [kind |-> "run", base |-> 0, mark |-> 0, drop |-> 0]
  <1>7. r \in Run /\ r.kind = "run" /\ r.base = 0 /\ r.mark = 0 /\ r.drop = 0
    BY <1>2 DEF Run
  <1> HIDE DEF r
  <1>8. runs' \in Seq(Run) /\ Len(runs') = 1 /\ runs'[1] = r
    BY <1>1, <1>7 DEF r
  <1>9. RunsNested' /\ RunsPlaced'
    BY <1>1, <1>5, <1>6, <1>7, <1>8 DEF RunsNested, RunsPlaced, TopLevel
  <1>10. TypeOK'
    <2>1. hadError' \in BOOLEAN
      BY <1>1
    <2>2. frameCount' \in 0 .. FramesMax /\ frameCount' > 0
      BY <1>5, FramesAssumption
    <2>3. blocks' \subseteq Block
      BY <1>1 DEF Inv, TypeOK
    <2> QED BY <1>3, <1>8, <2>1, <2>2, <2>3 DEF TypeOK, Index, Stack, Frame, Block, Run
  <1> QED BY <1>3, <1>4, <1>9, <1>10 DEF Inv

\* Instructions that only move the stack top within the running activation,
\* and the ones that fail.
LEMMA StackMoves ==
  ASSUME Inv, runs # <<>>, NEW h \in Stack, stackTop' = h,
         Top.slots + SlotCount[Top.code] <= h, hadError' \in BOOLEAN,
         UNCHANGED <<frames, frameCount, nextId, blocks, runs, born>>
  PROVE  Inv'
  <1>1. frameCount \in 1 .. frameCount /\ frameCount \in 0 .. frameCount /\ h \in Int
    BY TopFacts, FramesAssumption DEF Live, Stack
  <1>2. ActivationsApart'
    BY <1>1, ShrinkApart DEF Top
  <1>3. Ordered' /\ BlockWriters' /\ FrameWriters'
    BY <1>1, ShrinkKeeps
  <1>4. RunsNested' /\ RunsPlaced'
    BY DEF Inv, RunsNested, RunsPlaced, TopLevel
  <1>5. TypeOK'
    BY DEF Inv, TypeOK, Live
  <1> QED BY <1>2, <1>3, <1>4, <1>5 DEF Inv

\* A block that is called: its frame has a body that is not a top level's, or
\* the homes say who wrote it.
LEMMA BlockFrameIs ==
  ASSUME Inv, NEW b \in blocks, NEW at
  PROVE  /\ b.code \in Code /\ b.home \in Index \cup {-1}
         /\ b.homeId \in Nat /\ b.homeAct \in Nat
         /\ Writer(b.code, b.home, b.homeId, b.homeAct)
         /\ BlockFrame(b, at) = NewFrame(b.code, at, b.home, b.homeId, b.homeAct)
  BY DEF Inv, TypeOK, Block, BlockWriters, BlockFrame

\* A send pushes a frame: the runs in progress stay.
LEMMA SendPlaces ==
  ASSUME Inv, runs # <<>>, NEW c \in Code, NEW at \in Stack,
         Top.slots + SlotCount[Top.code] <= at, at + SlotCount[c] <= StackMax,
         frameCount < FramesMax,
         NEW home \in Index \cup {-1}, NEW homeId \in Nat, NEW homeAct \in Nat,
         ~TopLevel(c) => Writer(c, home, homeId, homeAct),
         PlaceFrame(frameCount, NewFrame(c, at, home, homeId, homeAct)),
         blocks' = blocks, hadError' \in BOOLEAN
  PROVE  /\ ActivationsApart' /\ Ordered' /\ BlockWriters' /\ FrameWriters'
         /\ frameCount' = frameCount + 1 /\ frames'[frameCount].slots = at
         /\ \A i \in 0 .. frameCount - 1 : frames'[i] = frames[i]
         /\ runs' \in Seq(Run) => TypeOK'
  <1>0. frameCount \in Nat /\ FramesMax \in Nat
    BY TopFacts, FramesAssumption
  <1>1. frameCount \in Index /\ frameCount <= frameCount /\ frameCount \in Nat
    BY <1>0 DEF Index
  <1>2. /\ frames' \in [Index -> Frame] /\ frameCount' \in 1 .. FramesMax
        /\ stackTop' \in Stack /\ nextId' \in Nat \ {0} /\ born' \in Nat
        /\ \A i \in Live' : frames'[i].code \in Code
        /\ Ordered' /\ BlockWriters' /\ FrameWriters'
    BY <1>1, PlaceKeeps DEF Top
  <1>3. ActivationsApart'
    BY <1>1, PlaceApart DEF Top
  <1>4. /\ frames' = [frames EXCEPT ![frameCount] = NewFrame(c, at, home, homeId, homeAct)]
        /\ frameCount' = frameCount + 1
    BY DEF PlaceFrame
  <1>5. /\ frames'[frameCount].slots = at
        /\ \A i \in 0 .. frameCount - 1 : frames'[i] = frames[i]
    BY <1>1, <1>4, FramesAssumption DEF Inv, TypeOK, NewFrame, Index
  <1>6. frameCount' \in 0 .. FramesMax /\ frameCount' > 0
    BY <1>1, <1>4, FramesAssumption
  <1>7. blocks' \subseteq Block
    BY DEF Inv, TypeOK
  <1>8. runs' \in Seq(Run) => TypeOK'
    BY <1>2, <1>6, <1>7 DEF TypeOK, Index, Stack, Frame, Block, Run
  <1> QED BY <1>2, <1>3, <1>4, <1>5, <1>8

LEMMA SendBlockInv ==
  ASSUME Inv, NEW b \in blocks, NEW argc \in Argc, SendBlock(b, argc)
  PROVE  Inv'
  <1> DEFINE at == stackTop - argc - 1
  <1>1. /\ runs # <<>> /\ ~hadError /\ Operands >= argc + 1
        /\ blocks' = blocks /\ runs' = runs
    BY DEF SendBlock, Running
  <1>2. argc \in Nat
    BY DEF Argc
  <1>3. at \in Stack /\ Top.slots + SlotCount[Top.code] <= at
    <2>1. /\ Top.slots \in Nat /\ SlotCount[Top.code] \in Nat
          /\ Operands = stackTop - (Top.slots + SlotCount[Top.code])
          /\ stackTop \in Nat /\ stackTop <= StackMax /\ StackMax \in Nat
      BY <1>1, TopFacts, FramesAssumption
    <2>2. stackTop - (Top.slots + SlotCount[Top.code]) >= argc + 1
      BY <1>1, <2>1
    <2> QED BY <1>2, <2>1, <2>2 DEF Stack
  <1>4. CASE CanPush(b.code, argc, frameCount, at)
    <2>1. PlaceFrame(frameCount, BlockFrame(b, at)) /\ hadError' = hadError
      BY <1>4 DEF SendBlock
    <2>2. at + SlotCount[b.code] <= StackMax /\ frameCount < FramesMax
      BY <1>4 DEF CanPush
    <2>3. hadError' \in BOOLEAN
      BY <2>1 DEF Inv, TypeOK
    <2> HIDE DEF at
    <2>4. /\ ActivationsApart' /\ Ordered' /\ BlockWriters' /\ FrameWriters'
          /\ frameCount' = frameCount + 1
          /\ \A i \in 0 .. frameCount - 1 : frames'[i] = frames[i]
          /\ runs' \in Seq(Run) => TypeOK'
      BY <1>1, <1>3, <2>1, <2>2, <2>3, BlockFrameIs, SendPlaces
    <2>5. TypeOK'
      BY <1>1, <2>4 DEF Inv, TypeOK
    <2>6. Last(runs).base \in Index /\ Last(runs).base < frameCount /\ frameCount \in Nat
          /\ Last(runs).base \in Nat
      BY <1>1, LastFacts, TopFacts DEF Index
    <2>7. /\ \A i \in 0 .. Last(runs).base : i < frameCount'
          /\ \A i \in Index : i < Last(runs).base => frames'[i] = frames[i]
          /\ frames'[Last(runs).base] = frames[Last(runs).base]
      BY <2>4, <2>6 DEF Index
    <2>8. Len(runs) = 1 => TopLevel(frames'[Last(runs).base].code)
      BY <1>1, <2>7, LastFacts DEF Inv, RunsPlaced
    <2>9. RunsNested' /\ RunsPlaced'
      BY <1>1, <2>7, <2>8, RunsStay DEF Inv, TypeOK
    <2> QED BY <2>4, <2>5, <2>9 DEF Inv
  <1>5. CASE ~CanPush(b.code, argc, frameCount, at)
    <2>1. hadError' = TRUE /\ UNCHANGED <<frames, frameCount, stackTop, nextId, born>>
      BY <1>5 DEF SendBlock
    <2>2. stackTop \in Stack /\ Top.slots + SlotCount[Top.code] <= stackTop
      BY <1>1, TopFacts DEF Stack
    <2> QED BY <1>1, <2>1, <2>2, StackMoves
  <1> QED BY <1>4, <1>5

\* A primitive's operands, and the room below them.
LEMMA DropFacts ==
  ASSUME Inv, runs # <<>>, NEW drop \in Drops, Operands >= drop
  PROVE  /\ drop \in Nat /\ drop >= 1
         /\ stackTop - drop \in Stack /\ stackTop \in Stack
         /\ Top.slots + SlotCount[Top.code] <= stackTop - drop
         /\ Top.slots + SlotCount[Top.code] <= stackTop
  <1>1. drop \in Nat /\ drop >= 1
    BY DEF Drops
  <1>2. /\ Top.slots \in Nat /\ SlotCount[Top.code] \in Nat
        /\ Operands = stackTop - (Top.slots + SlotCount[Top.code])
        /\ stackTop \in Nat /\ stackTop <= StackMax /\ StackMax \in Nat
    BY TopFacts, FramesAssumption
  <1>3. stackTop - (Top.slots + SlotCount[Top.code]) >= drop
    BY <1>2
  <1> QED BY <1>1, <1>2, <1>3 DEF Stack

\* A primitive enters run_frames with a frame of code c.
LEMMA RunEnters ==
  ASSUME Inv, runs # <<>>, NEW kind \in {"chunk", "block", "guard"},
         NEW c \in Code, NEW drop \in Drops, Operands >= drop,
         stackTop + SlotCount[c] <= StackMax, frameCount < FramesMax,
         NEW home \in Index \cup {-1}, NEW homeId \in Nat, NEW homeAct \in Nat,
         ~TopLevel(c) => Writer(c, home, homeId, homeAct),
         PlaceFrame(frameCount, NewFrame(c, stackTop, home, homeId, homeAct)),
         runs' = Append(runs, [kind |-> kind, base |-> frameCount,
                               mark |-> stackTop, drop |-> drop]),
         blocks' = blocks, hadError' = hadError
  PROVE  Inv'
  <1> DEFINE r == [kind |-> kind, base |-> frameCount, mark |-> stackTop, drop |-> drop]
  <1>1. /\ drop \in Nat /\ drop >= 1 /\ stackTop \in Stack
        /\ Top.slots + SlotCount[Top.code] <= stackTop
    BY DropFacts
  <1>2. frameCount \in Index
    BY TopFacts, FramesAssumption DEF Index
  <1>3. r \in Run
    BY <1>1, <1>2 DEF Run
  <1>4. /\ r.kind # "run" /\ r.base = frameCount /\ r.mark = stackTop /\ r.drop = drop
        /\ runs' = Append(runs, r)
    OBVIOUS
  <1> HIDE DEF r
  <1>5. hadError' \in BOOLEAN
    BY DEF Inv, TypeOK
  <1>6. /\ ActivationsApart' /\ Ordered' /\ BlockWriters' /\ FrameWriters'
        /\ frameCount' = frameCount + 1 /\ frames'[frameCount].slots = stackTop
        /\ \A i \in 0 .. frameCount - 1 : frames'[i] = frames[i]
        /\ runs' \in Seq(Run) => TypeOK'
    BY <1>1, <1>5, SendPlaces
  <1>7. RunsNested' /\ RunsPlaced' /\ runs' \in Seq(Run)
    BY <1>1, <1>3, <1>4, <1>6, RunsPush
  <1> QED BY <1>6, <1>7 DEF Inv

LEMMA CallBlockInv ==
  ASSUME Inv, NEW b \in blocks, NEW argc \in Argc, NEW drop \in Drops,
         NEW kind \in {"chunk", "block", "guard"}, CallBlock(kind, b, argc, drop)
  PROVE  Inv'
  <1>1. runs # <<>> /\ ~hadError /\ Operands >= drop /\ blocks' = blocks
    BY DEF CallBlock, Running
  <1>2. CASE CanPush(b.code, argc, frameCount, stackTop)
    <2>1. /\ PlaceFrame(frameCount, BlockFrame(b, stackTop)) /\ hadError' = hadError
          /\ runs' = Append(runs, [kind |-> kind, base |-> frameCount,
                                   mark |-> stackTop, drop |-> drop])
      BY <1>2 DEF CallBlock
    <2>2. stackTop + SlotCount[b.code] <= StackMax /\ frameCount < FramesMax
      BY <1>2 DEF CanPush
    <2>3. /\ b.code \in Code /\ b.home \in Index \cup {-1}
          /\ b.homeId \in Nat /\ b.homeAct \in Nat
          /\ Writer(b.code, b.home, b.homeId, b.homeAct)
          /\ PlaceFrame(frameCount,
               NewFrame(b.code, stackTop, b.home, b.homeId, b.homeAct))
      BY <2>1, BlockFrameIs
    <2> QED BY <1>1, <2>1, <2>2, <2>3, RunEnters
  <1>3. CASE ~CanPush(b.code, argc, frameCount, stackTop)
    <2>1. /\ hadError' = TRUE /\ stackTop' = stackTop - drop
          /\ UNCHANGED <<frames, frameCount, nextId, born, runs>>
      BY <1>3 DEF CallBlock
    <2> QED BY <1>1, <2>1, DropFacts, StackMoves
  <1> QED BY <1>2, <1>3

LEMMA CallGuardedInv ==
  ASSUME Inv, NEW b \in blocks, NEW h \in blocks, CallGuarded(b, h)
  PROVE  Inv'
  <1>1. CallBlock("guard", b, 0, 2) \/ CallBlock("block", h, 1, 2)
    BY DEF CallGuarded
  <1>2. 0 \in Argc /\ 1 \in Argc /\ 2 \in Drops
    BY DEF Argc, Drops
  <1> QED BY <1>1, <1>2, CallBlockInv

LEMMA CallChunkInv ==
  ASSUME Inv, NEW c \in Code, NEW drop \in Drops, CallChunk(c, drop)
  PROVE  Inv'
  <1>1. runs # <<>> /\ ~hadError /\ Operands >= drop /\ blocks' = blocks /\ TopLevel(c)
    BY DEF CallChunk, Running
  <1>2. CASE frameCount < FramesMax /\ stackTop + SlotCount[c] <= StackMax
    <2>1. /\ PlaceFrame(frameCount, NewFrame(c, stackTop, -1, 0, 0))
          /\ hadError' = hadError
          /\ runs' = Append(runs, [kind |-> "chunk", base |-> frameCount,
                                   mark |-> stackTop, drop |-> drop])
      BY <1>2 DEF CallChunk
    <2> QED BY <1>1, <1>2, <2>1, RunEnters
  <1>3. CASE ~(frameCount < FramesMax /\ stackTop + SlotCount[c] <= StackMax)
    <2>1. /\ hadError' = TRUE /\ stackTop' = stackTop - drop
          /\ UNCHANGED <<frames, frameCount, nextId, born, runs>>
      BY <1>3 DEF CallChunk
    <2> QED BY <1>1, <2>1, DropFacts, StackMoves
  <1> QED BY <1>2, <1>3

LEMMA PushValueInv == ASSUME Inv, PushValue PROVE Inv'
  <1>1. runs # <<>> /\ UNCHANGED <<frames, frameCount, nextId, blocks, runs, born>>
    BY DEF PushValue, Running
  <1>2. CASE stackTop = StackMax
    <2>1. hadError' = TRUE /\ stackTop' = stackTop
      BY <1>2 DEF PushValue
    <2>2. stackTop \in Stack /\ Top.slots + SlotCount[Top.code] <= stackTop
      BY <1>1, TopFacts DEF Stack
    <2> QED BY <1>1, <2>1, <2>2, StackMoves
  <1>3. CASE stackTop # StackMax
    <2>1. hadError' = hadError /\ stackTop' = stackTop + 1
      BY <1>3 DEF PushValue
    <2>2. hadError' \in BOOLEAN
      BY <2>1 DEF Inv, TypeOK
    <2>a. /\ stackTop \in Nat /\ stackTop <= StackMax /\ StackMax \in Nat
          /\ Top.slots \in Nat /\ SlotCount[Top.code] \in Nat
          /\ Top.slots + SlotCount[Top.code] <= stackTop
      BY <1>1, TopFacts, Bounds
    <2>3. stackTop + 1 \in Stack /\ Top.slots + SlotCount[Top.code] <= stackTop + 1
      BY <2>a, <1>3 DEF Stack
    <2> QED BY <1>1, <2>1, <2>2, <2>3, StackMoves
  <1> QED BY <1>2, <1>3

LEMMA PopValueInv == ASSUME Inv, PopValue PROVE Inv'
  <1>1. /\ runs # <<>> /\ UNCHANGED <<frames, frameCount, nextId, blocks, runs, born>>
        /\ hadError' = hadError /\ stackTop' = stackTop - 1 /\ Operands > 0
    BY DEF PopValue, Running
  <1>2. hadError' \in BOOLEAN
    BY <1>1 DEF Inv, TypeOK
  <1>3. stackTop - 1 \in Stack /\ Top.slots + SlotCount[Top.code] <= stackTop - 1
    <2>1. /\ Top.slots \in Nat /\ SlotCount[Top.code] \in Nat
          /\ stackTop - (Top.slots + SlotCount[Top.code]) > 0
          /\ stackTop \in Nat /\ stackTop <= StackMax /\ StackMax \in Nat
      BY <1>1, TopFacts, FramesAssumption
    <2> QED BY <2>1 DEF Stack
  <1> QED BY <1>1, <1>2, <1>3, StackMoves

LEMMA FailInv == ASSUME Inv, Fail \/ OuterIsGone PROVE Inv'
  <1>1. /\ runs # <<>> /\ hadError' = TRUE
        /\ UNCHANGED <<frames, frameCount, stackTop, nextId, blocks, runs, born>>
    BY DEF Fail, OuterIsGone, Running
  <1>2. stackTop \in Stack /\ Top.slots + SlotCount[Top.code] <= stackTop
    BY <1>1, TopFacts DEF Stack
  <1> QED BY <1>1, <1>2, StackMoves

LEMMA MakeBlockInv == ASSUME Inv, NEW c \in Code, MakeBlock(c) PROVE Inv'
  <1> DEFINE b == [code |-> c, home |-> frameCount - 1, homeId |-> Top.id,
                   homeAct |-> Top.act]
  <1>1. /\ runs # <<>> /\ UNCHANGED <<frames, frameCount, nextId, runs, born>>
        /\ Encloser[c] = Top.code /\ blocks' = blocks \cup {b}
    BY DEF MakeBlock, Running
  <1>2. /\ b \in Block /\ b.code = c /\ b.home = frameCount - 1
        /\ b.homeId = Top.id /\ b.homeAct = Top.act
    BY <1>1, TopFacts DEF Block
  <1> HIDE DEF b
  <1>3. stackTop' \in Stack /\ Top.slots + SlotCount[Top.code] <= stackTop'
    <2>1. /\ stackTop \in Nat /\ stackTop <= StackMax /\ StackMax \in Nat
          /\ Top.slots \in Nat /\ SlotCount[Top.code] \in Nat
          /\ Top.slots + SlotCount[Top.code] <= stackTop
      BY <1>1, TopFacts, Bounds
    <2>2. CASE stackTop = StackMax
      <3>1. stackTop' = stackTop
        BY <2>2 DEF MakeBlock
      <3> QED BY <2>1, <3>1 DEF Stack
    <2>3. CASE stackTop # StackMax
      <3>1. stackTop' = stackTop + 1
        BY <2>3 DEF MakeBlock
      <3> QED BY <2>1, <2>3, <3>1 DEF Stack
    <2> QED BY <2>2, <2>3
  <1>4. hadError' \in BOOLEAN
    <2>1. hadError' = TRUE \/ hadError' = hadError
      BY DEF MakeBlock
    <2> QED BY <2>1 DEF Inv, TypeOK
  <1>5. PICK h \in Stack : stackTop' = h /\ Top.slots + SlotCount[Top.code] <= h
    BY <1>3
  <1>6. frameCount \in 1 .. frameCount /\ frameCount \in 0 .. frameCount /\ h \in Int
    BY <1>1, TopFacts, Bounds DEF Live, Stack
  <1>7. ActivationsApart'
    BY <1>1, <1>5, <1>6, ShrinkApart DEF Top
  <1>8. Ordered' /\ FrameWriters'
    BY <1>1 DEF Inv, Ordered, FrameWriters, Writer, Live, TopLevel
  <1>9. RunsNested' /\ RunsPlaced'
    BY <1>1 DEF Inv, RunsNested, RunsPlaced, TopLevel
  <1>10. TypeOK'
    BY <1>1, <1>2, <1>3, <1>4 DEF Inv, TypeOK, Live
  <1>11. Writer(b.code, b.home, b.homeId, b.homeAct)
    <2>1. frameCount - 1 \in Live /\ Top.id < nextId /\ Top.act < born
      BY <1>1, TopFacts DEF Inv, Ordered, Top
    <2>2. ASSUME NEW j \in Live, j # frameCount - 1
          PROVE  frames[j].act # Top.act
      <3>0. /\ j \in Nat /\ j < frameCount /\ frameCount \in Nat
            /\ FramesMax \in Nat /\ frameCount <= FramesMax
        BY <1>1, TopFacts, Bounds DEF Live, Index
      <3>1. j < frameCount - 1 /\ j \in Index
        BY <2>2, <3>0 DEF Index
      <3>2. frames[j].act < Top.act
        BY <2>1, <3>1 DEF Inv, Ordered, Top
      <3>3. frames[j] \in Frame
        BY <3>1 DEF Inv, TypeOK
      <3> QED BY <1>1, <3>2, <3>3, TopFacts DEF Frame
    <2>3. frames[frameCount - 1].act = Top.act /\ frames[frameCount - 1].id = Top.id
          /\ frames[frameCount - 1].code = Encloser[c]
      BY <1>1 DEF Top
    <2> QED BY <1>2, <2>1, <2>2, <2>3 DEF Writer
  <1>12. BlockWriters'
    BY <1>1, <1>11 DEF Inv, BlockWriters, Writer, Live
  <1> QED BY <1>7, <1>8, <1>9, <1>10, <1>12 DEF Inv

\* Frames go from the top, down to one that keeps its slots.
LEMMA EndsInv ==
  ASSUME Inv, runs # <<>>, NEW n \in 1 .. frameCount, frameCount' = n,
         NEW h \in Stack, stackTop' = h,
         frames[n - 1].slots + SlotCount[frames[n - 1].code] <= h,
         UNCHANGED <<frames, nextId, blocks, born>>, hadError' \in BOOLEAN,
         RunsNested', RunsPlaced', runs' \in Seq(Run)
  PROVE  Inv'
  <1>1. n \in 0 .. frameCount /\ h \in Int /\ n \in 0 .. FramesMax /\ n > 0
    BY FramesAssumption DEF Stack, Inv, TypeOK
  <1>2. ActivationsApart'
    BY <1>1, ShrinkApart
  <1>3. /\ Ordered' /\ BlockWriters' /\ FrameWriters'
        /\ \A i \in Live' : i \in Live /\ frames'[i].code \in Code
    BY <1>1, ShrinkKeeps
  <1>4. TypeOK'
    BY <1>1, <1>3 DEF Inv, TypeOK
  <1> QED BY <1>2, <1>3, <1>4 DEF Inv

\* The machine stops: no run_frames is left.
LEMMA StopsInv ==
  ASSUME Inv, NEW n \in 0 .. frameCount, frameCount' = n, runs' = <<>>,
         stackTop' \in Stack, hadError' \in BOOLEAN,
         UNCHANGED <<frames, nextId, blocks, born>>
  PROVE  Inv'
  <1>1. /\ Ordered' /\ BlockWriters' /\ FrameWriters'
        /\ \A i \in Live' : i \in Live /\ frames'[i].code \in Code
    BY ShrinkKeeps
  <1>2. runs' \in Seq(Run) /\ Len(runs') = 0
    BY EmptySeq
  <1>3. ActivationsApart' /\ RunsNested' /\ RunsPlaced'
    BY <1>2 DEF ActivationsApart, RunsNested, RunsPlaced
  <1>4. n \in 0 .. FramesMax
    BY FramesAssumption DEF Inv, TypeOK
  <1>5. TypeOK'
    BY <1>1, <1>2, <1>4 DEF Inv, TypeOK
  <1> QED BY <1>1, <1>3, <1>5 DEF Inv

\* The innermost call of run_frames ends and others go on.
LEMMA PopsInv ==
  ASSUME Inv, runs # <<>>, Len(runs) # 1, runs' = Front(runs),
         frameCount' = Last(runs).base,
         NEW h \in Int, stackTop' = h,
         Last(runs).mark - Last(runs).drop <= h, h <= StackMax,
         UNCHANGED <<frames, nextId, blocks, born>>, hadError' \in BOOLEAN
  PROVE  Inv'
  <1> DEFINE n == Last(runs).base
  <1> DEFINE g == frames[n - 1]
  <1>1. /\ n \in Index /\ n < frameCount /\ n >= 1
        /\ Last(runs).mark \in Stack /\ Last(runs).drop \in Nat
        /\ Last(runs).mark - Last(runs).drop >= 0
        /\ g.slots + SlotCount[g.code] <= Last(runs).mark - Last(runs).drop
    BY LastFacts
  <1>2. n \in 1 .. frameCount /\ n - 1 \in Live /\ n - 1 \in Index
    <2>1. frameCount \in Nat /\ FramesMax \in Nat /\ n \in 0 .. FramesMax - 1
      BY <1>1, TopFacts, FramesAssumption DEF Index
    <2> HIDE DEF n
    <2> QED BY <1>1, <2>1 DEF Index, Live
  <1>3. g \in Frame /\ g.code \in Code
    BY <1>2 DEF Inv, TypeOK
  <1>4. g.slots \in Nat /\ SlotCount[g.code] \in Nat
    BY <1>3, FramesAssumption DEF Frame, Stack
  <1>5. h \in Stack /\ g.slots + SlotCount[g.code] <= h
    <2> HIDE DEF g
    <2> QED BY <1>1, <1>4, FramesAssumption DEF Stack
  <1>6. RunsNested' /\ RunsPlaced' /\ runs' \in Seq(Run)
    BY RunsPop
  <1> QED BY <1>2, <1>5, <1>6, EndsInv

LEMMA ReturnInv == ASSUME Inv, Return PROVE Inv'
  <1>1. /\ runs # <<>> /\ Operands >= 1
        /\ UNCHANGED <<frames, nextId, blocks, hadError, born>>
    BY DEF Return, Running
  <1>2. hadError' \in BOOLEAN
    BY <1>1 DEF Inv, TypeOK
  <1>3. CASE frameCount - 1 = Last(runs).base /\ Last(runs).kind # "run"
    <2>1. /\ frameCount' = Last(runs).base /\ runs' = Front(runs)
          /\ stackTop' = Top.slots - Last(runs).drop + 1
      BY <1>3 DEF Return, Finished
    <2>2. Len(runs) # 1
      BY <1>1, <1>3, KindFacts
    <2>3. /\ Top.slots = Last(runs).mark /\ Last(runs).drop >= 1
          /\ Last(runs).drop \in Nat /\ Last(runs).mark \in 0 .. StackMax
      BY <1>1, <1>3, <2>2, LastFacts DEF Top, Stack
    <2>4. PICK h \in Int : /\ stackTop' = h /\ Last(runs).mark - Last(runs).drop <= h
                          /\ h <= StackMax
      BY <2>1, <2>3, FramesAssumption
    <2> QED BY <1>1, <1>2, <2>1, <2>2, <2>4, PopsInv
  <1>4. CASE frameCount - 1 # Last(runs).base
    <2>0. frameCount # 1
      BY <1>1, <1>4, LastFacts, Bounds DEF Index
    <2>1. frameCount' = frameCount - 1 /\ stackTop' = Top.slots + 1 /\ runs' = runs
      BY <1>4, <2>0 DEF Return
    <2>2. /\ frameCount \in Nat /\ Last(runs).base \in Nat
          /\ Last(runs).base < frameCount - 1 /\ FramesMax \in Nat
      <3>1. frameCount \in Nat /\ Last(runs).base \in Nat /\ Last(runs).base < frameCount
        BY <1>1, TopFacts, LastFacts, FramesAssumption DEF Index
      <3> QED BY <1>4, <3>1, FramesAssumption
    <2>3. /\ frameCount - 1 \in 1 .. frameCount /\ frameCount - 2 \in Live
          /\ frameCount - 2 # frameCount - 1 /\ frameCount - 2 + 1 = frameCount - 1
          /\ frameCount - 1 - 1 = frameCount - 2
      BY <2>2 DEF Live
    <2>4. frames[frameCount - 2].slots + SlotCount[frames[frameCount - 2].code] <= Top.slots
      BY <1>1, <2>3 DEF Inv, ActivationsApart, Top
    <2>5. frames[frameCount - 2] \in Frame /\ frames[frameCount - 2].code \in Code
      BY <2>2, <2>3, FramesAssumption DEF Inv, TypeOK, Live, Index
    <2>6. /\ frames[frameCount - 2].slots \in Nat
          /\ SlotCount[frames[frameCount - 2].code] \in Nat
      BY <2>5, FramesAssumption DEF Frame, Stack
    <2>7. /\ Top.slots + 1 \in Stack
          /\ frames[frameCount - 2].slots + SlotCount[frames[frameCount - 2].code]
               <= Top.slots + 1
      <3>1. /\ Top.slots \in Nat /\ SlotCount[Top.code] \in Nat
            /\ stackTop - (Top.slots + SlotCount[Top.code]) >= 1
            /\ stackTop \in Nat /\ stackTop <= StackMax /\ StackMax \in Nat
        BY <1>1, TopFacts, FramesAssumption
      <3>2. Top.slots + 1 \in Stack
        BY <3>1 DEF Stack
      <3> QED BY <2>4, <2>6, <3>1, <3>2
    <2>8. runs' \in Seq(Run)
      BY <2>1 DEF Inv, TypeOK
    <2>9. \A i \in 0 .. Last(runs).base : i < frameCount'
      BY <2>1, <2>2
    <2>10. Len(runs) = 1 => TopLevel(frames'[Last(runs).base].code)
      BY <1>1, LastFacts DEF Inv, RunsPlaced
    <2>11. RunsNested' /\ RunsPlaced'
      BY <1>1, <2>1, <2>8, <2>9, <2>10, RunsStay
    <2> QED BY <1>1, <1>2, <2>1, <2>3, <2>7, <2>8, <2>11, EndsInv
  <1>5. CASE frameCount - 1 = Last(runs).base /\ Last(runs).kind = "run"
    <2>1. Len(runs) = 1
      BY <1>1, <1>5, KindFacts
    <2>2. frameCount = 1
      BY <1>1, <1>5, <2>1, LastFacts, TopFacts
    <2>3. frameCount' = 0 /\ stackTop' = Top.slots + 1 /\ runs' = <<>>
      BY <1>5, <2>2 DEF Return
    <2>4. Top.slots + 1 \in Stack
      <3>1. /\ Top.slots \in Nat /\ SlotCount[Top.code] \in Nat
            /\ stackTop - (Top.slots + SlotCount[Top.code]) >= 1
            /\ stackTop \in Nat /\ stackTop <= StackMax /\ StackMax \in Nat
        BY <1>1, TopFacts, FramesAssumption
      <3> QED BY <3>1 DEF Stack
    <2> QED BY <1>1, <1>2, <2>2, <2>3, <2>4, StopsInv
  <1> QED BY <1>3, <1>4, <1>5

LEMMA HaltInv == ASSUME Inv, Halt PROVE Inv'
  <1>1. /\ runs # <<>> /\ UNCHANGED <<frames, nextId, blocks, hadError, born>>
    BY DEF Halt, Running
  <1>2. hadError' \in BOOLEAN
    BY <1>1 DEF Inv, TypeOK
  <1>3. CASE Last(runs).kind = "run"
    <2>1. runs' = <<>> /\ frameCount' = frameCount /\ stackTop' = stackTop
      BY <1>3 DEF Halt
    <2>2. frameCount \in 0 .. frameCount /\ stackTop' \in Stack
      BY <1>1, <2>1, TopFacts DEF Inv, TypeOK
    <2> QED BY <1>1, <1>2, <2>1, <2>2, StopsInv
  <1>4. CASE Last(runs).kind # "run"
    <2>1. PICK height \in {stackTop - 1, Last(runs).mark} : Finished(height)
      BY <1>4 DEF Halt
    <2>2. /\ frameCount' = Last(runs).base /\ runs' = Front(runs)
          /\ stackTop' = height - Last(runs).drop + 1
      BY <2>1 DEF Finished
    <2>3. Len(runs) # 1
      BY <1>1, <1>4, KindFacts
    <2>4. /\ Last(runs).drop >= 1 /\ Last(runs).drop \in Nat
          /\ Last(runs).mark \in 0 .. StackMax
      BY <1>1, <2>3, LastFacts DEF Stack
    <2>5. height \in Int /\ Last(runs).mark <= height /\ height <= StackMax
      <3>1. Last(runs).mark < stackTop /\ stackTop \in Nat /\ stackTop <= StackMax
        BY <1>1, MarkBelow, TopFacts
      <3> QED BY <2>4, <3>1, FramesAssumption
    <2>6. PICK h \in Int : /\ stackTop' = h /\ Last(runs).mark - Last(runs).drop <= h
                          /\ h <= StackMax
      BY <2>2, <2>4, <2>5, FramesAssumption
    <2> QED BY <1>1, <1>2, <2>2, <2>3, <2>6, PopsInv
  <1> QED BY <1>3, <1>4

LEMMA UnwindInv == ASSUME Inv, Unwind PROVE Inv'
  <1>1. /\ runs # <<>> /\ UNCHANGED <<frames, nextId, blocks, hadError, born>>
        /\ frameCount' = Last(runs).base /\ runs' = Front(runs)
        /\ stackTop' = Last(runs).mark - Last(runs).drop
    BY DEF Unwind
  <1>2. hadError' \in BOOLEAN
    BY <1>1 DEF Inv, TypeOK
  <1>3. CASE Len(runs) = 1
    <2>1. frameCount' = 0 /\ stackTop' = 0
      BY <1>1, <1>3, LastFacts
    <2>2. Front(runs) \in Seq(Run) /\ Len(Front(runs)) = 0
      BY <1>1, <1>3, RunsFacts DEF Inv, TypeOK
    <2>3. runs' = <<>>
      BY <1>1, <2>2, EmptySeq
    <2>4. 0 \in 0 .. frameCount /\ stackTop' \in Stack
      BY <1>1, <2>1, TopFacts, FramesAssumption DEF Stack
    <2> QED BY <1>1, <1>2, <2>1, <2>3, <2>4, StopsInv
  <1>4. CASE Len(runs) # 1
    <2>1. Last(runs).drop \in Nat /\ Last(runs).mark \in 0 .. StackMax
      BY <1>1, LastFacts DEF Stack
    <2>2. PICK h \in Int : /\ stackTop' = h /\ Last(runs).mark - Last(runs).drop <= h
                          /\ h <= StackMax
      BY <1>1, <2>1, FramesAssumption
    <2> QED BY <1>1, <1>2, <1>4, <2>2, PopsInv
  <1> QED BY <1>3, <1>4

LEMMA CatchInv == ASSUME Inv, NEW b \in blocks, Catch(b) PROVE Inv'
  <1> DEFINE r == Last(runs)
  <1>1. runs # <<>> /\ r.kind = "guard" /\ blocks' = blocks
    BY DEF Catch
  <1>2. /\ Len(runs) \in 1 .. Len(runs) /\ r = runs[Len(runs)] /\ r \in Run
        /\ runs \in Seq(Run) /\ Len(runs) \in Nat
    BY <1>1, RunsFacts DEF Inv, TypeOK
  <1>3. Len(runs) # 1
    BY <1>1, <1>2 DEF Inv, RunsNested
  <1>4. /\ r.base \in Index /\ r.base < frameCount /\ r.base >= 1
        /\ r.mark \in Stack /\ r.drop \in Nat /\ r.drop >= 1
        /\ frames[r.base].slots = r.mark
        /\ frames[r.base - 1].slots + SlotCount[frames[r.base - 1].code] <= r.mark - r.drop
    BY <1>1, <1>3, LastFacts
  <1>5. /\ r.mark \in Nat /\ r.base <= frameCount /\ r.base \in Nat /\ frameCount \in Nat
    BY <1>1, <1>4, TopFacts, Bounds DEF Stack, Index
  <1>6. CASE CanPush(b.code, 1, r.base, r.mark)
    <2>1. /\ PlaceFrame(r.base, BlockFrame(b, r.mark)) /\ hadError' = FALSE
          /\ runs' = [runs EXCEPT ![Len(runs)].kind = "block"]
      BY <1>6 DEF Catch
    <2>2. r.mark + SlotCount[b.code] <= StackMax
      BY <1>6 DEF CanPush
    <2>3. /\ b.code \in Code /\ b.home \in Index \cup {-1}
          /\ b.homeId \in Nat /\ b.homeAct \in Nat
          /\ Writer(b.code, b.home, b.homeId, b.homeAct)
          /\ PlaceFrame(r.base,
               NewFrame(b.code, r.mark, b.home, b.homeId, b.homeAct))
      BY <2>1, BlockFrameIs
    <2>4. frames[r.base - 1].slots + SlotCount[frames[r.base - 1].code] <= r.mark
      <3> DEFINE g == frames[r.base - 1]
      <3>1. r.base - 1 \in Live /\ r.base - 1 \in Index
        BY <1>4, <1>5, FramesAssumption DEF Live, Index
      <3>2. g \in Frame /\ g.code \in Code
        BY <3>1 DEF Inv, TypeOK
      <3>3. g.slots \in Nat /\ SlotCount[g.code] \in Nat
        BY <3>2, FramesAssumption DEF Frame, Stack
      <3> HIDE DEF g
      <3>4. g.slots + SlotCount[g.code] <= r.mark - r.drop
        BY <1>4 DEF g
      <3> QED BY <1>4, <1>5, <3>3, <3>4 DEF g
    <2>5. ActivationsApart'
      BY <1>1, <1>4, <1>5, <2>3, <2>4, PlaceApart
    <2>6. /\ frames' \in [Index -> Frame] /\ frameCount' \in 1 .. FramesMax
          /\ stackTop' \in Stack /\ nextId' \in Nat \ {0} /\ born' \in Nat
          /\ \A i \in Live' : frames'[i].code \in Code
          /\ Ordered' /\ BlockWriters' /\ FrameWriters'
      BY <1>1, <1>4, <1>5, <2>2, <2>3, <2>4, PlaceKeeps
    <2>7. /\ frames' = [frames EXCEPT ![r.base] =
                          NewFrame(b.code, r.mark, b.home, b.homeId, b.homeAct)]
          /\ frameCount' = r.base + 1
      BY <2>3 DEF PlaceFrame
    <2>8. /\ frames'[r.base].slots = r.mark
          /\ \A i \in Index : i < r.base => frames'[i] = frames[i]
      BY <1>4, <1>5, <2>7 DEF Inv, TypeOK, NewFrame
    <2>9. /\ runs' \in Seq(Run) /\ Len(runs') = Len(runs)
          /\ \A k \in 1 .. Len(runs) :
               /\ runs'[k].base = runs[k].base /\ runs'[k].mark = runs[k].mark
               /\ runs'[k].drop = runs[k].drop
               /\ (runs'[k].kind = "run") <=> (runs[k].kind = "run")
      <3>1. [r EXCEPT !.kind = "block"] \in Run
        BY <1>2 DEF Run
      <3>2. runs' = [runs EXCEPT ![Len(runs)] = [r EXCEPT !.kind = "block"]]
        BY <1>2, <2>1
      <3>3. runs' \in Seq(Run) /\ Len(runs') = Len(runs)
        BY <1>2, <3>1, <3>2
      <3>4. \A k \in 1 .. Len(runs) : k # Len(runs) => runs'[k] = runs[k]
        BY <1>2, <3>2
      <3>5. /\ runs'[Len(runs)].base = r.base /\ runs'[Len(runs)].mark = r.mark
            /\ runs'[Len(runs)].drop = r.drop /\ runs'[Len(runs)].kind = "block"
        BY <1>2, <3>2 DEF Run
      <3> QED BY <1>1, <1>2, <3>3, <3>4, <3>5
    <2>10. \A i \in 0 .. r.base : i < frameCount'
      BY <1>5, <2>7
    <2>11. RunsNested' /\ RunsPlaced'
      BY <1>1, <1>3, <1>4, <2>8, <2>9, <2>10, RunsStay
    <2>12. TypeOK'
      <3>1. hadError' \in BOOLEAN
        BY <2>1
      <3>2. frameCount' \in 0 .. FramesMax /\ frameCount' > 0
        BY <1>4, <1>5, <2>7, FramesAssumption DEF Index
      <3>3. blocks' \subseteq Block
        BY <1>1 DEF Inv, TypeOK
      <3> QED BY <2>6, <2>9, <3>1, <3>2, <3>3 DEF TypeOK, Index, Stack, Frame, Block, Run
    <2> QED BY <2>5, <2>6, <2>11, <2>12 DEF Inv
  <1>7. CASE ~CanPush(b.code, 1, r.base, r.mark)
    <2>1. /\ frameCount' = r.base /\ stackTop' = r.mark - r.drop
          /\ runs' = Front(runs)
          /\ UNCHANGED <<frames, nextId, hadError, born>>
      BY <1>7 DEF Catch
    <2>2. PICK h \in Int : stackTop' = h /\ r.mark - r.drop <= h /\ h <= StackMax
      BY <1>4, <1>5, <2>1, FramesAssumption DEF Stack
    <2>3. hadError' \in BOOLEAN
      BY <2>1 DEF Inv, TypeOK
    <2> QED BY <1>1, <1>3, <2>1, <2>2, <2>3, PopsInv
  <1> QED BY <1>6, <1>7

-----------------------------------------------------------------------------
(* The theorems                                                            *)

LEMMA StepInv == Inv /\ [Next]_vars => Inv'
<1> SUFFICES ASSUME Inv, [Next]_vars PROVE Inv'
  OBVIOUS
<1>1. ASSUME NEW c \in Code, Start(c) PROVE Inv'
  BY <1>1, StartInv
<1>2. ASSUME NEW b \in blocks, NEW argc \in Argc, SendBlock(b, argc) PROVE Inv'
  BY <1>2, SendBlockInv
<1>3. ASSUME NEW b \in blocks, NEW argc \in Argc, CallBlock("block", b, argc, 1)
      PROVE  Inv'
  BY <1>3, CallBlockInv DEF Drops
<1>4. ASSUME NEW b \in blocks, NEW h \in blocks, CallGuarded(b, h) PROVE Inv'
  BY <1>4, CallGuardedInv
<1>5. ASSUME NEW c \in Code, NEW drop \in Drops, CallChunk(c, drop) PROVE Inv'
  BY <1>5, CallChunkInv
<1>6. CASE PushValue
  BY <1>6, PushValueInv
<1>7. CASE PopValue
  BY <1>7, PopValueInv
<1>8. ASSUME NEW c \in Code, MakeBlock(c) PROVE Inv'
  BY <1>8, MakeBlockInv
<1>9. CASE OuterIsGone \/ Fail
  BY <1>9, FailInv
<1>10. CASE Return
  BY <1>10, ReturnInv
<1>11. CASE Halt
  BY <1>11, HaltInv
<1>12. CASE Unwind
  BY <1>12, UnwindInv
<1>13. ASSUME NEW h \in blocks, Catch(h) PROVE Inv'
  BY <1>13, CatchInv
<1>14. CASE UNCHANGED vars
  BY <1>14 DEF vars, Inv, TypeOK, ActivationsApart, RunsNested, RunsPlaced, Ordered,
               BlockWriters, FrameWriters, Writer, Live, TopLevel
<1> QED BY <1>1, <1>2, <1>3, <1>4, <1>5, <1>6, <1>7, <1>8, <1>9, <1>10, <1>11,
           <1>12, <1>13, <1>14 DEF Next

\* Every reachable state of every program satisfies the invariant.
THEOREM Invariant == Spec => []Inv
  BY InitInv, StepInv, PTL DEF Spec

\* The frame array is never overrun, and the frame count, the stack top and
\* the runs in progress stay what vm.h declares them to be.
THEOREM TypeCorrect == Spec => []TypeOK
<1>1. Inv => TypeOK
  BY DEF Inv
<1> QED BY <1>1, Invariant, PTL

\* No activation's slots reach into another's.
THEOREM StackDivided == Spec => []ActivationsApart
<1>1. Inv => ActivationsApart
  BY DEF Inv
<1> QED BY <1>1, Invariant, PTL

\* The C calls of run_frames nest as the frames do.
THEOREM RunsNest == Spec => []RunsNested
<1>1. Inv => RunsNested
  BY DEF Inv
<1> QED BY <1>1, Invariant, PTL

\* A block reaches the activation that wrote it exactly while it is running.
THEOREM BlocksReachTheirWriters == Spec => []LexicalReach
<1>1. Inv => LexicalReach
  <2> SUFFICES ASSUME Inv PROVE LexicalReach
    OBVIOUS
  <2>1. ASSUME NEW cc, NEW home \in Index \cup {-1}, NEW homeId, NEW homeAct,
               Writer(cc, home, homeId, homeAct)
        PROVE  ReachesItsWriter(cc, home, homeId, homeAct)
    <3>1. HomeAlive(home, homeId) <=> home \in Live /\ frames[home].id = homeId
      BY FramesAssumption DEF HomeAlive, Live, Index, Inv, TypeOK
    <3> QED BY <2>1, <3>1 DEF Writer, ReachesItsWriter
  <2>2. \A b \in blocks : ReachesItsWriter(b.code, b.home, b.homeId, b.homeAct)
    BY <2>1 DEF Inv, TypeOK, Block, BlockWriters
  <2>3. ASSUME NEW i \in Live, ~TopLevel(frames[i].code)
        PROVE  ReachesItsWriter(frames[i].code, frames[i].home,
                                frames[i].homeId, frames[i].homeAct)
    <3>1. i \in Index
      BY FramesAssumption DEF Live, Index, Inv, TypeOK
    <3>2. frames[i].home \in Index \cup {-1}
      BY <3>1 DEF Inv, TypeOK, Frame
    <3> QED BY <2>1, <2>3, <3>2 DEF Inv, FrameWriters
  <2> QED BY <2>2, <2>3 DEF LexicalReach
<1> QED BY <1>1, Invariant, PTL

\* What a step of a run may do to the frames: leave them and take some from
\* above the run's first, or place one above it or in its stead.
LEMMA FramesTouched ==
  ASSUME Inv, runs # <<>>, Next, Len(runs') >= Len(runs)
  PROVE  \/ frames' = frames /\ frameCount' \in {frameCount, frameCount - 1}
            /\ frameCount' # Last(runs).base
         \/ \E f : PlaceFrame(frameCount, f)
         \/ \E f : PlaceFrame(Last(runs).base, f)
<1> DEFINE P == \/ frames' = frames /\ frameCount' \in {frameCount, frameCount - 1}
                   /\ frameCount' # Last(runs).base
                \/ \E f : PlaceFrame(frameCount, f)
                \/ \E f : PlaceFrame(Last(runs).base, f)
<1>1. Len(runs) \in Nat /\ Len(Front(runs)) = Len(runs) - 1 /\ Len(<<>>) = 0 /\ Len(runs) # 0
  BY RunsFacts, EmptySeq DEF Inv, TypeOK
<1>2. runs' # Front(runs) /\ runs' # <<>>
  BY <1>1
<1>3. frameCount # Last(runs).base
  BY LastFacts, TopFacts DEF Index
<1>4. ASSUME NEW b \in blocks, NEW argc, SendBlock(b, argc) PROVE P
  BY <1>3, <1>4 DEF SendBlock
<1>5. ASSUME NEW b \in blocks, NEW argc, NEW kind, NEW drop, CallBlock(kind, b, argc, drop)
      PROVE  P
  BY <1>3, <1>5 DEF CallBlock
<1>12. ASSUME NEW b \in blocks, NEW h \in blocks, CallGuarded(b, h) PROVE P
  BY <1>5, <1>12 DEF CallGuarded
<1>6. ASSUME NEW c \in Code, NEW drop, CallChunk(c, drop) PROVE P
  BY <1>3, <1>6 DEF CallChunk
<1>7. CASE PushValue \/ PopValue \/ Fail \/ OuterIsGone \/ \E c \in Code : MakeBlock(c)
  BY <1>3, <1>7 DEF PushValue, PopValue, Fail, OuterIsGone, MakeBlock
<1>8. CASE Return
  <2>1. frameCount \in Nat /\ frameCount - 1 # Last(runs).base
    <3>1. CASE frameCount - 1 = Last(runs).base
      <4>1. Last(runs).kind = "run"
        BY <1>2, <1>8, <3>1 DEF Return, Finished
      <4>2. Len(runs) = 1 /\ Last(runs).base = 0 /\ frameCount \in Nat
        BY <4>1, KindFacts, LastFacts, TopFacts
      <4>3. frameCount = 1
        BY <3>1, <4>2
      <4> QED BY <1>2, <1>8, <3>1, <4>1, <4>3 DEF Return
    <3> QED BY <3>1, TopFacts
  <2> QED BY <1>8, <2>1 DEF Return
<1>9. CASE Halt
  BY <1>2, <1>9 DEF Halt, Finished
<1>10. CASE Unwind
  BY <1>2, <1>10 DEF Unwind
<1>11. ASSUME NEW h \in blocks, Catch(h) PROVE P
  BY <1>2, <1>11 DEF Catch
<1> QED BY <1>4, <1>5, <1>6, <1>7, <1>8, <1>9, <1>10, <1>11, <1>12 DEF Next, Start

\* No step of a nested run disturbs the activations it was called from.
THEOREM NestedRunsKeepCallers == Spec => CallersKept
<1>1. ASSUME Inv, Next PROVE KeepsCallers
  <2> SUFFICES ASSUME runs # <<>>, Len(runs') >= Len(runs)
               PROVE  /\ frameCount' > Last(runs).base
                      /\ \A i \in 0 .. Last(runs).base - 1 : frames'[i] = frames[i]
    BY DEF KeepsCallers
  <2> DEFINE base == Last(runs).base
  <2>0. base \in Index /\ base < frameCount /\ frameCount \in Nat
    BY <1>1, LastFacts, TopFacts
  <2> HIDE DEF base
  <2>1. base \in Nat /\ base < frameCount /\ frameCount \in Nat
        /\ \A i \in 0 .. base - 1 : i \in Index
    BY <2>0, Bounds DEF Index
  <2> USE DEF base
  <2>2. \/ frames' = frames /\ frameCount' \in {frameCount, frameCount - 1}
           /\ frameCount' # base
        \/ \E f : PlaceFrame(frameCount, f)
        \/ \E f : PlaceFrame(base, f)
    BY <1>1, FramesTouched
  <2>3. frames \in [Index -> Frame]
    BY <1>1 DEF Inv, TypeOK
  <2> HIDE DEF base
  <2>4. CASE frames' = frames /\ frameCount' \in {frameCount, frameCount - 1}
             /\ frameCount' # base
    BY <2>1, <2>4 DEF base
  <2>5. ASSUME NEW f, NEW count \in Nat, count >= base, PlaceFrame(count, f)
        PROVE  /\ frameCount' > base
               /\ \A i \in 0 .. base - 1 : frames'[i] = frames[i]
    BY <2>1, <2>3, <2>5 DEF PlaceFrame
  <2> QED BY <2>1, <2>2, <2>4, <2>5 DEF base
<1>2. Inv /\ [Next]_vars => [KeepsCallers]_vars
  BY <1>1
<1> QED BY <1>2, Invariant, PTL DEF Spec, CallersKept

\* What a run_frames call leaves when it answers: one reply, and what a HALT
\* in a block left above it.
LEMMA RunsBalance == ASSUME Inv, Next PROVE Balances
<1> SUFFICES ASSUME ~hadError, ~hadError', Len(runs') = Len(runs) - 1, runs' # <<>>
             PROVE  /\ frameCount' = Last(runs).base
                    /\ stackTop' >= Last(runs).mark - Last(runs).drop + 1
                    /\ Top.code \notin Halts \/ Last(runs).kind = "chunk" =>
                         stackTop' = Last(runs).mark - Last(runs).drop + 1
  BY DEF Balances
<1>1. runs \in Seq(Run) /\ Len(runs) \in Nat
  BY EmptySeq DEF Inv, TypeOK
<1>2. runs' # runs /\ \A r \in Run : runs' # Append(runs, r)
  <2>1. \A r \in Run : Len(Append(runs, r)) = Len(runs) + 1
    BY <1>1
  <2>2. Len(runs) # Len(runs) - 1 /\ Len(runs) + 1 # Len(runs) - 1
    BY <1>1
  <2> QED BY <2>1, <2>2
<1>3. runs # <<>>
  <2>1. CASE runs = <<>>
    <3>1. \A c \in Code : ~Start(c)
      <4> SUFFICES ASSUME NEW c \in Code, Start(c) PROVE FALSE
        OBVIOUS
      <4>1. Len(runs') = 1 /\ Len(runs) = 0
        BY <2>1 DEF Start
      <4> QED BY <4>1
    <3>2. runs' = runs
      BY <2>1, <3>1 DEF Next, SendBlock, CallBlock, CallGuarded, CallChunk, PushValue, PopValue, MakeBlock,
                        OuterIsGone, Fail, Return, Halt, Unwind, Catch, Running
    <3> QED BY <1>2, <3>2
  <2> QED BY <2>1
<1>a. /\ Last(runs).mark \in Nat /\ Last(runs).drop \in Nat /\ stackTop \in Nat
      /\ Last(runs).mark < stackTop
  BY <1>3, LastFacts, TopFacts, MarkBelow, FramesAssumption DEF Stack
<1>4. CASE Return
  <2>1. frameCount - 1 = Last(runs).base /\ Last(runs).kind # "run"
    BY <1>2, <1>4 DEF Return
  <2>2. Top.slots = Last(runs).mark
    BY <1>3, <2>1, LastFacts DEF Top
  <2>3. frameCount' = Last(runs).base /\ stackTop' = Last(runs).mark - Last(runs).drop + 1
    BY <1>4, <2>1, <2>2 DEF Return, Finished
  <2> QED BY <1>a, <2>3
<1>5. CASE Halt
  <2>1. Top.code \in Halts /\ Last(runs).kind # "run"
    BY <1>5 DEF Halt
  <2>2. CASE Last(runs).kind = "chunk"
    <3>1. Finished(Last(runs).mark)
      BY <1>5, <2>1, <2>2 DEF Halt
    <3> QED BY <1>a, <3>1 DEF Finished
  <2>3. CASE Last(runs).kind # "chunk"
    <3>1. PICK height \in {stackTop - 1, Last(runs).mark} : Finished(height)
      BY <1>5, <2>1, <2>3 DEF Halt
    <3>2. height \in Int /\ height >= Last(runs).mark
      BY <1>a
    <3> QED BY <1>a, <2>1, <2>3, <3>1, <3>2 DEF Finished
  <2> QED BY <2>2, <2>3
<1>6. CASE Unwind \/ \E h \in blocks : Catch(h)
  BY <1>6 DEF Unwind, Catch
<1>7. ASSUME NEW kind \in {"block", "guard"}, NEW b \in blocks, NEW argc, NEW drop \in Nat,
             CallBlock(kind, b, argc, drop)
      PROVE  FALSE
  <2>1. runs' = Append(runs, [kind |-> kind, base |-> frameCount, mark |-> stackTop, drop |-> drop])
    BY <1>2, <1>7 DEF CallBlock
  <2>2. Len(runs') = Len(runs) + 1
    BY <1>1, <2>1
  <2> QED BY <1>1, <2>2
<1>11. ASSUME NEW b \in blocks, NEW h \in blocks, CallGuarded(b, h) PROVE FALSE
  BY <1>7, <1>11 DEF CallGuarded
<1>8. ASSUME NEW c \in Code, NEW drop, CallChunk(c, drop) PROVE FALSE
  <2>1. runs' = Append(runs, [kind |-> "chunk", base |-> frameCount, mark |-> stackTop, drop |-> drop])
    BY <1>2, <1>8 DEF CallChunk
  <2>2. Len(runs') = Len(runs) + 1
    BY <1>1, <2>1
  <2> QED BY <1>1, <2>2
<1>9. CASE \/ \E b \in blocks, argc \in Argc : SendBlock(b, argc)
           \/ PushValue \/ PopValue \/ OuterIsGone \/ Fail
           \/ \E c \in Code : MakeBlock(c)
  BY <1>2, <1>9 DEF SendBlock, PushValue, PopValue, OuterIsGone, Fail, MakeBlock
<1>10. \A c \in Code : ~Start(c)
  BY <1>3 DEF Start
<1> QED BY <1>4, <1>5, <1>6, <1>7, <1>8, <1>9, <1>10, <1>11 DEF Next, Drops

\* A primitive that called a block or loaded a chunk leaves its caller with the
\* frames it had and one reply in place of its operands, and with nothing above
\* the reply unless a block's code held a HALT.
THEOREM PrimitivesBalance == Spec => CallsBalanced
<1>1. ASSUME Inv, Next PROVE Balances
  BY <1>1, RunsBalance
<1>2. Inv /\ [Next]_vars => [Balances]_vars
  BY <1>1
<1> QED BY <1>2, Invariant, PTL DEF Spec, CallsBalanced

-----------------------------------------------------------------------------
(* The chain of homes                                                      *)

\* A block is run by an activation younger than the one that wrote it.
Older ==
  \A i \in Live : ~TopLevel(frames[i].code) => frames[i].homeAct < frames[i].act

LEMMA PlaceOlder ==
  ASSUME Inv, Older, NEW c \in Code, NEW count \in Index, count <= frameCount, NEW at, NEW home,
         NEW homeId, NEW homeAct, ~TopLevel(c) => homeAct < born,
         PlaceFrame(count, NewFrame(c, at, home, homeId, homeAct))
  PROVE  Older'
<1> DEFINE f == NewFrame(c, at, home, homeId, homeAct)
<1>1. f.code = c /\ f.act = born /\ f.homeAct = homeAct
  BY DEF NewFrame
<1>2. frames' = [frames EXCEPT ![count] = f] /\ frameCount' = count + 1
  BY DEF PlaceFrame
<1> HIDE DEF f
<1>3. frames \in [Index -> Frame] /\ frameCount \in Nat /\ count \in Nat
  BY FramesAssumption DEF Inv, TypeOK, Index
<1> SUFFICES ASSUME NEW i \in Live', ~TopLevel(frames'[i].code)
             PROVE  frames'[i].homeAct < frames'[i].act
  BY DEF Older, TopLevel
<1>4. CASE i = count
  <2>1. frames'[i] = f
    BY <1>2, <1>3, <1>4
  <2> QED BY <1>1, <2>1
<1>5. CASE i # count
  <2>1. i \in Live /\ i \in Index
    BY <1>2, <1>3, <1>5, Bounds DEF Live, Index
  <2>2. frames'[i] = frames[i]
    BY <1>2, <1>3, <1>5, <2>1
  <2> QED BY <2>1, <2>2 DEF Older
<1> QED BY <1>4, <1>5

LEMMA BlockOlder ==
  ASSUME Inv, NEW b \in blocks
  PROVE  b.code \in Code /\ b.homeAct < born
BY DEF Inv, TypeOK, Block, BlockWriters, Writer

LEMMA OlderStep == Inv /\ Older /\ [Next]_vars => Older'
<1> SUFFICES ASSUME Inv, Older, [Next]_vars PROVE Older'
  OBVIOUS
<1>1. frameCount \in Nat
  BY DEF Inv, TypeOK
<1>2. ASSUME frames' = frames, frameCount' \in 0 .. frameCount PROVE Older'
  <2>1. PICK n \in 0 .. frameCount : frameCount' = n
    BY <1>2
  <2>2. Live' = 0 .. n - 1
    BY <2>1 DEF Live
  <2>3. \A i \in 0 .. n - 1 : i \in 0 .. frameCount - 1
    BY <1>1
  <2>4. \A i \in Live' : i \in Live
    BY <2>2, <2>3 DEF Live
  <2> QED BY <1>2, <2>4 DEF Older, TopLevel
<1>3. ASSUME NEW b \in blocks, NEW at, NEW count \in Index, count <= frameCount,
             PlaceFrame(count, BlockFrame(b, at))
      PROVE  Older'
  <2>1. b.code \in Code /\ b.homeAct < born
    BY BlockOlder
  <2>2. PlaceFrame(count, NewFrame(b.code, at, b.home, b.homeId, b.homeAct))
    BY <1>3 DEF BlockFrame
  <2> QED BY <1>3, <2>1, <2>2, PlaceOlder
<1>4. ASSUME NEW c \in Code, TopLevel(c), NEW at, NEW count \in Index, count <= frameCount,
             PlaceFrame(count, NewFrame(c, at, -1, 0, 0))
      PROVE  Older'
  BY <1>4, PlaceOlder
<1>5. runs # <<>> => Last(runs).base \in Index /\ Last(runs).base < frameCount
  BY LastFacts
<1>6. frameCount \in 0 .. frameCount /\ frameCount <= frameCount
      /\ (frameCount < FramesMax => frameCount \in Index) /\ 0 \in Index /\ 0 <= frameCount
  BY <1>1, Bounds DEF Index
<1>7. ASSUME NEW c \in Code, Start(c) PROVE Older'
  BY <1>4, <1>6, <1>7 DEF Start
<1>8. ASSUME NEW b \in blocks, NEW argc, SendBlock(b, argc) PROVE Older'
  <2>1. CASE frames' = frames /\ frameCount' = frameCount
    BY <1>2, <1>6, <2>1
  <2>2. CASE ~(frames' = frames /\ frameCount' = frameCount)
    <3>1. /\ CanPush(b.code, argc, frameCount, stackTop - argc - 1)
          /\ PlaceFrame(frameCount, BlockFrame(b, stackTop - argc - 1))
      BY <1>8, <2>2 DEF SendBlock
    <3> QED BY <1>3, <1>6, <3>1 DEF CanPush
  <2> QED BY <2>1, <2>2
<1>9. ASSUME NEW kind, NEW b \in blocks, NEW argc, NEW drop, CallBlock(kind, b, argc, drop) PROVE Older'
  <2>1. CASE frames' = frames /\ frameCount' = frameCount
    BY <1>2, <1>6, <2>1
  <2>2. CASE ~(frames' = frames /\ frameCount' = frameCount)
    <3>1. /\ CanPush(b.code, argc, frameCount, stackTop)
          /\ PlaceFrame(frameCount, BlockFrame(b, stackTop))
      BY <1>9, <2>2 DEF CallBlock
    <3> QED BY <1>3, <1>6, <3>1 DEF CanPush
  <2> QED BY <2>1, <2>2
<1>14. ASSUME NEW b \in blocks, NEW h \in blocks, CallGuarded(b, h) PROVE Older'
  BY <1>9, <1>14 DEF CallGuarded
<1>10. ASSUME NEW c \in Code, NEW drop, CallChunk(c, drop) PROVE Older'
  <2>1. CASE frames' = frames /\ frameCount' = frameCount
    BY <1>2, <1>6, <2>1
  <2>2. CASE ~(frames' = frames /\ frameCount' = frameCount)
    <3>1. TopLevel(c) /\ frameCount < FramesMax /\ PlaceFrame(frameCount, NewFrame(c, stackTop, -1, 0, 0))
      BY <1>10, <2>2 DEF CallChunk
    <3> QED BY <1>4, <1>6, <3>1
  <2> QED BY <2>1, <2>2
<1>11. CASE UNCHANGED vars \/ PushValue \/ PopValue \/ OuterIsGone \/ Fail \/ \E c \in Code : MakeBlock(c)
  BY <1>2, <1>6, <1>11 DEF vars, PushValue, PopValue, OuterIsGone, Fail, MakeBlock
<1>12. CASE Return \/ Halt \/ Unwind
  <2>1. runs # <<>> /\ frames' = frames
    BY <1>12 DEF Return, Halt, Unwind, Running
  <2>2. frameCount' \in {frameCount, frameCount - 1, Last(runs).base}
    <3>1. CASE Halt
      <4>1. \/ UNCHANGED frameCount \/ Finished(Last(runs).mark)
            \/ \E height \in {stackTop - 1, Last(runs).mark} : Finished(height)
        BY <3>1 DEF Halt
      <4> QED BY <4>1 DEF Finished
    <3> QED BY <1>12, <3>1 DEF Return, Unwind, Finished
  <2>3. frameCount - 1 \in 0 .. frameCount /\ Last(runs).base \in 0 .. frameCount
    BY <1>1, <1>5, <2>1 DEF Index
  <2> QED BY <1>2, <1>6, <2>1, <2>2, <2>3
<1>13. ASSUME NEW h \in blocks, Catch(h) PROVE Older'
  <2>1. runs # <<>>
    BY <1>13 DEF Catch
  <2>2. Last(runs).base \in Index /\ Last(runs).base \in 0 .. frameCount /\ Last(runs).base <= frameCount
    BY <1>1, <1>5, <2>1 DEF Index
  <2>3. CASE frames' = frames /\ frameCount' = Last(runs).base
    BY <1>2, <2>2, <2>3
  <2>4. CASE ~(frames' = frames /\ frameCount' = Last(runs).base)
    <3>1. PlaceFrame(Last(runs).base, BlockFrame(h, Last(runs).mark))
      BY <1>13, <2>4 DEF Catch
    <3> QED BY <1>3, <2>2, <3>1
  <2> QED BY <2>3, <2>4
<1> QED BY <1>7, <1>8, <1>9, <1>10, <1>11, <1>12, <1>13, <1>14 DEF Next

\* One hop of outer_slots, from anything it may have come to.
Hop == [i \in Index \cup {-1} |->
          IF i >= 0 /\ HomeAlive(frames[i].home, frames[i].homeId) THEN frames[i].home ELSE -1]

\* OuterFrame is what its definition says, hop by hop.
LEMMA OuterFrameIs ==
  ASSUME Inv, runs # <<>>
  PROVE  /\ OuterFrame[0] = frameCount - 1
         /\ \A d \in Nat : OuterFrame[d] \in Index \cup {-1} /\ OuterFrame[d + 1] = Hop[OuterFrame[d]]
<1> DEFINE S == Index \cup {-1}
<1>1. frameCount - 1 \in S /\ frames \in [Index -> Frame]
  BY TopFacts DEF Inv, TypeOK
<1>2. Hop \in [S -> S]
  <2>1. ASSUME NEW i \in S, i >= 0 PROVE frames[i].home \in S
    <3>1. i \in Index
      BY <2>1
    <3> QED BY <1>1, <3>1 DEF Frame
  <2> QED BY <2>1 DEF Hop
<1>3. PICK g \in [Nat -> S] : g[0] = frameCount - 1 /\ \A n \in Nat : g[n + 1] = Hop[g[n]]
  <2> HIDE DEF S
  <2>1. \E g \in [Nat -> S] : Iterates(g, frameCount - 1, Hop)
    BY <1>1, <1>2, Iterated
  <2> QED BY <2>1 DEF Iterates
<1> DEFINE next(i) == IF i >= 0 /\ HomeAlive(frames[i].home, frames[i].homeId) THEN frames[i].home ELSE -1
<1>4. \A n \in Nat : g[n + 1] = next(g[n])
  BY <1>3 DEF Hop
<1> HIDE DEF next
<1>5. g = [d \in Nat |-> IF d = 0 THEN frameCount - 1 ELSE next(g[d - 1])]
  <2>1. ASSUME NEW d \in Nat PROVE g[d] = IF d = 0 THEN frameCount - 1 ELSE next(g[d - 1])
    <3>1. CASE d = 0
      BY <1>3, <3>1
    <3>2. CASE d # 0
      <4>1. d - 1 \in Nat /\ d - 1 + 1 = d
        BY <3>2
      <4> QED BY <1>4, <3>2, <4>1
    <3> QED BY <3>1, <3>2
  <2> QED BY <1>3, <2>1
<1>6. OuterFrame = [d \in Nat |-> IF d = 0 THEN frameCount - 1 ELSE next(OuterFrame[d - 1])]
  BY <1>5 DEF OuterFrame, next
<1>7. OuterFrame[0] = frameCount - 1
  BY <1>6
<1>8. \A d \in Nat : OuterFrame[d + 1] = next(OuterFrame[d])
  BY <1>6
<1> DEFINE T == {d \in Nat : OuterFrame[d] = g[d]}
<1>9. T = Nat
  <2>1. 0 \in T /\ T \in SUBSET Nat
    BY <1>3, <1>7
  <2>2. \A d \in Nat : d \in T => d + 1 \in T
    BY <1>4, <1>8
  <2> HIDE DEF T
  <2> QED BY <2>1, <2>2, AllNumbers
<1>10. \A d \in Nat : OuterFrame[d] = g[d]
  BY <1>9
<1> QED BY <1>3, <1>7, <1>10

\* A hop that finds its home finds a frame of one nesting less, lower down.
LEMMA HopDescends ==
  ASSUME Inv, Older, NEW i \in Live, Nesting[frames[i].code] > 0, Hop[i] # -1
  PROVE  /\ Hop[i] \in Live /\ Hop[i] < i
         /\ Nesting[frames[Hop[i]].code] = Nesting[frames[i].code] - 1
<1> DEFINE f == frames[i]
           h == f.home
<1>1. i \in Index /\ i \in Nat /\ frameCount \in Nat
  BY Bounds DEF Inv, TypeOK, Live, Index
<1>2. f \in Frame /\ f.code \in Code /\ h \in Index \cup {-1} /\ f.act \in Nat /\ f.homeAct \in Nat
  BY <1>1 DEF Inv, TypeOK, Frame
<1>3. Hop[i] = h /\ HomeAlive(h, f.homeId)
  BY <1>1 DEF Hop
<1>4. h \in Live /\ frames[h].id = f.homeId
  BY <1>1, <1>2, <1>3 DEF HomeAlive, Live, Index
<1>5. ~TopLevel(f.code) /\ Nesting[f.code] = Nesting[Encloser[f.code]] + 1 /\ Encloser[f.code] \in Code
  BY <1>2, FramesAssumption DEF TopLevel
<1>6. Writer(f.code, h, f.homeId, f.homeAct) /\ f.homeAct < f.act
  BY <1>5 DEF Inv, FrameWriters, Older
<1>7. frames[h].act = f.homeAct /\ frames[h].code = Encloser[f.code]
  BY <1>4, <1>6 DEF Writer
<1>8. Nesting[frames[h].code] = Nesting[f.code] - 1
  <2>1. Nesting[Encloser[f.code]] \in Nat
    BY <1>5, FramesAssumption
  <2> QED BY <1>5, <1>7, <2>1
<1>9. h < i
  <2> SUFFICES ASSUME ~(h < i) PROVE FALSE
    OBVIOUS
  <2>1. h = i \/ i < h
    BY <1>1, <1>4 DEF Live
  <2>2. frames[h].act < f.act
    BY <1>6, <1>7
  <2>3. h # i
    BY <1>2, <2>2
  <2>4. f.act < frames[h].act
    BY <1>4, <2>1, <2>3 DEF Inv, Ordered
  <2>5. frames[h].act \in Nat
    BY <1>2, <1>7
  <2> QED BY <1>2, <2>2, <2>4, <2>5
<1> QED BY <1>3, <1>4, <1>8, <1>9

\* The chain goes down, one nesting a hop, for as long as it finds its homes.
LEMMA ChainGoesDown == Inv /\ Older => ChainDescends
<1> SUFFICES ASSUME Inv, Older, runs # <<>> PROVE
               \A d \in 0 .. Nesting[Top.code] :
                 OuterFrame[d] # -1 =>
                   /\ Nesting[frames[OuterFrame[d]].code] = Nesting[Top.code] - d
                   /\ d > 0 => OuterFrame[d] < OuterFrame[d - 1]
  BY DEF ChainDescends
<1> DEFINE N == Nesting[Top.code]
           O(d) == OuterFrame[d]
           Lands(d) == /\ O(d) \in Live /\ Nesting[frames[O(d)].code] = N - d
                       /\ d > 0 => O(d) < O(d - 1)
           T == {d \in Nat : d <= N /\ O(d) # -1 => Lands(d)}
<1>1. N \in Nat
  BY TopFacts, FramesAssumption
<1>2. O(0) = frameCount - 1 /\ \A d \in Nat : O(d) \in Index \cup {-1} /\ O(d + 1) = Hop[O(d)]
  BY OuterFrameIs
<1> HIDE DEF O
<1>3. 0 \in T
  <2>1. O(0) \in Live /\ frames[O(0)] = Top
    BY <1>2, TopFacts DEF Top
  <2>2. Nesting[frames[O(0)].code] = N - 0
    BY <1>1, <2>1
  <2>3. Lands(0)
    BY <2>1, <2>2
  <2> HIDE DEF Lands
  <2> QED BY <2>3
<1>4. ASSUME NEW d \in Nat, d \in T PROVE d + 1 \in T
  <2> SUFFICES ASSUME d + 1 <= N, O(d + 1) # -1 PROVE Lands(d + 1)
    OBVIOUS
  <2>1. d <= N /\ d + 1 - 1 = d /\ N - d > 0 /\ N - d - 1 = N - (d + 1)
    BY <1>1
  <2>2. O(d) # -1
    <3>1. Hop[-1] = -1
      BY DEF Hop
    <3> QED BY <1>2, <3>1
  <2>3. O(d) \in Live /\ Nesting[frames[O(d)].code] = N - d
    BY <1>4, <2>1, <2>2
  <2>4. O(d + 1) = Hop[O(d)]
    BY <1>2
  <2>5. O(d + 1) \in Live /\ O(d + 1) < O(d) /\ Nesting[frames[O(d + 1)].code] = N - d - 1
    <3> DEFINE i == O(d)
    <3>1. i \in Live /\ Nesting[frames[i].code] > 0 /\ Hop[i] # -1
      BY <2>1, <2>3, <2>4
    <3>2. Nesting[frames[i].code] = N - d /\ O(d + 1) = Hop[i]
      BY <2>3, <2>4
    <3> HIDE DEF i
    <3>3. Hop[i] \in Live /\ Hop[i] < i /\ Nesting[frames[Hop[i]].code] = Nesting[frames[i].code] - 1
      BY <3>1, HopDescends
    <3> QED BY <3>2, <3>3 DEF i
  <2> QED BY <2>1, <2>5
<1>5. T = Nat
  <2>1. T \in SUBSET Nat
    OBVIOUS
  <2> HIDE DEF T
  <2> QED BY <1>3, <1>4, <2>1, AllNumbers
<1>6. ASSUME NEW d \in 0 .. N, O(d) # -1
      PROVE  Nesting[frames[O(d)].code] = N - d /\ (d > 0 => O(d) < O(d - 1))
  <2>1. d \in Nat /\ d <= N
    BY <1>1
  <2> QED BY <1>5, <1>6, <2>1
<1> QED BY <1>6 DEF O

\* Following homes never goes round, and a depth the verifier allowed lands on a
\* frame of that depth or fails.
THEOREM ChainEnds == Spec => []ChainDescends
<1>1. Init => Older
  BY DEF Init, Older, Live
<1>2. Inv /\ Older => ChainDescends
  BY ChainGoesDown
<1> QED BY <1>1, <1>2, OlderStep, Invariant, PTL DEF Spec
==============================================================================
