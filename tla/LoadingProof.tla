----------------------------- MODULE LoadingProof -----------------------------
(***************************************************************************)
(* Whatever files hold and however hosts and programs go about it, a       *)
(* machine runs a file once; and a chunk that runs speaks the names of the *)
(* machine that runs it, as long as the host does not ask a machine once   *)
(* another has run the chunk.                                              *)
(***************************************************************************)
EXTENDS Loading, SequenceTheorems, TLAPS

Key == {HostChunk, HostBlock} \cup (Nat \X File)
Living == [id : Nat \ {0}, bound : SUBSET Global, ran : BOOLEAN,
           loaded : SUBSET File, began : [File -> Nat], shut : SUBSET File]
Resident == [text : Text, interned_for : Nat, slot : [Global -> Nat]]
Activation == [at : Address, chunk : Key, next : Nat \ {0}]

TypeOK ==
  /\ disk \in [File -> Text \cup {Unusable}]
  /\ machines \in [Address -> Living \cup {Gone}]
  /\ chunks \in [DOMAIN chunks -> Resident]
  /\ DOMAIN chunks \subseteq Key /\ {HostChunk, HostBlock} \subseteq DOMAIN chunks
  /\ frames \in Seq(Activation)
  /\ serial \in Nat \ {0}

\* An activation is of a machine and of a chunk that there are.
Running == \A i \in 1 .. Len(frames) :
  machines[frames[i].at] # Gone /\ frames[i].chunk \in DOMAIN chunks

LInv == TypeOK /\ Running /\ LoadedOnce

\* No two machines have one serial, and none has that of one to come.
Serials ==
  \A a \in Address : machines[a] # Gone =>
    /\ machines[a].id < serial
    /\ \A b \in Address : (machines[b] # Gone /\ machines[a].id = machines[b].id) => a = b

\* One machine runs at a time.
Alone == \A i, j \in 1 .. Len(frames) : frames[i].at = frames[j].at

\* An activation's chunk is resolved for its machine.
Owned == \A i \in 1 .. Len(frames) : Code(i).interned_for = machines[frames[i].at].id

\* A slot kept in any chunk is of the machine the chunk is resolved for, and of a
\* global that this one has, if it is still there.
SlotsKept ==
  \A c \in DOMAIN chunks :
    /\ chunks[c].interned_for < serial
    /\ \A g \in Global : chunks[c].slot[g] # NoSlot =>
         /\ chunks[c].slot[g] = chunks[c].interned_for
         /\ \A a \in Address : (machines[a] # Gone /\ machines[a].id = chunks[c].interned_for)
                                 => g \in machines[a].bound

Own == Serials /\ Alone /\ Owned /\ SlotsKept
NInv == LInv /\ Own

-----------------------------------------------------------------------------
(* Activations                                                             *)

\* What is left of the activations is where it was, and runs what it ran.
Shorter ==
  /\ frames' \in Seq(Activation)
  /\ Len(frames') <= Len(frames)
  /\ \A i \in 1 .. Len(frames') : /\ frames'[i].at = frames[i].at
                                  /\ frames'[i].chunk = frames[i].chunk

\* Going on in a text changes nothing else of an activation.
LEMMA GoesOn ==
  ASSUME NEW s \in Seq(Activation), NEW m \in 1 .. Len(s)
  PROVE  LET t == [s EXCEPT ![m].next = @ + 1] IN
         /\ t \in Seq(Activation) /\ Len(t) = Len(s)
         /\ \A i \in 1 .. Len(s) : t[i].at = s[i].at /\ t[i].chunk = s[i].chunk
<1> DEFINE e == [s[m] EXCEPT !.next = @ + 1]
           t == [s EXCEPT ![m] = e]
<1>1. s[m] \in Activation
  BY ElementOfSeq
<1>2. e \in Activation /\ e.at = s[m].at /\ e.chunk = s[m].chunk
  BY <1>1 DEF Activation
<1> HIDE DEF e
<1>3. /\ t \in Seq(Activation) /\ Len(t) = Len(s)
      /\ \A i \in 1 .. Len(s) : t[i] = IF i = m THEN e ELSE s[i]
  BY <1>2, ExceptSeq
<1> HIDE DEF t
<1>4. \A i \in 1 .. Len(s) : t[i].at = s[i].at /\ t[i].chunk = s[i].chunk
  BY <1>2, <1>3
<1> QED BY <1>3, <1>4 DEF t, e

\* Going on from the last activation leaves all of them.
LEMMA PastShortens ==
  ASSUME frames \in Seq(Activation), frames # <<>>, frames' = Past
  PROVE  Shorter
<1>1. Len(frames) \in 1 .. Len(frames)
  BY LenProperties, EmptySeq
<1> QED BY <1>1, GoesOn DEF Past, Shorter

\* Going on from an earlier activation leaves those before it.
LEMMA BackShortens ==
  ASSUME frames \in Seq(Activation), NEW m \in 1 .. Len(frames),
         frames' = [SubSeq(frames, 1, m) EXCEPT ![m].next = @ + 1]
  PROVE  Shorter
<1> DEFINE s == SubSeq(frames, 1, m)
<1>1. Len(frames) \in Nat /\ \A i \in 1 .. m : frames[i] \in Activation
  BY LenProperties
<1>2. s \in Seq(Activation) /\ Len(s) = m /\ \A i \in 1 .. m : s[i] = frames[i]
  BY <1>1, SubSeqProperties
<1>3. m \in 1 .. Len(s) /\ m <= Len(frames)
  BY <1>1, <1>2
<1>4. frames' = [s EXCEPT ![m].next = @ + 1]
  OBVIOUS
<1> HIDE DEF s
<1>5. /\ frames' \in Seq(Activation) /\ Len(frames') = Len(s)
      /\ \A i \in 1 .. Len(s) : frames'[i].at = s[i].at /\ frames'[i].chunk = s[i].chunk
  BY <1>2, <1>3, <1>4, GoesOn
<1>6. Len(frames') = m
  BY <1>2, <1>5
<1>7. ASSUME NEW i \in 1 .. m
      PROVE  frames'[i].at = frames[i].at /\ frames'[i].chunk = frames[i].chunk
  BY <1>2, <1>5
<1> QED BY <1>3, <1>5, <1>6, <1>7 DEF Shorter

\* A failure unwinds to an earlier activation, or to none.
LEMMA UnwindsShortens ==
  ASSUME frames \in Seq(Activation), Unwinds
  PROVE  Shorter
<1>1. CASE frames' = <<>>
  <2>1. frames' \in Seq(Activation) /\ Len(frames') = 0
    BY <1>1, EmptySeq
  <2>2. Len(frames) \in Nat
    BY LenProperties
  <2> QED BY <2>1, <2>2 DEF Shorter
<1>2. ASSUME NEW m \in DOMAIN frames, frames' = [SubSeq(frames, 1, m) EXCEPT ![m].next = @ + 1]
      PROVE  Shorter
  BY <1>2, BackShortens, LenProperties
<1> QED BY <1>1, <1>2 DEF Unwinds

LEMMA FinishShortens ==
  ASSUME frames \in Seq(Activation), Finish
  PROVE  Shorter
<1>1. CASE Len(frames) = 1
  <2>1. frames' \in Seq(Activation) /\ Len(frames') = 0
    BY <1>1, EmptySeq DEF Finish
  <2> QED BY <1>1, <2>1 DEF Shorter
<1>2. CASE Len(frames) # 1
  <2>1. Len(frames) \in Nat /\ Len(frames) # 0
    BY EmptySeq, LenProperties DEF Finish
  <2>2. Len(frames) - 1 \in 1 .. Len(frames)
    <3> DEFINE n == Len(frames)
    <3>1. n \in Nat /\ n # 0 /\ n # 1
      BY <1>2, <2>1
    <3> HIDE DEF n
    <3>2. n - 1 \in 1 .. n
      BY <3>1
    <3> QED BY <3>2 DEF n
  <2>3. frames' = [SubSeq(frames, 1, Len(frames) - 1) EXCEPT ![Len(frames) - 1].next = @ + 1]
    BY <1>2 DEF Finish, Front
  <2> QED BY <2>2, <2>3, BackShortens
<1> QED BY <1>1, <1>2

-----------------------------------------------------------------------------
(* Types                                                                   *)

LEMMA LivingIsThere == ASSUME NEW m \in Living PROVE m # Gone
<1>1. m.id # 0 /\ Gone.id = 0
  BY DEF Living, Gone
<1> QED BY <1>1

\* What a statement is about when there is one to execute.
LEMMA AtStatement ==
  ASSUME TypeOK, Running, Ready
  PROVE  /\ frames # <<>> /\ Len(frames) \in 1 .. Len(frames)
         /\ Top \in Activation /\ Top.at \in Address /\ Top.chunk \in DOMAIN chunks
         /\ This \in Living
         /\ Code(Len(frames)) = chunks[Top.chunk] /\ chunks[Top.chunk] \in Resident
         /\ Statement \in Line
<1>1. frames # <<>> /\ Len(frames) \in 1 .. Len(frames) /\ Top = frames[Len(frames)]
  BY LenProperties, EmptySeq DEF Ready, TypeOK, Top, Last
<1>2. Top \in Activation
  BY <1>1, ElementOfSeq DEF TypeOK
<1>3. Top.at \in Address /\ Top.next \in Nat \ {0}
  BY <1>2 DEF Activation
<1>4. Top.chunk \in DOMAIN chunks /\ machines[Top.at] # Gone
  BY <1>1 DEF Running
<1>5. This \in Living
  BY <1>3, <1>4 DEF This, TypeOK
<1>6. Code(Len(frames)) = chunks[Top.chunk] /\ chunks[Top.chunk] \in Resident
  BY <1>1, <1>4 DEF Code, TypeOK
<1>7. chunks[Top.chunk].text \in Seq(Line)
  BY <1>6 DEF Resident, Text
<1>8. Statement = chunks[Top.chunk].text[Top.next]
  BY <1>1, <1>6 DEF Statement, Current
<1>9. Top.next \in 1 .. Len(chunks[Top.chunk].text)
  BY <1>3, <1>6, <1>7, LenProperties DEF Ready
<1>10. Statement \in Line
  BY <1>7, <1>8, <1>9, ElementOfSeq
<1> QED BY <1>1, <1>2, <1>3, <1>4, <1>5, <1>6, <1>10

\* What a statement names: a global, or a path and so a file.
LEMMA Names ==
  ASSUME NEW line \in Line
  PROVE  /\ line.s \in {"bind", "read"} => line.g \in Global
         /\ line.s \in {"load", "try"} => Real[line.path] \in File
  BY DEF Line, File

\* Fewer activations, of machines and chunks that are still there.
LEMMA StillRunning ==
  ASSUME TypeOK, Running, Shorter, DOMAIN chunks \subseteq DOMAIN chunks',
         \A a \in Address : machines[a] # Gone => machines'[a] # Gone
  PROVE  Running'
<1> SUFFICES ASSUME NEW i \in 1 .. Len(frames')
             PROVE  machines'[frames'[i].at] # Gone /\ frames'[i].chunk \in DOMAIN chunks'
  BY DEF Running
<1>1. i \in 1 .. Len(frames) /\ frames'[i].at = frames[i].at /\ frames'[i].chunk = frames[i].chunk
  BY LenProperties DEF Shorter, TypeOK
<1>2. frames[i] \in Activation
  BY <1>1, ElementOfSeq DEF TypeOK
<1>3. frames[i].at \in Address
  BY <1>2 DEF Activation
<1> QED BY <1>1, <1>3 DEF Running

\* Nothing changes but that activations go on, end or unwind.
LEMMA ShorterKeeps ==
  ASSUME LInv, Shorter, UNCHANGED <<disk, machines, chunks, serial>>
  PROVE  LInv'
<1>1. TypeOK'
  BY DEF LInv, TypeOK, Shorter
<1>2. Running'
  BY StillRunning DEF LInv
<1>3. LoadedOnce'
  BY DEF LInv, LoadedOnce
<1> QED BY <1>1, <1>2, <1>3 DEF LInv

-----------------------------------------------------------------------------
(* A file runs once                                                        *)

LEMMA LoadingInitially == LoadingAssumption /\ Init => LInv
<1> SUFFICES ASSUME LoadingAssumption, Init PROVE LInv
  OBVIOUS
<1>1. machines \in [Address -> Living \cup {Gone}]
  BY DEF Init
<1>2. PICK p \in Programs :
        chunks = [c \in {HostChunk, HostBlock} |-> IF c = HostChunk THEN Chunk(p) ELSE Chunk(Block)]
  BY DEF Init
<1>3. Chunk(p) \in Resident /\ Chunk(Block) \in Resident
  BY DEF Chunk, Resident, LoadingAssumption, NoSlot
<1>4. chunks \in [DOMAIN chunks -> Resident] /\ DOMAIN chunks = {HostChunk, HostBlock}
  BY <1>2, <1>3
<1>5. frames \in Seq(Activation) /\ Len(frames) = 0
  BY EmptySeq DEF Init
<1>6. TypeOK
  BY <1>1, <1>4, <1>5 DEF TypeOK, Init, LoadingAssumption, Key
<1>7. Running
  BY <1>5 DEF Running
<1>8. LoadedOnce
  BY DEF Init, LoadedOnce
<1> QED BY <1>6, <1>7, <1>8 DEF LInv

\* What LoadedOnce says of one machine.
OnceIn(m) ==
  \A f \in File : m.began[f] <= 1 /\ (f \in m.loaded <=> m.began[f] = 1 \/ f \in m.shut)

\* One machine changes, or is made.
LEMMA MachineChanges ==
  ASSUME TypeOK, LoadedOnce, NEW a \in Address, NEW m \in Living, OnceIn(m),
         machines' = [machines EXCEPT ![a] = m]
  PROVE  /\ machines' \in [Address -> Living \cup {Gone}] /\ LoadedOnce'
         /\ \A b \in Address : machines[b] # Gone => machines'[b] # Gone
<1>1. machines \in [Address -> Living \cup {Gone}]
  BY DEF TypeOK
<1>2. machines' \in [Address -> Living \cup {Gone}]
  BY <1>1
<1>3. \A b \in Address : machines'[b] = IF b = a THEN m ELSE machines[b]
  BY <1>1
<1>4. \A b \in Address : machines[b] # Gone => OnceIn(machines[b])
  BY DEF LoadedOnce, OnceIn
<1>5. \A b \in Address : machines'[b] # Gone => OnceIn(machines'[b])
  BY <1>3, <1>4
<1>6. LoadedOnce'
  BY <1>5 DEF LoadedOnce, OnceIn
<1> QED BY <1>2, <1>3, <1>6, LivingIsThere

\* What it is that one slot of one chunk changes.
SlotSet(c, g, n) ==
  /\ DOMAIN chunks' = DOMAIN chunks /\ chunks' \in [DOMAIN chunks -> Resident]
  /\ \A d \in DOMAIN chunks : chunks'[d].interned_for = chunks[d].interned_for
  /\ chunks'[c].slot[g] = n
  /\ \A d \in DOMAIN chunks : \A h \in Global :
       d # c \/ h # g => chunks'[d].slot[h] = chunks[d].slot[h]

LEMMA SlotChanges ==
  ASSUME TypeOK, NEW c \in DOMAIN chunks, NEW g \in Global, NEW n \in Nat,
         chunks' = [chunks EXCEPT ![c].slot[g] = n]
  PROVE  SlotSet(c, g, n)
<1> DEFINE e == [chunks[c] EXCEPT !.slot[g] = n]
<1>1. chunks \in [DOMAIN chunks -> Resident] /\ chunks[c] \in Resident
  BY DEF TypeOK
<1>2. /\ e \in Resident /\ e.interned_for = chunks[c].interned_for /\ e.slot[g] = n
      /\ \A h \in Global : h # g => e.slot[h] = chunks[c].slot[h]
  BY <1>1 DEF Resident
<1>3. chunks' = [chunks EXCEPT ![c] = e]
  OBVIOUS
<1> HIDE DEF e
<1>4. /\ DOMAIN chunks' = DOMAIN chunks /\ chunks' \in [DOMAIN chunks -> Resident]
      /\ chunks'[c] = e /\ \A d \in DOMAIN chunks : d # c => chunks'[d] = chunks[d]
  BY <1>1, <1>2, <1>3
<1>5. ASSUME NEW d \in DOMAIN chunks
      PROVE  /\ chunks'[d].interned_for = chunks[d].interned_for
             /\ \A h \in Global : d # c \/ h # g => chunks'[d].slot[h] = chunks[d].slot[h]
  <2>1. CASE d = c
    BY <1>2, <1>4, <2>1
  <2>2. CASE d # c
    BY <1>4, <2>2, Zenon
  <2> QED BY <2>1, <2>2
<1> QED BY <1>2, <1>4, <1>5 DEF SlotSet

LEMMA NewMachineKeeps ==
  ASSUME LInv, NEW a \in Address, NewMachine(a)
  PROVE  LInv'
<1>1. serial \in Nat \ {0} /\ serial' = serial + 1
  BY DEF LInv, TypeOK, NewMachine
<1>2. Machine(serial) \in Living /\ OnceIn(Machine(serial))
  BY <1>1 DEF Machine, Living, OnceIn
<1>3. /\ machines' \in [Address -> Living \cup {Gone}] /\ LoadedOnce'
  BY <1>2, MachineChanges DEF LInv, NewMachine
<1>4. frames = <<>> /\ Len(frames') = 0
  BY DEF NewMachine
<1>5. TypeOK'
  BY <1>1, <1>3 DEF LInv, TypeOK, NewMachine
<1>6. Running'
  BY <1>4 DEF Running
<1> QED BY <1>3, <1>5, <1>6 DEF LInv

LEMMA FreeMachineKeeps ==
  ASSUME LInv, NEW a \in Address, FreeMachine(a)
  PROVE  LInv'
<1>1. machines' \in [Address -> Living \cup {Gone}] /\
      \A b \in Address : machines'[b] # Gone => machines'[b] = machines[b]
  BY DEF LInv, TypeOK, FreeMachine
<1>2. machines[a].id # 0
  BY DEF LInv, TypeOK, FreeMachine, Living
<1>3. HostChunk[1] # machines[a].id /\ HostBlock[1] # machines[a].id
  BY <1>2 DEF HostChunk, HostBlock
<1>4. /\ DOMAIN chunks' \subseteq DOMAIN chunks /\ chunks' \in [DOMAIN chunks' -> Resident]
      /\ {HostChunk, HostBlock} \subseteq DOMAIN chunks'
  BY <1>3 DEF LInv, TypeOK, FreeMachine
<1>5. TypeOK'
  BY <1>1, <1>4 DEF LInv, TypeOK, FreeMachine
<1>6. frames' = <<>>
  BY DEF FreeMachine
<1>7. Running'
  BY <1>6 DEF Running
<1>8. LoadedOnce'
  BY <1>1 DEF LInv, LoadedOnce
<1> QED BY <1>5, <1>7, <1>8 DEF LInv

\* The first activation of a run, or of an answer.
LEMMA FirstFrame ==
  ASSUME NEW a \in Address, NEW c \in Key, NEW s, s = <<Frame(a, c)>>
  PROVE  s \in Seq(Activation) /\ Len(s) = 1 /\ s[1].at = a /\ s[1].chunk = c
<1>1. Frame(a, c) \in Activation /\ Frame(a, c).at = a /\ Frame(a, c).chunk = c
  BY DEF Frame, Activation
<1> QED BY <1>1

LEMMA RunKeeps ==
  ASSUME LInv, NEW a \in Address, Run(a)
  PROVE  LInv'
<1> DEFINE m == [machines[a] EXCEPT !.ran = TRUE]
<1>1. machines[a] \in Living /\ OnceIn(machines[a])
  BY DEF LInv, TypeOK, LoadedOnce, OnceIn, Run
<1>2. m \in Living /\ OnceIn(m)
  BY <1>1 DEF Living, OnceIn
<1>3. machines' = [machines EXCEPT ![a] = m]
  BY DEF Run
<1> HIDE DEF m
<1>4. machines' \in [Address -> Living \cup {Gone}] /\ LoadedOnce' /\ machines'[a] # Gone
  BY <1>2, <1>3, MachineChanges DEF LInv, Run
<1>5. ASSUME NEW c \in Resident PROVE Interned(c, a) \in Resident
  BY <1>1, <1>5 DEF Interned, Living, Resident, NoSlot
<1>6. chunks \in [DOMAIN chunks -> Resident] /\ {HostChunk, HostBlock} \subseteq DOMAIN chunks
  BY DEF LInv, TypeOK
<1>7. chunks' \in [DOMAIN chunks -> Resident] /\ DOMAIN chunks' = DOMAIN chunks
  BY <1>5, <1>6 DEF Run
<1>8. frames' \in Seq(Activation) /\ Len(frames') = 1 /\ frames'[1].at = a /\ frames'[1].chunk = HostChunk
  BY FirstFrame DEF Run, Key
<1>9. TypeOK'
  BY <1>4, <1>7, <1>8 DEF LInv, TypeOK, Run
<1>10. Running'
  BY <1>4, <1>6, <1>7, <1>8 DEF Running
<1> QED BY <1>4, <1>9, <1>10 DEF LInv

LEMMA AskKeeps ==
  ASSUME LInv, NEW a \in Address, Ask(a)
  PROVE  LInv'
<1>1. frames' \in Seq(Activation) /\ Len(frames') = 1 /\ frames'[1].at = a /\ frames'[1].chunk = HostBlock
  BY FirstFrame DEF Ask, Key
<1>2. TypeOK'
  BY <1>1 DEF LInv, TypeOK, Ask
<1>3. Running'
  BY <1>1 DEF LInv, TypeOK, Running, Ask
<1>4. LoadedOnce'
  BY DEF LInv, LoadedOnce, Ask
<1> QED BY <1>2, <1>3, <1>4 DEF LInv

LEMMA RecompileKeeps ==
  ASSUME LoadingAssumption, LInv, NEW f \in File, NEW texts \in Texts, texts[f] # Unusable, Recompile(f, texts[f])
  PROVE  LInv'
<1>1. texts[f] \in Text \cup {Unusable}
  BY DEF LoadingAssumption
<1>2. TypeOK'
  BY <1>1 DEF LInv, TypeOK, Recompile
<1>3. Running' /\ LoadedOnce'
  BY DEF LInv, Running, LoadedOnce, Recompile
<1> QED BY <1>2, <1>3 DEF LInv

LEMMA ReadKeeps ==
  ASSUME LInv, Read
  PROVE  LInv'
<1>1. Ready /\ Statement.s = "read" /\ UNCHANGED <<disk, machines, serial>>
  BY DEF Read
<1>2. /\ frames # <<>> /\ frames \in Seq(Activation) /\ Top.chunk \in DOMAIN chunks
      /\ Statement.g \in Global /\ This \in Living
  BY <1>1, AtStatement, Names DEF LInv, TypeOK
<1>3. Shorter
  BY <1>2, PastShortens, UnwindsShortens DEF Read
<1>4. CASE UNCHANGED chunks
  BY <1>1, <1>3, <1>4, ShorterKeeps
<1>5. CASE chunks' = [chunks EXCEPT ![Top.chunk].slot[Statement.g] = This.id]
  <2>1. This.id \in Nat
    BY <1>2 DEF Living
  <2>2. DOMAIN chunks' = DOMAIN chunks /\ chunks' \in [DOMAIN chunks -> Resident]
    BY <1>2, <1>5, <2>1, SlotChanges DEF LInv, SlotSet
  <2>3. TypeOK'
    BY <1>1, <1>3, <2>2 DEF LInv, TypeOK, Shorter
  <2>4. Running'
    BY <1>1, <1>3, <2>2, StillRunning DEF LInv
  <2>5. LoadedOnce'
    BY <1>1 DEF LInv, LoadedOnce
  <2> QED BY <2>3, <2>4, <2>5 DEF LInv
<1> QED BY <1>4, <1>5 DEF Read

LEMMA BindKeeps ==
  ASSUME LInv, Bind
  PROVE  LInv'
<1>1. Ready /\ Statement.s = "bind" /\ UNCHANGED <<disk, serial>> /\ frames' = Past
  BY DEF Bind
<1>2. /\ frames # <<>> /\ frames \in Seq(Activation) /\ Top.chunk \in DOMAIN chunks
      /\ Top.at \in Address /\ Statement.g \in Global /\ This \in Living
  BY <1>1, AtStatement, Names DEF LInv, TypeOK
<1>3. Shorter
  BY <1>1, <1>2, PastShortens
<1>4. CASE UNCHANGED <<chunks, machines>>
  BY <1>1, <1>3, <1>4, ShorterKeeps
<1>5. CASE /\ chunks' = [chunks EXCEPT ![Top.chunk].slot[Statement.g] = This.id]
           /\ machines' = [machines EXCEPT ![Top.at].bound = @ \cup {Statement.g}]
  <2> DEFINE m == [This EXCEPT !.bound = @ \cup {Statement.g}]
  <2>1. OnceIn(This) /\ This.id \in Nat
    BY <1>2, LivingIsThere DEF LInv, LoadedOnce, OnceIn, This, Living
  <2>2. m \in Living /\ OnceIn(m)
    BY <1>2, <2>1 DEF Living, OnceIn
  <2>3. machines' = [machines EXCEPT ![Top.at] = m]
    BY <1>5 DEF This
  <2> HIDE DEF m
  <2>4. /\ machines' \in [Address -> Living \cup {Gone}] /\ LoadedOnce'
        /\ \A b \in Address : machines[b] # Gone => machines'[b] # Gone
    BY <1>2, <2>2, <2>3, MachineChanges DEF LInv
  <2>5. DOMAIN chunks' = DOMAIN chunks /\ chunks' \in [DOMAIN chunks -> Resident]
    BY <1>2, <1>5, <2>1, SlotChanges DEF LInv, SlotSet
  <2>6. TypeOK'
    BY <1>1, <1>3, <2>4, <2>5 DEF LInv, TypeOK, Shorter
  <2>7. Running'
    BY <1>3, <2>4, <2>5, StillRunning DEF LInv
  <2> QED BY <2>4, <2>6, <2>7 DEF LInv
<1> QED BY <1>4, <1>5 DEF Bind

\* A file is written down before there is no frame for it: it is known, and shut.
LEMMA TooDeepKeeps ==
  ASSUME LInv, Ready, NEW f \in File, TooDeep(f), UNCHANGED <<disk, serial>>
  PROVE  LInv'
<1> DEFINE m == [Remembered(f) EXCEPT !.shut = @ \cup {f}]
<1>1. /\ frames \in Seq(Activation) /\ Top.at \in Address /\ This \in Living /\ OnceIn(This)
  BY AtStatement, LivingIsThere DEF LInv, TypeOK, LoadedOnce, OnceIn, This
<1>2. m \in Living /\ OnceIn(m)
  BY <1>1 DEF Remembered, Living, OnceIn
<1>3. machines' = [machines EXCEPT ![Top.at] = m] /\ UNCHANGED chunks
  BY DEF TooDeep
<1> HIDE DEF m
<1>4. /\ machines' \in [Address -> Living \cup {Gone}] /\ LoadedOnce'
      /\ \A b \in Address : machines[b] # Gone => machines'[b] # Gone
  BY <1>1, <1>2, <1>3, MachineChanges DEF LInv
<1>5. Shorter
  BY <1>1, UnwindsShortens DEF TooDeep
<1>6. TypeOK'
  BY <1>3, <1>4, <1>5 DEF LInv, TypeOK, Shorter
<1>7. Running'
  BY <1>3, <1>4, <1>5, StillRunning DEF LInv
<1> QED BY <1>4, <1>6, <1>7 DEF LInv

\* A file is written down and begun.
LEMMA Begins ==
  ASSUME NEW m \in Living, NEW f \in File, OnceIn(m), m.began[f] = 0
  PROVE  LET n == [[m EXCEPT !.loaded = @ \cup {f}] EXCEPT !.began[f] = @ + 1] IN
         n \in Living /\ OnceIn(n) /\ n.id = m.id /\ n.bound = m.bound
<1> DEFINE n == [[m EXCEPT !.loaded = @ \cup {f}] EXCEPT !.began[f] = @ + 1]
           once == [m.began EXCEPT ![f] = @ + 1]
           l == [m EXCEPT !.loaded = @ \cup {f}]
<1>1. once \in [File -> Nat] /\ \A h \in File : once[h] = IF h = f THEN 1 ELSE m.began[h]
  BY DEF Living
<1>2. l \in Living /\ l.loaded = m.loaded \cup {f} /\ l.began = m.began /\ l.shut = m.shut
      /\ l.id = m.id /\ l.bound = m.bound
  BY DEF Living
<1>3. n = [l EXCEPT !.began = once]
  BY <1>2
<1> HIDE DEF once, l, n
<1>4. n \in Living /\ n.began = once /\ n.loaded = l.loaded /\ n.shut = l.shut
      /\ n.id = l.id /\ n.bound = l.bound
  BY <1>1, <1>2, <1>3 DEF Living
<1>5. OnceIn(n)
  BY <1>1, <1>2, <1>4 DEF OnceIn
<1> QED BY <1>2, <1>4, <1>5 DEF n

\* What a load that runs leaves: a machine that has the file, its code, and an
\* activation of it above the others.
LEMMA FileLoads ==
  ASSUME LInv, Ready, NEW f \in File, LoadFile(f), UNCHANGED <<disk, serial>>
  PROVE  LET c == <<This.id, f>> IN
         /\ c \in Key
         /\ machines' \in [Address -> Living \cup {Gone}] /\ LoadedOnce'
         /\ \A b \in Address : /\ machines[b] # Gone => machines'[b] # Gone
                               /\ machines'[b].id = machines[b].id
                               /\ machines'[b] # Gone => machines'[b].bound = machines[b].bound
         /\ DOMAIN chunks' = DOMAIN chunks \cup {c} /\ chunks' \in [DOMAIN chunks' -> Resident]
         /\ \A d \in DOMAIN chunks' : d # c => chunks'[d] = chunks[d]
         /\ chunks'[c].interned_for = This.id /\ \A g \in Global : chunks'[c].slot[g] = NoSlot
         /\ frames' \in Seq(Activation) /\ Len(frames') = Len(frames) + 1
         /\ \A i \in 1 .. Len(frames) : frames'[i] = frames[i]
         /\ frames'[Len(frames) + 1].at = Top.at /\ frames'[Len(frames) + 1].chunk = c
<1> DEFINE m == [Remembered(f) EXCEPT !.began[f] = @ + 1]
           c == <<This.id, f>>
           e == [Chunk(disk[f]) EXCEPT !.interned_for = This.id]
           a == Frame(Top.at, c)
<1>1. /\ frames \in Seq(Activation) /\ Top.at \in Address /\ This \in Living /\ OnceIn(This)
      /\ This = machines[Top.at]
  BY AtStatement, LivingIsThere DEF LInv, TypeOK, LoadedOnce, OnceIn, This
<1>2. This.id \in Nat \ {0} /\ c \in Key
  BY <1>1 DEF Living, Key
<1>3. f \notin This.loaded /\ This.began[f] \in Nat /\ f \in DOMAIN This.began
  BY <1>1 DEF LoadFile, Living
<1>4. This.began[f] = 0
  BY <1>1, <1>3 DEF OnceIn
<1>5. m \in Living /\ OnceIn(m) /\ m.id = This.id /\ m.bound = This.bound
  BY <1>1, <1>4, Begins, Zenon DEF Remembered
<1>7. disk[f] \in Text
  BY DEF LInv, TypeOK, LoadFile
<1>8. e \in Resident /\ e.interned_for = This.id /\ \A g \in Global : e.slot[g] = NoSlot
  BY <1>2, <1>7 DEF Chunk, Resident, NoSlot
<1>9. a \in Activation /\ a.at = Top.at /\ a.chunk = c
  BY <1>1, <1>2 DEF Frame, Activation
<1>10. /\ machines' = [machines EXCEPT ![Top.at] = m]
       /\ chunks' = [d \in DOMAIN chunks \cup {c} |-> IF d = c THEN e ELSE chunks[d]]
       /\ frames' = Append(frames, a)
  BY DEF LoadFile
<1> HIDE DEF m, c, e, a
<1>11. /\ machines' \in [Address -> Living \cup {Gone}] /\ LoadedOnce'
       /\ \A b \in Address : machines[b] # Gone => machines'[b] # Gone
  BY <1>1, <1>5, <1>10, MachineChanges DEF LInv
<1>12. \A b \in Address : machines'[b] = IF b = Top.at THEN m ELSE machines[b]
  BY <1>10 DEF LInv, TypeOK
<1>13. \A b \in Address : machines'[b].id = machines[b].id
                          /\ (machines'[b] # Gone => machines'[b].bound = machines[b].bound)
  BY <1>1, <1>5, <1>12
<1>14. /\ DOMAIN chunks' = DOMAIN chunks \cup {c} /\ chunks' \in [DOMAIN chunks' -> Resident]
       /\ \A d \in DOMAIN chunks' : d # c => chunks'[d] = chunks[d]
       /\ chunks'[c] = e
  BY <1>8, <1>10 DEF LInv, TypeOK
<1>15. /\ frames' \in Seq(Activation) /\ Len(frames') = Len(frames) + 1
       /\ \A i \in 1 .. Len(frames) : frames'[i] = frames[i]
       /\ frames'[Len(frames) + 1] = a
  BY <1>1, <1>9, <1>10, AppendProperties
<1> QED BY <1>2, <1>8, <1>9, <1>11, <1>13, <1>14, <1>15 DEF c

LEMMA LoadFileKeeps ==
  ASSUME LInv, Ready, NEW f \in File, LoadFile(f), UNCHANGED <<disk, serial>>
  PROVE  LInv'
<1> DEFINE c == <<This.id, f>>
<1>1. /\ c \in Key
      /\ machines' \in [Address -> Living \cup {Gone}] /\ LoadedOnce'
      /\ \A b \in Address : machines[b] # Gone => machines'[b] # Gone
      /\ DOMAIN chunks' = DOMAIN chunks \cup {c} /\ chunks' \in [DOMAIN chunks' -> Resident]
      /\ frames' \in Seq(Activation) /\ Len(frames') = Len(frames) + 1
      /\ \A i \in 1 .. Len(frames) : frames'[i] = frames[i]
      /\ frames'[Len(frames) + 1].at = Top.at /\ frames'[Len(frames) + 1].chunk = c
  BY FileLoads
<1> HIDE DEF c
<1>2. TypeOK'
  BY <1>1 DEF LInv, TypeOK
<1>3. /\ Top.at \in Address /\ machines[Top.at] # Gone /\ Len(frames) \in Nat
      /\ \A i \in 1 .. Len(frames) : frames[i] \in Activation
  BY AtStatement, LivingIsThere, LenProperties, ElementOfSeq DEF LInv, TypeOK, This
<1>4. ASSUME NEW i \in 1 .. Len(frames) + 1
      PROVE  machines'[frames'[i].at] # Gone /\ frames'[i].chunk \in DOMAIN chunks'
  <2>1. CASE i = Len(frames) + 1
    BY <1>1, <1>3, <2>1
  <2>2. CASE i # Len(frames) + 1
    <3>1. i \in 1 .. Len(frames)
      BY <1>3, <2>2
    <3>2. frames[i].at \in Address
      BY <1>3, <3>1 DEF Activation
    <3> QED BY <1>1, <3>1, <3>2 DEF LInv, Running
  <2> QED BY <2>1, <2>2
<1>5. Running'
  BY <1>1, <1>4 DEF Running
<1> QED BY <1>1, <1>2, <1>5 DEF LInv

LEMMA LoadKeeps ==
  ASSUME LInv, Load
  PROVE  LInv'
<1> DEFINE f == Real[Statement.path]
<1>1. Ready /\ f \in File /\ UNCHANGED <<disk, serial>>
  BY AtStatement, Names DEF Load, LInv
<1>2. frames \in Seq(Activation) /\ frames # <<>>
  BY <1>1, AtStatement DEF LInv, TypeOK
<1>3. Known(f) \/ Refused(f) \/ TooDeep(f) \/ LoadFile(f)
  BY DEF Load
<1> HIDE DEF f
<1>4. CASE Known(f)
  BY <1>1, <1>2, <1>4, PastShortens, ShorterKeeps DEF Known
<1>5. CASE Refused(f)
  BY <1>1, <1>2, <1>5, UnwindsShortens, ShorterKeeps DEF Refused
<1>6. CASE TooDeep(f)
  BY <1>1, <1>6, TooDeepKeeps
<1>7. CASE LoadFile(f)
  BY <1>1, <1>7, LoadFileKeeps
<1> QED BY <1>3, <1>4, <1>5, <1>6, <1>7

LEMMA FinishKeeps ==
  ASSUME LInv, Finish
  PROVE  LInv'
<1>1. Shorter
  BY FinishShortens DEF LInv, TypeOK
<1> QED BY <1>1, ShorterKeeps DEF Finish

LEMMA StutterKeeps ==
  ASSUME LInv, UNCHANGED vars
  PROVE  LInv'
BY DEF LInv, TypeOK, Running, LoadedOnce, vars

LEMMA LoadingKeeps == LoadingAssumption /\ LInv /\ [Next]_vars => LInv'
<1> SUFFICES ASSUME LoadingAssumption, LInv, [Next]_vars PROVE LInv'
  OBVIOUS
<1>1. ASSUME NEW a \in Address, NewMachine(a) \/ FreeMachine(a) \/ Run(a) \/ Ask(a) PROVE LInv'
  BY <1>1, NewMachineKeeps, FreeMachineKeeps, RunKeeps, AskKeeps
<1>2. ASSUME NEW f \in File, NEW texts \in Texts, texts[f] # Unusable, Recompile(f, texts[f]) PROVE LInv'
  BY <1>2, RecompileKeeps
<1>3. CASE Step
  BY <1>3, ReadKeeps, BindKeeps, LoadKeeps, FinishKeeps DEF Step
<1> QED BY <1>1, <1>2, <1>3, StutterKeeps DEF Next

\* Whatever the files hold, whatever paths lead to them and in whatever order
\* machines come, go and load them: a machine runs a file once at most, and says
\* that it has one only if it began it, or had no frame for it (builtins.c:4998).
THEOREM OnceLoaded == LoadingAssumption => (Spec => []LoadedOnce)
<1> SUFFICES ASSUME LoadingAssumption PROVE Spec => []LoadedOnce
  OBVIOUS
<1>1. Init => LInv
  BY LoadingInitially
<1>2. LInv /\ [Next]_vars => LInv'
  BY LoadingKeeps
<1>3. LInv => LoadedOnce
  BY DEF LInv
<1> QED BY <1>1, <1>2, <1>3, PTL DEF Spec

-----------------------------------------------------------------------------
(* A chunk that runs speaks the names of the machine that runs it          *)

\* The serials of machines that are the same ones.
LEMMA SerialsStay ==
  ASSUME Serials, serial' = serial,
         \A b \in Address : /\ machines'[b].id = machines[b].id
                            /\ machines'[b] # Gone => machines[b] # Gone
  PROVE  Serials'
BY DEF Serials

\* Fewer activations, of chunks resolved for whom they were.
LEMMA StillOwned ==
  ASSUME TypeOK, Running, Alone, Owned, Shorter,
         \A d \in DOMAIN chunks : chunks'[d].interned_for = chunks[d].interned_for,
         \A b \in Address : machines'[b].id = machines[b].id
  PROVE  Alone' /\ Owned'
<1>1. ASSUME NEW i \in 1 .. Len(frames')
      PROVE  /\ i \in 1 .. Len(frames) /\ frames[i] \in Activation
             /\ frames'[i].at = frames[i].at /\ frames'[i].chunk = frames[i].chunk
  BY LenProperties, ElementOfSeq DEF Shorter, TypeOK
<1>2. Alone'
  BY <1>1 DEF Alone
<1>3. ASSUME NEW i \in 1 .. Len(frames')
      PROVE  chunks'[frames'[i].chunk].interned_for = machines'[frames'[i].at].id
  <2>1. frames[i].at \in Address
    BY <1>1 DEF Activation
  <2>2. frames[i].chunk \in DOMAIN chunks
    BY <1>1 DEF Running
  <2>3. chunks[frames[i].chunk].interned_for = machines[frames[i].at].id
    BY <1>1 DEF Owned, Code
  <2> QED BY <1>1, <2>1, <2>2, <2>3
<1>4. Owned'
  BY <1>3 DEF Owned, Code
<1> QED BY <1>2, <1>4

\* Fewer activations, and nothing else that names depend on.
LEMMA ShorterOwns ==
  ASSUME NInv, Shorter, UNCHANGED <<chunks, serial>>,
         \A b \in Address : /\ machines'[b].id = machines[b].id
                            /\ machines'[b] # Gone => machines[b] # Gone /\ machines'[b].bound = machines[b].bound
  PROVE  Own'
<1>1. Serials'
  BY SerialsStay DEF NInv, Own
<1>2. Alone' /\ Owned'
  BY StillOwned DEF NInv, Own, LInv
<1>3. SlotsKept'
  BY DEF NInv, Own, SlotsKept
<1> QED BY <1>1, <1>2, <1>3 DEF Own

LEMMA OwnInitially == Init => Own
<1> SUFFICES ASSUME Init PROVE Own
  OBVIOUS
<1>1. Serials
  BY DEF Init, Serials
<1>2. Len(frames) = 0
  BY EmptySeq DEF Init
<1>3. Alone /\ Owned
  BY <1>2 DEF Alone, Owned
<1>4. SlotsKept
  BY DEF Init, SlotsKept, Chunk
<1> QED BY <1>1, <1>3, <1>4 DEF Own

LEMMA NewMachineOwns ==
  ASSUME NInv, NEW a \in Address, NewMachine(a)
  PROVE  Own'
<1>1. serial \in Nat /\ serial' = serial + 1 /\ machines \in [Address -> Living \cup {Gone}]
  BY DEF NInv, LInv, TypeOK, NewMachine
<1>2. \A b \in Address : machines'[b] = IF b = a THEN Machine(serial) ELSE machines[b]
  BY <1>1 DEF NewMachine
<1>3. \A b \in Address : machines[b] # Gone => machines[b].id \in Nat /\ machines[b].id < serial
  BY <1>1 DEF NInv, Own, Serials, Living
<1>4. Machine(serial).id = serial
  BY DEF Machine
<1>5. Serials'
  BY <1>1, <1>2, <1>3, <1>4 DEF NInv, Own, Serials
<1>6. Len(frames') = 0
  BY EmptySeq DEF NewMachine
<1>7. Alone' /\ Owned'
  BY <1>6 DEF Alone, Owned
<1>8. ASSUME NEW c \in DOMAIN chunks
      PROVE  chunks[c].interned_for \in Nat /\ chunks[c].interned_for < serial
  BY DEF NInv, LInv, Own, TypeOK, SlotsKept, Resident
<1>9. UNCHANGED chunks
  BY DEF NewMachine
<1>10. SlotsKept'
  BY <1>1, <1>2, <1>4, <1>8, <1>9 DEF NInv, Own, SlotsKept
<1> QED BY <1>5, <1>7, <1>10 DEF Own

LEMMA FreeMachineOwns ==
  ASSUME NInv, NEW a \in Address, FreeMachine(a)
  PROVE  Own'
<1>1. \A b \in Address : machines'[b] # Gone => machines[b] # Gone /\ machines'[b] = machines[b]
  BY DEF NInv, LInv, TypeOK, FreeMachine
<1>2. Serials'
  BY <1>1 DEF NInv, Own, Serials, FreeMachine
<1>3. Len(frames') = 0
  BY EmptySeq DEF FreeMachine
<1>4. Alone' /\ Owned'
  BY <1>3 DEF Alone, Owned
<1>5. /\ DOMAIN chunks' \subseteq DOMAIN chunks /\ serial' = serial
      /\ \A c \in DOMAIN chunks' : chunks'[c] = chunks[c]
  BY DEF FreeMachine
<1>6. SlotsKept'
  BY <1>1, <1>5 DEF NInv, Own, SlotsKept
<1> QED BY <1>2, <1>4, <1>6 DEF Own

\* One activation, of a chunk resolved for its machine.
LEMMA FirstOwned ==
  ASSUME Len(frames') = 1,
         chunks'[frames'[1].chunk].interned_for = machines'[frames'[1].at].id
  PROVE  Alone' /\ Owned'
BY DEF Alone, Owned, Code

LEMMA RunOwns ==
  ASSUME NInv, NEW a \in Address, Run(a)
  PROVE  Own'
<1>1. /\ machines[a] \in Living /\ machines[a].id < serial /\ serial' = serial
      /\ machines \in [Address -> Living \cup {Gone}] /\ machines[a] # Gone
      /\ machines' = [machines EXCEPT ![a].ran = TRUE]
  BY DEF NInv, LInv, Own, TypeOK, Serials, Run
<1>2. \A b \in Address : /\ machines'[b].id = machines[b].id
                         /\ machines'[b] # Gone => machines[b] # Gone /\ machines'[b].bound = machines[b].bound
  BY <1>1 DEF Living
<1>3. Serials'
  BY <1>1, <1>2, SerialsStay DEF NInv, Own
<1>4. chunks \in [DOMAIN chunks -> Resident] /\ {HostChunk, HostBlock} \subseteq DOMAIN chunks
  BY DEF NInv, LInv, TypeOK
<1>5. /\ DOMAIN chunks' = DOMAIN chunks
      /\ \A c \in DOMAIN chunks : chunks'[c] = IF c \in {HostChunk, HostBlock}
                                               THEN Interned(chunks[c], a) ELSE chunks[c]
  BY <1>4 DEF Run
<1>6. ASSUME NEW c \in Resident
      PROVE  /\ Interned(c, a).interned_for = machines[a].id
             /\ Interned(c, a) = c \/ \A g \in Global : Interned(c, a).slot[g] = NoSlot
  BY DEF Interned, Resident
<1>7. frames'[1].chunk = HostChunk /\ frames'[1].at = a /\ Len(frames') = 1
  BY FirstFrame DEF Run, Key
<1>8. Alone' /\ Owned'
  BY <1>2, <1>4, <1>5, <1>6, <1>7, FirstOwned
<1>9. ASSUME NEW c \in DOMAIN chunks
      PROVE  /\ chunks'[c].interned_for < serial
             /\ chunks'[c] = chunks[c] \/ \A g \in Global : chunks'[c].slot[g] = NoSlot
  BY <1>1, <1>4, <1>5, <1>6 DEF NInv, Own, SlotsKept
<1>10. SlotsKept'
  BY <1>1, <1>2, <1>5, <1>9 DEF NInv, Own, SlotsKept
<1> QED BY <1>3, <1>8, <1>10 DEF Own

\* This is where the host must not ask a machine once another has run the chunk.
LEMMA AskOwns ==
  ASSUME ~HostAsks, NInv, NEW a \in Address, Ask(a)
  PROVE  Own'
<1>1. UNCHANGED <<machines, chunks, serial>> /\ chunks[HostBlock].interned_for = machines[a].id
  BY DEF Ask
<1>2. Serials' /\ SlotsKept'
  BY <1>1 DEF NInv, Own, Serials, SlotsKept
<1>3. frames'[1].chunk = HostBlock /\ frames'[1].at = a /\ Len(frames') = 1
  BY FirstFrame DEF Ask, Key
<1>4. Alone' /\ Owned'
  BY <1>1, <1>3, FirstOwned
<1> QED BY <1>2, <1>4 DEF Own

LEMMA RecompileOwns ==
  ASSUME NInv, NEW f \in File, NEW text, Recompile(f, text)
  PROVE  Own'
BY DEF NInv, Own, Serials, Alone, Owned, Code, SlotsKept, Recompile

\* The chunk that runs is resolved for the machine that runs it, which has a serial.
LEMMA TopOwned ==
  ASSUME NInv, Ready
  PROVE  /\ chunks[Top.chunk].interned_for = This.id
         /\ This.id \in Nat /\ This.id < serial /\ This = machines[Top.at]
         /\ \A b \in Address : (machines[b] # Gone /\ machines[b].id = This.id) => b = Top.at
<1>1. /\ Len(frames) \in 1 .. Len(frames) /\ Top.at \in Address /\ This \in Living
      /\ This = machines[Top.at] /\ Code(Len(frames)) = chunks[Top.chunk] /\ frames # <<>>
  BY AtStatement DEF NInv, LInv, This
<1>2. Top = frames[Len(frames)]
  BY <1>1 DEF Top, Last
<1>3. chunks[Top.chunk].interned_for = This.id
  BY <1>1, <1>2 DEF NInv, Own, Owned
<1>4. This.id \in Nat /\ This # Gone
  BY <1>1, LivingIsThere DEF Living
<1> QED BY <1>1, <1>3, <1>4 DEF NInv, Own, Serials

\* A slot is kept of a global that the machine that runs has by then.
LEMMA SlotOwns ==
  ASSUME NInv, Ready, Shorter, NEW g \in Global, serial' = serial,
         SlotSet(Top.chunk, g, This.id),
         \A b \in Address : /\ machines'[b].id = machines[b].id
                            /\ machines'[b] # Gone => /\ machines[b] # Gone
                                                      /\ machines[b].bound \subseteq machines'[b].bound,
         g \in machines'[Top.at].bound
  PROVE  Own'
<1>1. Serials'
  BY SerialsStay DEF NInv, Own
<1>2. Alone' /\ Owned'
  BY StillOwned DEF NInv, Own, LInv, SlotSet
<1>3. Top.chunk \in DOMAIN chunks
  BY AtStatement DEF NInv, LInv
<1>4. ASSUME NEW c \in DOMAIN chunks, NEW h \in Global, chunks'[c].slot[h] # NoSlot
      PROVE  /\ chunks'[c].slot[h] = chunks'[c].interned_for
             /\ \A a \in Address : (machines'[a] # Gone /\ machines'[a].id = chunks'[c].interned_for)
                                     => h \in machines'[a].bound
  <2>1. CASE c = Top.chunk /\ h = g
    <3>1. chunks'[c].slot[h] = This.id /\ chunks'[c].interned_for = This.id
      BY <1>3, <2>1, TopOwned DEF SlotSet
    <3>2. ASSUME NEW a \in Address, machines'[a] # Gone, machines'[a].id = This.id
          PROVE  h \in machines'[a].bound
      BY <2>1, <3>2, TopOwned
    <3> QED BY <3>1, <3>2
  <2>2. CASE c # Top.chunk \/ h # g
    <3>1. /\ chunks'[c].slot[h] = chunks[c].slot[h]
          /\ chunks'[c].interned_for = chunks[c].interned_for
      BY <2>2 DEF SlotSet
    <3> QED BY <1>4, <3>1 DEF NInv, Own, SlotsKept
  <2> QED BY <2>1, <2>2
<1>5. SlotsKept'
  BY <1>4 DEF NInv, Own, SlotsKept, SlotSet
<1> QED BY <1>1, <1>2, <1>5 DEF Own

LEMMA ReadOwns ==
  ASSUME NInv, Read
  PROVE  Own'
<1>1. Ready /\ Statement.s = "read" /\ UNCHANGED <<disk, machines, serial>>
  BY DEF Read
<1>2. /\ frames # <<>> /\ frames \in Seq(Activation) /\ Statement.g \in Global
  BY <1>1, AtStatement, Names DEF NInv, LInv, TypeOK
<1>3. Shorter
  BY <1>2, PastShortens, UnwindsShortens DEF Read
<1>4. CASE UNCHANGED chunks
  BY <1>1, <1>3, <1>4, ShorterOwns
<1>5. CASE /\ chunks' = [chunks EXCEPT ![Top.chunk].slot[Statement.g] = This.id]
           /\ Statement.g \in This.bound
  <2>1. Statement.g \in machines'[Top.at].bound
    BY <1>1, <1>5 DEF This
  <2> DEFINE g == Statement.g
             c == Top.chunk
             n == This.id
  <2>2. /\ chunks' = [chunks EXCEPT ![c].slot[g] = n] /\ g \in machines'[Top.at].bound
        /\ g \in Global /\ c \in DOMAIN chunks /\ n \in Nat /\ TypeOK
    BY <1>1, <1>2, <1>5, <2>1, AtStatement, TopOwned DEF NInv, LInv
  <2> HIDE DEF g, c, n
  <2>3. SlotSet(c, g, n)
    BY <2>2, SlotChanges
  <2> QED BY <1>1, <1>3, <2>2, <2>3, SlotOwns DEF c, n
<1> QED BY <1>4, <1>5 DEF Read

LEMMA BindOwns ==
  ASSUME NInv, Bind
  PROVE  Own'
<1>1. Ready /\ Statement.s = "bind" /\ UNCHANGED <<disk, serial>> /\ frames' = Past
  BY DEF Bind
<1>2. /\ frames # <<>> /\ frames \in Seq(Activation) /\ Top.at \in Address
      /\ Statement.g \in Global /\ This \in Living /\ This # Gone
      /\ machines \in [Address -> Living \cup {Gone}]
  BY <1>1, AtStatement, Names, LivingIsThere DEF NInv, LInv, TypeOK
<1>3. Shorter
  BY <1>1, <1>2, PastShortens
<1>4. CASE UNCHANGED <<chunks, machines>>
  BY <1>1, <1>3, <1>4, ShorterOwns
<1>5. CASE /\ chunks' = [chunks EXCEPT ![Top.chunk].slot[Statement.g] = This.id]
           /\ machines' = [machines EXCEPT ![Top.at].bound = @ \cup {Statement.g}]
  <2> DEFINE g == Statement.g
             c == Top.chunk
             n == This.id
             m == [This EXCEPT !.bound = @ \cup {g}]
  <2>1. m.id = This.id /\ m.bound = This.bound \cup {g}
    BY <1>2 DEF Living
  <2>2. /\ chunks' = [chunks EXCEPT ![c].slot[g] = n] /\ g \in Global
        /\ c \in DOMAIN chunks /\ n \in Nat /\ TypeOK
        /\ machines' = [machines EXCEPT ![Top.at] = m]
    BY <1>1, <1>2, <1>5, AtStatement, TopOwned DEF This, NInv, LInv
  <2> HIDE DEF g, c, n, m
  <2>3. \A b \in Address : machines'[b] = IF b = Top.at THEN m ELSE machines[b]
    BY <1>2, <2>2
  <2>4. \A b \in Address : /\ machines'[b].id = machines[b].id
                           /\ machines'[b] # Gone => /\ machines[b] # Gone
                                                     /\ machines[b].bound \subseteq machines'[b].bound
    BY <1>2, <2>1, <2>3 DEF This
  <2>5. g \in machines'[Top.at].bound
    BY <1>2, <2>1, <2>3
  <2>6. SlotSet(c, g, n)
    BY <2>2, SlotChanges
  <2> QED BY <1>1, <1>3, <2>2, <2>4, <2>5, <2>6, SlotOwns DEF c, n
<1> QED BY <1>4, <1>5 DEF Bind

LEMMA TooDeepOwns ==
  ASSUME NInv, Ready, NEW f \in File, TooDeep(f), UNCHANGED <<disk, serial>>
  PROVE  Own'
<1> DEFINE m == [Remembered(f) EXCEPT !.shut = @ \cup {f}]
<1>1. /\ frames \in Seq(Activation) /\ Top.at \in Address /\ This \in Living /\ This # Gone
      /\ machines \in [Address -> Living \cup {Gone}]
  BY AtStatement, LivingIsThere DEF NInv, LInv, TypeOK
<1>2. m.id = This.id /\ m.bound = This.bound
  BY <1>1 DEF Remembered, Living
<1>3. machines' = [machines EXCEPT ![Top.at] = m] /\ UNCHANGED chunks
  BY DEF TooDeep
<1> HIDE DEF m
<1>4. \A b \in Address : /\ machines'[b].id = machines[b].id
                         /\ machines'[b] # Gone => machines[b] # Gone /\ machines'[b].bound = machines[b].bound
  BY <1>1, <1>2, <1>3 DEF This
<1>5. Shorter
  BY <1>1, UnwindsShortens DEF TooDeep
<1> QED BY <1>3, <1>4, <1>5, ShorterOwns

\* The code of a file is resolved for the machine that loads it, and none other runs.
LEMMA LoadFileOwns ==
  ASSUME NInv, Ready, NEW f \in File, LoadFile(f), UNCHANGED <<disk, serial>>
  PROVE  Own'
<1> DEFINE c == <<This.id, f>>
<1>1. /\ \A b \in Address : /\ machines[b] # Gone => machines'[b] # Gone
                            /\ machines'[b].id = machines[b].id
                            /\ machines'[b] # Gone => machines'[b].bound = machines[b].bound
      /\ DOMAIN chunks' = DOMAIN chunks \cup {c}
      /\ \A d \in DOMAIN chunks' : d # c => chunks'[d] = chunks[d]
      /\ chunks'[c].interned_for = This.id /\ \A g \in Global : chunks'[c].slot[g] = NoSlot
      /\ Len(frames') = Len(frames) + 1
      /\ \A i \in 1 .. Len(frames) : frames'[i] = frames[i]
      /\ frames'[Len(frames) + 1].at = Top.at /\ frames'[Len(frames) + 1].chunk = c
  BY FileLoads DEF NInv
<1> HIDE DEF c
<1>2. \A b \in Address : machines'[b] # Gone => machines[b] # Gone
  <2>1. machines \in [Address -> Living \cup {Gone}] /\ machines[Top.at] # Gone
    BY AtStatement, LivingIsThere DEF NInv, LInv, TypeOK, This
  <2> QED BY <2>1 DEF LoadFile
<1>3. Serials'
  BY <1>1, <1>2, SerialsStay DEF NInv, Own
<1>4. /\ Len(frames) \in 1 .. Len(frames) /\ Len(frames) \in Nat /\ Top = frames[Len(frames)]
      /\ \A i \in 1 .. Len(frames) : frames[i] \in Activation
      /\ This = machines[Top.at] /\ Top.at \in Address
  BY AtStatement, LenProperties, ElementOfSeq DEF NInv, LInv, TypeOK, Top, Last, This
<1>5. ASSUME NEW i \in 1 .. Len(frames) + 1
      PROVE  frames'[i].at = Top.at
  BY <1>1, <1>4 DEF NInv, Own, Alone
<1>6. Alone'
  BY <1>1, <1>5 DEF Alone
<1>7. ASSUME NEW i \in 1 .. Len(frames) + 1
      PROVE  chunks'[frames'[i].chunk].interned_for = machines'[frames'[i].at].id
  <2>1. machines'[frames'[i].at].id = This.id
    BY <1>1, <1>4, <1>5
  <2>2. CASE frames'[i].chunk = c
    BY <1>1, <2>1, <2>2
  <2>3. CASE frames'[i].chunk # c
    <3>1. i \in 1 .. Len(frames) /\ frames'[i] = frames[i]
      BY <1>1, <1>4, <2>3
    <3>2. chunks[frames[i].chunk].interned_for = machines[frames[i].at].id /\ frames[i].at = Top.at
      BY <1>4, <3>1 DEF NInv, Own, Owned, Alone, Code
    <3>3. frames[i].chunk \in DOMAIN chunks
      BY <3>1 DEF NInv, LInv, Running
    <3> QED BY <1>1, <1>4, <2>1, <2>3, <3>1, <3>2, <3>3
  <2> QED BY <2>2, <2>3
<1>8. Owned'
  BY <1>1, <1>7 DEF Owned, Code
<1>9. SlotsKept'
  <2>1. This.id < serial
    BY TopOwned
  <2>2. ASSUME NEW d \in DOMAIN chunks', d # c
        PROVE  d \in DOMAIN chunks /\ chunks'[d] = chunks[d]
    BY <1>1, <2>2
  <2> QED BY <1>1, <1>2, <2>1, <2>2 DEF NInv, Own, SlotsKept
<1> QED BY <1>3, <1>6, <1>8, <1>9 DEF Own

LEMMA LoadOwns ==
  ASSUME NInv, Load
  PROVE  Own'
<1> DEFINE f == Real[Statement.path]
<1>1. Ready /\ f \in File /\ UNCHANGED <<disk, serial>>
  BY AtStatement, Names DEF Load, NInv, LInv
<1>2. frames \in Seq(Activation) /\ frames # <<>>
  BY <1>1, AtStatement DEF NInv, LInv, TypeOK
<1>3. Known(f) \/ Refused(f) \/ TooDeep(f) \/ LoadFile(f)
  BY DEF Load
<1> HIDE DEF f
<1>4. CASE Known(f)
  BY <1>1, <1>2, <1>4, PastShortens, ShorterOwns DEF Known
<1>5. CASE Refused(f)
  BY <1>1, <1>2, <1>5, UnwindsShortens, ShorterOwns DEF Refused
<1>6. CASE TooDeep(f)
  BY <1>1, <1>6, TooDeepOwns
<1>7. CASE LoadFile(f)
  BY <1>1, <1>7, LoadFileOwns
<1> QED BY <1>3, <1>4, <1>5, <1>6, <1>7

LEMMA FinishOwns ==
  ASSUME NInv, Finish
  PROVE  Own'
<1>1. Shorter
  BY FinishShortens DEF NInv, LInv, TypeOK
<1> QED BY <1>1, ShorterOwns DEF Finish

LEMMA StutterOwns ==
  ASSUME NInv, UNCHANGED vars
  PROVE  Own'
BY DEF NInv, Own, Serials, Alone, Owned, Code, SlotsKept, vars

LEMMA OwnKeeps == LoadingAssumption /\ ~HostAsks /\ NInv /\ [Next]_vars => NInv'
<1> SUFFICES ASSUME LoadingAssumption, ~HostAsks, NInv, [Next]_vars PROVE NInv'
  OBVIOUS
<1>1. LInv'
  BY LoadingKeeps DEF NInv
<1>2. ASSUME NEW a \in Address, NewMachine(a) \/ FreeMachine(a) \/ Run(a) \/ Ask(a) PROVE Own'
  BY <1>2, NewMachineOwns, FreeMachineOwns, RunOwns, AskOwns
<1>3. ASSUME NEW f \in File, NEW texts \in Texts, texts[f] # Unusable, Recompile(f, texts[f]) PROVE Own'
  BY <1>3, RecompileOwns
<1>4. ASSUME Step PROVE Own'
  BY <1>4, ReadOwns, BindOwns, LoadOwns, FinishOwns DEF Step
<1>5. Own'
  BY <1>2, <1>3, <1>4, StutterOwns DEF Next
<1> QED BY <1>1, <1>5 DEF NInv

\* What runs is resolved for who runs it, and a slot kept is of who it is resolved for.
LEMMA OwnNames == NInv => NamesOwn
<1> SUFFICES ASSUME NInv, NEW i \in DOMAIN frames
             PROVE  /\ Code(i).interned_for = machines[frames[i].at].id
                    /\ \A g \in Global : Code(i).slot[g] # NoSlot =>
                         /\ Code(i).slot[g] = machines[frames[i].at].id
                         /\ g \in machines[frames[i].at].bound
  BY DEF NamesOwn
<1>1. i \in 1 .. Len(frames) /\ frames[i] \in Activation
  BY LenProperties, ElementOfSeq DEF NInv, LInv, TypeOK
<1>2. frames[i].at \in Address
  BY <1>1 DEF Activation
<1>3. machines[frames[i].at] # Gone /\ frames[i].chunk \in DOMAIN chunks
  BY <1>1 DEF NInv, LInv, Running
<1>4. Code(i).interned_for = machines[frames[i].at].id
  BY <1>1 DEF NInv, Own, Owned
<1> QED BY <1>2, <1>3, <1>4 DEF NInv, Own, SlotsKept, Code

\* However machines come and go, one at the address of another, and run one chunk
\* in turn: a chunk that runs has the names of the machine that runs it, and slots
\* of globals that this one has; if no machine is asked for what the chunk left
\* there once another has run it, which embed.h has a host do (bytecode.h:144, 184).
THEOREM OwnsNames == LoadingAssumption /\ ~HostAsks => (Spec => []NamesOwn)
<1> SUFFICES ASSUME LoadingAssumption, ~HostAsks PROVE Spec => []NamesOwn
  OBVIOUS
<1>1. Init => NInv
  BY LoadingInitially, OwnInitially DEF NInv
<1>2. NInv /\ [Next]_vars => NInv'
  BY OwnKeeps
<1> QED BY <1>1, <1>2, OwnNames, PTL DEF Spec

===============================================================================
