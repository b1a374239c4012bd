------------------------------ MODULE ToolsProof ------------------------------
(***************************************************************************)
(* What is proved of the parts of Tools.                                   *)
(*                                                                         *)
(* Files are compiled as though their text stood where they are first      *)
(* included, solid stops where it was asked to, and every byte of standard *)
(* input goes to one reader, for any files, programs and lines, and to any *)
(* depth.                                                                  *)
(***************************************************************************)
EXTENDS Tools, Iteration, SequenceTheorems, TLAPS

\* A sequence of whatever.
Row(s) == \E S : s \in Seq(S)

\* A sequence of frames: the last of them, those under it, and one more.
LEMMA RowIs ==
  ASSUME NEW s, Row(s)
  PROVE  /\ Len(s) \in Nat /\ (s = <<>> <=> Len(s) = 0)
         /\ s # <<>> => /\ I!Last(s) = s[Len(s)] /\ Len(s) >= 1
                        /\ Row(I!Front(s)) /\ Len(I!Front(s)) = Len(s) - 1
                        /\ \A k \in 1 .. Len(s) - 1 : I!Front(s)[k] = s[k]
<1>1. PICK S : s \in Seq(S)
  BY DEF Row
<1>2. Len(s) \in Nat /\ (s = <<>> <=> Len(s) = 0)
  BY <1>1, EmptySeq
<1>3. ASSUME s # <<>>
      PROVE  /\ I!Last(s) = s[Len(s)] /\ Len(s) >= 1
             /\ Row(I!Front(s)) /\ Len(I!Front(s)) = Len(s) - 1
             /\ \A k \in 1 .. Len(s) - 1 : I!Front(s)[k] = s[k]
  <2>1. Len(s) \in Nat \ {0} /\ I!Last(s) = s[Len(s)]
    BY <1>2, <1>3 DEF I!Last
  <2> DEFINE t == SubSeq(s, 1, Len(s) - 1)
             n == Len(s) - 1
  <2>2. n \in Nat /\ 1 \in Int /\ \A i \in 1 .. n : s[i] \in S
    BY <1>1, <2>1
  <2>3. t \in Seq(S) /\ Len(t) = IF 1 <= n THEN n - 1 + 1 ELSE 0
    <3> HIDE DEF n
    <3>1. SubSeq(s, 1, n) \in Seq(S) /\ Len(SubSeq(s, 1, n)) = IF 1 <= n THEN n - 1 + 1 ELSE 0
      BY <2>2, SubSeqProperties
    <3> QED BY <3>1 DEF n
  <2>4. \A k \in 1 .. n : t[k] = s[k]
    BY <2>1
  <2>5. I!Front(s) = t
    BY DEF I!Front
  <2>6. Len(t) = n
    <3> HIDE DEF n, t
    <3>1. CASE n >= 1
      BY <2>2, <2>3, <3>1
    <3>2. CASE n = 0
      BY <2>2, <2>3, <3>2
    <3> QED BY <2>2, <3>1, <3>2
  <2> HIDE DEF t
  <2> QED BY <2>1, <2>2, <2>3, <2>4, <2>5, <2>6 DEF Row
<1> QED BY <1>2, <1>3

LEMMA Pushed ==
  ASSUME NEW s, NEW f, Row(s)
  PROVE  /\ Row(Append(s, f)) /\ Len(Append(s, f)) = Len(s) + 1
         /\ \A k \in 1 .. Len(s) : Append(s, f)[k] = s[k]
         /\ Append(s, f)[Len(s) + 1] = f
<1>1. PICK S : s \in Seq(S)
  BY DEF Row
<1>2. s \in Seq(S \cup {f}) /\ f \in S \cup {f}
  BY <1>1
<1>3. /\ Append(s, f) \in Seq(S \cup {f}) /\ Len(Append(s, f)) = Len(s) + 1
      /\ \A k \in 1 .. Len(s) : Append(s, f)[k] = s[k]
      /\ Append(s, f)[Len(s) + 1] = f
  BY <1>2, AppendProperties
<1> QED BY <1>3 DEF Row

Put(s, n, f) == [s EXCEPT ![n] = f]

LEMMA Changed ==
  ASSUME NEW s, NEW f, NEW n, Row(s), n \in 1 .. Len(s)
  PROVE  /\ Row(Put(s, n, f)) /\ Len(Put(s, n, f)) = Len(s)
         /\ \A k \in 1 .. Len(s) : Put(s, n, f)[k] = IF k = n THEN f ELSE s[k]
<1>1. PICK S : s \in Seq(S)
  BY DEF Row
<1>2. s \in Seq(S \cup {f}) /\ f \in S \cup {f}
  BY <1>1
<1> DEFINE t == Put(s, n, f)
<1>3. t \in Seq(S \cup {f}) /\ Len(t) = Len(s) /\ \A k \in 1 .. Len(s) : t[k] = IF k = n THEN f ELSE s[k]
  <2>1. t = [s EXCEPT ![n] = f]
    BY DEF Put
  <2> HIDE DEF t
  <2> QED BY <1>2, <2>1, ExceptSeq
<1> QED BY <1>3 DEF Row

\* The same of a stack of frames.
LEMMA StackIs ==
  ASSUME NEW s, Row(s)
  PROVE  /\ Len(s) \in Nat /\ (s = <<>> <=> Len(s) = 0)
         /\ s # <<>> => /\ D!Last(s) = s[Len(s)] /\ Len(s) >= 1
                        /\ Row(D!Front(s)) /\ Len(D!Front(s)) = Len(s) - 1
                        /\ \A k \in 1 .. Len(s) - 1 : D!Front(s)[k] = s[k]
<1>1. D!Last(s) = I!Last(s) /\ D!Front(s) = I!Front(s)
  BY DEF D!Last, I!Last, D!Front, I!Front
<1> QED BY <1>1, RowIs

-----------------------------------------------------------------------------
(* Includes                                                                *)

\* What a path may lead to.
Files == {at[p] : p \in {p \in DOMAIN at : at[p] # Missing}}

Reads == 1 .. Len(reading)
Emits == 1 .. Len(emitted)

\* A file being compiled.
Opened(r) ==
  /\ r.path \in DOMAIN at /\ r.file = at[r.path] /\ r.file \in included
  /\ r.next \in Nat \ {0} /\ r.had_error \in BOOLEAN

Opens ==
  /\ Row(reading) /\ \A k \in Reads : Opened(reading[k])
  /\ \A j, k \in Reads : reading[j].file = reading[k].file => j = k
  /\ included \subseteq Files

WasEmitted(f, i) == \E n \in Emits : emitted[n] = <<f, i>>

Ends ==
  /\ ended \in {"no", "failed", "succeeded"}
  /\ ended = "no" <=> reading # <<>>
  /\ ended = "no" => (errors # {} <=> \E k \in Reads : reading[k].had_error)
  /\ ended # "no" => (ended = "failed" <=> errors # {})

\* Of the files being compiled what is before the next statement was emitted and
\* nothing else; of those that were, everything; but for what was passed over.
Emitted ==
  /\ Row(emitted)
  /\ \A n \in Emits :
       /\ emitted[n] = <<emitted[n][1], emitted[n][2]>> /\ emitted[n][1] \in included /\ emitted[n][2] \in Nat
       /\ \A k \in Reads : reading[k].file = emitted[n][1] => emitted[n][2] < reading[k].next
  /\ \A m, n \in Emits : emitted[m] = emitted[n] => m = n
  /\ \A f \in included : \A i \in DOMAIN text[f] :
       (/\ I!Assigns(f, i) /\ ~I!PassedOver(f, i)
        /\ \A k \in Reads : reading[k].file = f => i < reading[k].next) => WasEmitted(f, i)

\* What was said of a statement was said as it was read, and what is behind an include
\* that failed is behind the file's next statement too.
Said(w) ==
  /\ w = <<w[1], w[2]>> /\ w[1] \in included /\ w[2] \in Nat
  /\ \A k \in Reads : reading[k].file = w[1] => w[2] < reading[k].next

Seen ==
  /\ \A w \in warnings \cup errors : Said(w)
  /\ \A e \in errors : text[e[1]][e[2]].s = "include" =>
       \A k \in Reads : reading[k].file = e[1] => e[2] + 1 < reading[k].next

\* An include that was read and did not fail led to a file that is included.
Asked ==
  \A k \in Reads : \A i \in 1 .. reading[k].next - 1 :
    (/\ text[reading[k].file][i].s = "include" /\ <<reading[k].file, i>> \notin errors
     /\ ~I!PassedOver(reading[k].file, i))
      => at[I!Resolve(reading[k].path, text[reading[k].file][i].name)] \in included

\* The last claim of g is n.
LastClaim(n, g) ==
  /\ n \in Emits /\ I!Claims(emitted[n], g)
  /\ \A m \in n + 1 .. Len(emitted) : ~I!Claims(emitted[m], g)

\* A global is bound by the last file that claimed it, which was included by one path.
Bound ==
  /\ bound = [g \in Global |-> bound[g]]
  /\ \A g \in Global : bound[g] = Missing => \A n \in Emits : ~I!Claims(emitted[n], g)
  /\ \A g \in Global : bound[g] # Missing =>
       /\ \E n \in Emits : LastClaim(n, g) /\ emitted[n][1] = at[bound[g]]
       /\ \A k \in Reads : reading[k].file = at[bound[g]] => reading[k].path = bound[g]

Given == at \in Layouts /\ text \in Texts

Including ==
  /\ Given /\ Opens /\ Ends /\ Emitted /\ Seen /\ Asked /\ Bound
  /\ I!HandoversTold /\ I!RefusedTakesNext

-----------------------------------------------------------------------------
(* Texts and paths                                                         *)

LEMMA TextIs ==
  ASSUME Given, NEW f \in Files
  PROVE  /\ Len(text[f]) \in Nat /\ DOMAIN text[f] = 1 .. Len(text[f])
         /\ \A i \in DOMAIN text[f] : text[f][i].s \in {"claim", "update"} => text[f][i].g \in Global
<1>1. PICK p \in DOMAIN at : at[p] # Missing /\ f = at[p]
  BY DEF Files
<1>2. /\ text[f] \in Seq(I!Range(text[f]))
      /\ \A s \in I!Range(text[f]) : s.s \in {"claim", "update"} => s.g \in Global
  BY <1>1, ToolsAssumption DEF I!IncludeAssumption, Given
<1> QED BY <1>2 DEF I!Range

\* What an include stands for is a path.
LEMMA ResolveIs ==
  ASSUME Given, NEW p \in DOMAIN at, at[p] # Missing, NEW i \in DOMAIN text[at[p]], text[at[p]][i].s = "include"
  PROVE  I!Resolve(p, text[at[p]][i].name) \in DOMAIN at
<1> DEFINE name == text[at[p]][i].name
           readable == {j \in DOMAIN I!Search : at[<<I!Search[j], name>>] # Missing}
<1>1. \A d \in {p[1]} \cup I!Range(I!Search) : <<d, name>> \in DOMAIN at
  <2>1. text[at[p]][i] \in I!Range(text[at[p]])
    BY DEF I!Range
  <2> QED BY <2>1, ToolsAssumption DEF I!IncludeAssumption, Given
<1>2. ASSUME readable # {}
      PROVE  <<I!Search[CHOOSE j \in readable : \A k \in readable : j <= k], name>> \in DOMAIN at
  <2>1. readable \in SUBSET Nat
    <3>1. DOMAIN I!Search \in SUBSET Nat
      BY ToolsAssumption DEF I!IncludeAssumption
    <3> QED BY <3>1
  <2>2. \A j \in readable : I!Search[j] \in I!Range(I!Search)
    BY DEF I!Range
  <2> HIDE DEF readable
  <2>3. (CHOOSE j \in readable : \A k \in readable : j <= k) \in readable
    BY <1>2, <2>1, Least
  <2> QED BY <1>1, <2>2, <2>3
<1> HIDE DEF readable
<1> QED BY <1>1, <1>2 DEF I!Resolve, readable

LEMMA TopIs ==
  ASSUME Including, reading # <<>>
  PROVE  /\ Len(reading) \in Reads /\ Len(reading) \in Nat /\ Len(reading) >= 1
         /\ I!Top = reading[Len(reading)] /\ Opened(I!Top) /\ I!Top.file \in Files /\ I!Top.file # Missing
<1>1. Row(reading) /\ \A k \in Reads : Opened(reading[k])
  BY DEF Including, Opens
<1>2. Len(reading) \in Nat /\ Len(reading) >= 1 /\ I!Top = reading[Len(reading)] /\ Len(reading) \in Reads
  BY <1>1, RowIs DEF I!Top, Reads
<1>3. Opened(I!Top) /\ I!Top.file \in included
  BY <1>1, <1>2 DEF Opened
<1> QED BY <1>2, <1>3 DEF Including, Opens, Files

\* The file at the top goes on by a statement, or by two.
Onward(by) ==
  /\ reading # <<>> /\ Row(reading') /\ Len(reading') = Len(reading)
  /\ \A k \in Reads : reading'[k].path = reading[k].path /\ reading'[k].file = reading[k].file
  /\ \A k \in Reads : reading'[k].next = IF k = Len(reading) THEN reading[k].next + by ELSE reading[k].next
  /\ \A k \in Reads \ {Len(reading)} : reading'[k].had_error = reading[k].had_error

LEMMA PastIs ==
  ASSUME Including, reading # <<>>, NEW by \in {1, 2}
  PROVE  /\ Row(I!Past(by)) /\ Len(I!Past(by)) = Len(reading)
         /\ \A k \in Reads : /\ I!Past(by)[k].path = reading[k].path /\ I!Past(by)[k].file = reading[k].file
                             /\ I!Past(by)[k].next = IF k = Len(reading) THEN reading[k].next + by ELSE reading[k].next
                             /\ I!Past(by)[k].had_error = reading[k].had_error
<1> DEFINE n == Len(reading)
           f == [reading[n] EXCEPT !.next = @ + by]
           t == Put(reading, n, f)
<1>1. f.path = reading[n].path /\ f.file = reading[n].file /\ f.had_error = reading[n].had_error /\ f.next = reading[n].next + by
  OBVIOUS
<1>2. n \in Reads
  BY TopIs
<1>3. I!Past(by) = t
  BY DEF I!Past, Put
<1> HIDE DEF f, n
<1>4. Row(t) /\ Len(t) = Len(reading) /\ \A k \in 1 .. Len(reading) : t[k] = IF k = n THEN f ELSE reading[k]
  BY <1>2, Changed DEF Including, Opens, Reads
<1> HIDE DEF t
<1> QED BY <1>1, <1>2, <1>3, <1>4 DEF Reads, n

LEMMA GoesOn ==
  ASSUME Including, reading # <<>>, reading' = I!Past(1)
  PROVE  Onward(1) /\ \A k \in Reads : reading'[k].had_error = reading[k].had_error
BY PastIs DEF Onward

LEMMA GoesOnFailed ==
  ASSUME Including, reading # <<>>, NEW by \in {1, 2}, I!Failed(by)
  PROVE  Onward(by) /\ reading'[Len(reading)].had_error = TRUE
<1> DEFINE n == Len(reading)
           past == I!Past(by)
           f == [past[n] EXCEPT !.had_error = TRUE]
           t == Put(past, n, f)
<1>1. f.path = past[n].path /\ f.file = past[n].file /\ f.had_error = TRUE /\ f.next = past[n].next
  OBVIOUS
<1>2. n \in Reads
  BY TopIs
<1>3. reading' = t
  BY DEF I!Failed, Put
<1>4. Row(past) /\ Len(past) = Len(reading)
      /\ \A k \in Reads : /\ past[k].path = reading[k].path /\ past[k].file = reading[k].file
                          /\ past[k].next = IF k = Len(reading) THEN reading[k].next + by ELSE reading[k].next
                          /\ past[k].had_error = reading[k].had_error
  BY PastIs
<1> HIDE DEF f, n, past
<1>5. Row(t) /\ Len(t) = Len(reading) /\ \A k \in Reads : t[k] = IF k = n THEN f ELSE past[k]
  <2>1. n \in 1 .. Len(past)
    BY <1>2, <1>4 DEF Reads
  <2>2. Row(t) /\ Len(t) = Len(past) /\ \A k \in 1 .. Len(past) : t[k] = IF k = n THEN f ELSE past[k]
    BY <1>4, <2>1, Changed
  <2> QED BY <1>4, <2>2 DEF Reads
<1> HIDE DEF t
<1>6. \A k \in Reads : reading'[k] = IF k = n THEN f ELSE past[k]
  BY <1>3, <1>5
<1> QED BY <1>1, <1>2, <1>3, <1>4, <1>5, <1>6 DEF Onward, n

-----------------------------------------------------------------------------
(* A statement that is not an include of another file                      *)

LEMMA OpensStill ==
  ASSUME Including, NEW by \in {1, 2}, Onward(by), UNCHANGED <<at, included>>, reading'[Len(reading)].had_error \in BOOLEAN
  PROVE  Opens'
<1>1. \A k \in Reads : Opened(reading[k])
  BY DEF Including, Opens
<1>2. Reads' = Reads /\ Len(reading) \in Reads
  BY TopIs DEF Onward, Reads
<1>3. \A k \in Reads : Opened(reading'[k])
  <2> TAKE k \in Reads
  <2>1. CASE k = Len(reading)
    BY <1>1, <2>1 DEF Onward, Opened
  <2>2. CASE k # Len(reading)
    BY <1>1, <2>2 DEF Onward, Opened
  <2> QED BY <2>1, <2>2
<1>4. \A j, k \in Reads : reading'[j].file = reading'[k].file => j = k
  BY DEF Onward, Including, Opens
<1>5. (included \subseteq Files)'
  BY DEF Including, Opens, Files
<1>6. Row(reading')
  BY DEF Onward
<1> QED BY <1>2, <1>3, <1>4, <1>5, <1>6 DEF Opens, Opened

\* What a statement that is not an assignment leaves of what was emitted.
LEMMA EmittedStill ==
  ASSUME Including, NEW by \in {1, 2}, Onward(by), UNCHANGED <<text, included, emitted>>,
         I!Statement.s \notin {"claim", "update"}, errors \subseteq errors',
         by = 2 => I!Here \in errors' /\ I!Statement.s = "include"
  PROVE  Emitted'
<1>1. Reads' = Reads /\ Emits' = Emits /\ \A k \in Reads : reading'[k].file = reading[k].file
  BY DEF Onward, Reads, Emits
<1>2. \A k \in Reads : reading[k].next \in Nat
  BY DEF Including, Opens, Opened
<1>3. \A k \in Reads : reading[k].next <= reading'[k].next
  BY <1>2 DEF Onward
<1>4. \A n \in Emits : \A k \in Reads :
        reading'[k].file = emitted[n][1] => emitted[n][2] < reading'[k].next
  <2> TAKE n \in Emits
  <2> TAKE k \in Reads
  <2>1. emitted[n][2] \in Nat /\ (reading[k].file = emitted[n][1] => emitted[n][2] < reading[k].next)
    BY DEF Including, Emitted
  <2>2. reading'[k].next \in Nat
    BY <1>2 DEF Onward
  <2> QED BY <1>1, <1>2, <1>3, <2>1, <2>2
<1>5. ASSUME NEW f \in included, NEW i \in DOMAIN text[f], I!Assigns(f, i), ~I!PassedOver(f, i)',
             \A k \in Reads : reading'[k].file = f => i < reading'[k].next
      PROVE  WasEmitted(f, i)
  <2>1. i \in Nat
    BY TextIs DEF Including, Opens
  <2>2. ASSUME NEW k \in Reads, reading[k].file = f PROVE i < reading[k].next
    <3>1. i < reading'[k].next
      BY <1>1, <1>5, <2>2
    <3>2. CASE k = Len(reading)
      <4>1. i # reading[k].next
        BY <1>5, <2>2, <3>2, TopIs DEF I!Assigns, I!Statement, Onward
      <4>2. i # reading[k].next + 1 \/ by = 1
        <5> SUFFICES ASSUME i = reading[k].next + 1, by = 2 PROVE FALSE
          OBVIOUS
        <5>1. /\ I!Here = <<f, i - 1>> /\ I!Here \in errors' /\ text[f][i - 1].s = "include" /\ i > 1
          <6>1. reading # <<>> /\ reading[k].next \in Nat \ {0} /\ reading[k].next + 1 - 1 = reading[k].next
            BY <3>2, TopIs DEF Onward, Opened
          <6> QED BY <2>2, <3>2, <6>1, TopIs DEF I!Here, I!Statement
        <5> QED BY <1>5, <5>1 DEF I!PassedOver
      <4> QED BY <1>2, <2>1, <2>2, <3>1, <3>2, <4>1, <4>2 DEF Onward
    <3>3. CASE k # Len(reading)
      BY <3>1, <3>3 DEF Onward
    <3> QED BY <3>2, <3>3
  <2>3. ~I!PassedOver(f, i)
    BY <1>5 DEF I!PassedOver
  <2> QED BY <1>5, <2>2, <2>3 DEF Including, Emitted
<1>6. \A f \in included : \A i \in DOMAIN text[f] :
        (/\ I!Assigns(f, i) /\ ~I!PassedOver(f, i)'
         /\ \A k \in Reads : reading'[k].file = f => i < reading'[k].next) => WasEmitted(f, i)
  BY <1>5
<1> QED BY <1>1, <1>4, <1>6 DEF Including, Emitted, I!Assigns, WasEmitted

\* What is asked in the statement that is left has been answered.
LEMMA AskedStill ==
  ASSUME Including, reading # <<>>, UNCHANGED <<at, text>>, included \subseteq included', errors \subseteq errors',
         NEW by \in {1, 2}, by = 2 => I!Here \in errors' /\ I!Statement.s = "include",
         \A k \in Reads : /\ reading'[k].path = reading[k].path /\ reading'[k].file = reading[k].file
                         /\ reading'[k].next = IF k = Len(reading) THEN reading[k].next + by ELSE reading[k].next,
         \A k \in Reads' : k \in Reads \/ reading'[k].next = 1,
         \/ I!Statement.s # "include" \/ I!Here \in errors'
         \/ at[I!Resolve(I!Top.path, I!Statement.name)] \in included'
  PROVE  Asked'
<1>1. \A p, n : I!Resolve(p, n)' = I!Resolve(p, n)
  BY DEF I!Resolve
<1> SUFFICES ASSUME NEW k \in Reads', NEW i \in 1 .. reading'[k].next - 1,
                    text[reading'[k].file][i].s = "include", <<reading'[k].file, i>> \notin errors',
                    ~I!PassedOver(reading[k].file, i)'
             PROVE  at[I!Resolve(reading'[k].path, text[reading'[k].file][i].name)] \in included'
  <2>1. \A k \in Reads' : 1 .. reading'[k].next - 1 = {} \/ reading'[k].file = reading[k].file
    OBVIOUS
  <2> QED BY <1>1, <2>1 DEF Asked, I!PassedOver
<1>2. k \in Reads /\ reading[k].next \in Nat
  BY DEF Including, Opens, Opened
<1>3. CASE i \in 1 .. reading[k].next - 1
  <2>1. ~I!PassedOver(reading[k].file, i)
    BY DEF I!PassedOver
  <2> QED BY <1>2, <1>3, <2>1 DEF Including, Asked
<1>4. CASE i \notin 1 .. reading[k].next - 1
  <2>1. k = Len(reading) /\ (i = reading[k].next \/ (by = 2 /\ i = reading[k].next + 1))
    BY <1>2, <1>4
  <2>2. ASSUME by = 2, i = reading[k].next + 1 PROVE FALSE
    <3>1. /\ I!Here = <<reading[k].file, i - 1>> /\ I!Here \in errors' /\ i > 1
          /\ text[reading[k].file][i - 1].s = "include"
      BY <1>2, <2>1, <2>2, TopIs DEF I!Here, I!Statement, Opened
    <3> QED BY <3>1 DEF I!PassedOver
  <2> QED BY <1>2, <2>1, <2>2, TopIs DEF I!Statement, I!Here
<1> QED BY <1>3, <1>4

\* What was said before the statement that is left, and of it.
LEMMA SeenStill ==
  ASSUME Including, NEW by \in {1, 2}, Onward(by), UNCHANGED <<text, included>>,
         warnings' \subseteq warnings \cup {I!Here},
         \/ errors' = errors
         \/ errors' = errors \cup {I!Here} /\ (I!Statement.s = "include" => by = 2)
  PROVE  Seen'
<1> DEFINE t == Len(reading)
           Still(w) == /\ w = <<w[1], w[2]>> /\ w[1] \in included /\ w[2] \in Nat
                       /\ \A k \in Reads : reading[k].file = w[1] => w[2] < reading'[k].next
<1>1. /\ Reads' = Reads /\ \A k \in Reads : /\ reading'[k].file = reading[k].file /\ reading[k].next \in Nat \ {0}
                                          /\ reading'[k].next = IF k = t THEN reading[k].next + by ELSE reading[k].next
  BY DEF Onward, Reads, Including, Opens, Opened
<1>2. /\ t \in Reads /\ I!Top = reading[t] /\ I!Top.file \in included
      /\ I!Here = <<I!Top.file, I!Top.next>> /\ I!Here[1] = I!Top.file /\ I!Here[2] = I!Top.next
      /\ I!Statement = text[I!Here[1]][I!Here[2]] /\ \A k \in Reads : reading[k].file = I!Top.file => k = t
  BY TopIs DEF Onward, I!Here, I!Statement, Opened, Including, Opens
<1> HIDE DEF t
<1>3. \A k \in Reads : reading[k].next < reading'[k].next \/ reading[k].next = reading'[k].next
  BY <1>1
<1>4. Still(I!Here)
  BY <1>1, <1>2
<1>5. ASSUME NEW w, Said(w) PROVE Still(w)
  <2>1. ASSUME NEW k \in Reads, reading[k].file = w[1] PROVE w[2] < reading'[k].next
    <3>1. w[2] < reading[k].next /\ w[2] \in Nat
      BY <1>5, <2>1 DEF Said
    <3> QED BY <1>1, <3>1
  <2> QED BY <1>1, <1>5, <2>1 DEF Said
<1>6. \A w \in (warnings \cup errors)' : Still(w)
  <2>1. \A w \in warnings \cup errors : Said(w)
    BY DEF Including, Seen
  <2>2. \A w \in (warnings \cup errors)' : w \in warnings \cup errors \/ w = I!Here
    OBVIOUS
  <2> HIDE DEF Still
  <2> QED BY <1>4, <1>5, <2>1, <2>2
<1>7. ASSUME NEW e \in errors', text[e[1]][e[2]].s = "include", NEW k \in Reads, reading[k].file = e[1]
      PROVE  e[2] + 1 < reading'[k].next
  <2>1. CASE e \in errors
    <3>1. e[2] + 1 < reading[k].next /\ e[2] \in Nat
      BY <1>7, <2>1 DEF Including, Seen, Said
    <3> QED BY <1>1, <3>1
  <2>2. CASE e \notin errors
    <3>1. e = I!Here /\ by = 2 /\ k = t
      BY <1>2, <1>7, <2>2
    <3> QED BY <1>1, <1>2, <3>1
  <2> QED BY <2>1, <2>2
<1> QED BY <1>1, <1>6, <1>7 DEF Seen, Said

\* What is said of the statement that is left is not said of one that was passed over.
LEMMA RefusedStill ==
  ASSUME Including, reading # <<>>, UNCHANGED text,
         I!Range(emitted') \subseteq I!Range(emitted) \cup {I!Here},
         warnings' \subseteq warnings \cup {I!Here}, errors' \subseteq errors \cup {I!Here}
  PROVE  I!RefusedTakesNext'
<1> DEFINE t == Len(reading)
           old == I!Range(emitted) \cup warnings \cup errors
<1>1. /\ t \in Reads /\ I!Top = reading[t] /\ reading[t].next \in Nat
      /\ I!Here = <<reading[t].file, reading[t].next>> /\ I!Here[1] = reading[t].file /\ I!Here[2] = reading[t].next
  BY TopIs DEF I!Here, Opened
<1> HIDE DEF t
<1>2. ASSUME NEW w \in old PROVE w[2] \in Nat /\ (w[1] = reading[t].file => w[2] < reading[t].next)
  <2>1. CASE w \in I!Range(emitted)
    <3>1. \E n \in Emits : w = emitted[n]
      BY <2>1 DEF I!Range, Including, Emitted, Row, Emits
    <3> QED BY <1>1, <3>1 DEF Including, Emitted
  <2>2. CASE w \in warnings \cup errors
    BY <1>1, <2>2 DEF Including, Seen, Said
  <2> QED BY <2>1, <2>2
<1>3. ASSUME NEW w \in old \cup {I!Here}, w[2] > 1, <<w[1], w[2] - 1>> \in errors \cup {I!Here},
             text[w[1]][w[2] - 1].s = "include"
      PROVE  FALSE
  <2>1. CASE <<w[1], w[2] - 1>> \in errors
    <3>1. w \notin old
      BY <1>3, <2>1 DEF Including, I!RefusedTakesNext, I!PassedOver
    <3>2. w = I!Here
      BY <1>3, <3>1
    <3> DEFINE e == <<w[1], w[2] - 1>>
    <3>3. e[1] = w[1] /\ e[2] = w[2] - 1 /\ e \in errors
      BY <2>1
    <3> HIDE DEF e
    <3>4. e[2] + 1 < reading[t].next
      BY <1>1, <1>3, <3>2, <3>3 DEF Including, Seen
    <3> QED BY <1>1, <3>2, <3>3, <3>4
  <2>2. CASE <<w[1], w[2] - 1>> = I!Here
    <3>1. w[1] = reading[t].file /\ w[2] - 1 = reading[t].next
      BY <1>1, <2>2
    <3>2. CASE w = I!Here
      BY <1>1, <3>1, <3>2
    <3>3. CASE w \in old
      <4>1. w[2] \in Nat /\ w[2] < reading[t].next
        BY <1>2, <3>1, <3>3
      <4> QED BY <1>1, <3>1, <4>1
    <3> QED BY <1>3, <3>2, <3>3
  <2> QED BY <1>3, <2>1, <2>2
<1>4. (I!Range(emitted) \cup warnings \cup errors)' \subseteq old \cup {I!Here}
  BY DEF I!Range
<1> HIDE DEF old
<1>5. \A w \in (I!Range(emitted) \cup warnings \cup errors)' : ~I!PassedOver(w[1], w[2])'
  <2> TAKE w \in (I!Range(emitted) \cup warnings \cup errors)'
  <2>1. w \in old \cup {I!Here}
    BY <1>4
  <2> QED BY <1>3, <2>1 DEF I!PassedOver
<1> QED BY <1>5 DEF I!RefusedTakesNext, I!Range

LEMMA BoundStill ==
  ASSUME Including, NEW by \in {1, 2}, Onward(by), UNCHANGED <<at, text, emitted, bound>>
  PROVE  Bound'
<1>1. Reads' = Reads /\ Emits' = Emits
  BY DEF Onward, Reads, Emits
<1>2. \A k \in Reads : reading'[k].path = reading[k].path /\ reading'[k].file = reading[k].file
  BY DEF Onward
<1>3. \A n, g : LastClaim(n, g)' <=> LastClaim(n, g)
  BY DEF LastClaim, I!Claims, Emits
<1> QED BY <1>1, <1>2, <1>3 DEF Including, Bound, I!Claims

LEMMA ToldStill ==
  ASSUME Including, UNCHANGED <<text, emitted>>,
         \A w : w \in warnings' <=> (w \in warnings \/ (w \in warnings' /\ ~I!Assigns(w[1], w[2])))
  PROVE  I!HandoversTold'
<1>1. \A i, g : I!Takes(i, g)' <=> I!Takes(i, g)
  BY DEF I!Takes, I!Claims
<1>2. \A f, i : I!Assigns(f, i)' <=> I!Assigns(f, i)
  BY DEF I!Assigns
<1> QED BY <1>1, <1>2 DEF Including, I!HandoversTold

LEMMA EndsStill ==
  ASSUME Including, NEW by \in {1, 2}, Onward(by), UNCHANGED <<ended, errors>>,
         reading'[Len(reading)].had_error = reading[Len(reading)].had_error
  PROVE  Ends'
<1>1. Reads' = Reads /\ \A k \in Reads : reading'[k].had_error = reading[k].had_error
  BY DEF Onward, Reads
<1>2. reading' # <<>>
  BY RowIs, TopIs DEF Onward
<1>3. ended = "no"
  BY DEF Including, Ends, Onward
<1> QED BY <1>1, <1>2, <1>3 DEF Including, Ends

LEMMA EndsFailing ==
  ASSUME Including, NEW by \in {1, 2}, Onward(by), UNCHANGED ended, errors' # {},
         reading'[Len(reading)].had_error = TRUE
  PROVE  Ends'
<1>1. Len(reading) \in Reads' /\ reading' # <<>>
  BY RowIs, TopIs DEF Onward, Reads
<1>2. ended = "no"
  BY DEF Including, Ends, Onward
<1> QED BY <1>1, <1>2 DEF Including, Ends

-----------------------------------------------------------------------------
(* The actions                                                             *)

LEMMA KeepsFailed ==
  ASSUME Including, I!More, NEW by \in {1, 2}, I!Failed(by), UNCHANGED <<at, text, limit, bound, ended>>,
         I!Statement.s \notin {"claim", "update"}, by = 2 <=> I!Statement.s = "include"
  PROVE  Including'
<1>1. reading # <<>> /\ UNCHANGED <<included, emitted, warnings>> /\ errors' = errors \cup {I!Here}
  BY DEF I!More, I!Failed
<1>2. Onward(by) /\ reading'[Len(reading)].had_error = TRUE
  BY <1>1, GoesOnFailed
<1>3. Opens' /\ Emitted' /\ Bound'
  BY <1>1, <1>2, OpensStill, EmittedStill, BoundStill
<1>4. Ends'
  BY <1>1, <1>2, EndsFailing
<1>5. Asked'
  BY <1>1, <1>2, AskedStill DEF Onward, Reads
<1>6. I!HandoversTold'
  BY <1>1, ToldStill
<1>7. Given'
  BY DEF Including, Given
<1>8. Seen' /\ I!RefusedTakesNext'
  BY <1>1, <1>2, SeenStill, RefusedStill
<1> QED BY <1>3, <1>4, <1>5, <1>6, <1>7, <1>8 DEF Including

LEMMA KeepsAgain ==
  ASSUME Including, I!More, reading' = I!Past(1), UNCHANGED <<at, text, limit, bound, ended, included, emitted, errors>>,
         I!Statement.s = "include", warnings' = warnings \/ warnings' = warnings \cup {I!Here},
         at[I!Resolve(I!Top.path, I!Statement.name)] \in included
  PROVE  Including'
<1>1. reading # <<>>
  BY DEF I!More
<1>2. Onward(1) /\ reading'[Len(reading)].had_error = reading[Len(reading)].had_error
  BY <1>1, GoesOn, TopIs
<1>3. reading'[Len(reading)].had_error \in BOOLEAN
  BY <1>1, <1>2, TopIs DEF Opened
<1>4. Opens' /\ Emitted' /\ Bound' /\ Ends'
  BY <1>1, <1>2, <1>3, OpensStill, EmittedStill, BoundStill, EndsStill
<1>5. Asked'
  BY <1>1, <1>2, AskedStill DEF Onward, Reads
<1>6. ~I!Assigns(I!Here[1], I!Here[2])
  BY DEF I!Assigns, I!Here, I!Statement
<1>7. I!HandoversTold'
  BY <1>6, ToldStill
<1>8. Given'
  BY DEF Including, Given
<1>9. Seen' /\ I!RefusedTakesNext'
  BY <1>1, <1>2, SeenStill, RefusedStill
<1> QED BY <1>4, <1>5, <1>7, <1>8, <1>9 DEF Including

\* A file is compiled from its first statement.
LEMMA KeepsInto ==
  ASSUME Including, I!More, NEW p \in DOMAIN at, at[p] # Missing, at[p] \notin included,
         I!IncludeFile(p), UNCHANGED <<at, text, limit, bound, ended>>,
         I!Statement.s = "include", p = I!Resolve(I!Top.path, I!Statement.name)
  PROVE  Including'
<1> DEFINE n == Len(reading)
           f == I!File(p)
<1>1. f.path = p /\ f.file = at[p] /\ f.next = 1 /\ f.had_error = FALSE
  BY DEF I!File
<1> HIDE DEF f
<1>2. /\ reading # <<>> /\ UNCHANGED <<emitted, warnings, errors>> /\ included' = included \cup {at[p]}
      /\ n \in Nat /\ n >= 1 /\ n \in Reads /\ I!Top = reading[n]
  BY TopIs DEF I!More, I!IncludeFile
<1>3. /\ Row(reading') /\ Len(reading') = n + 1 /\ reading'[n + 1] = f
      /\ \A k \in Reads : /\ reading'[k].path = reading[k].path /\ reading'[k].file = reading[k].file
                          /\ reading'[k].next = IF k = n THEN reading[k].next + 1 ELSE reading[k].next
                          /\ reading'[k].had_error = reading[k].had_error
  <2> DEFINE past == I!Past(1)
  <2>1. reading' = Append(past, f) /\ Row(past) /\ Len(past) = n
    BY <1>2, PastIs DEF I!IncludeFile, f
  <2> HIDE DEF past
  <2>2. /\ Row(reading') /\ Len(reading') = Len(past) + 1 /\ reading'[Len(past) + 1] = f
        /\ \A k \in 1 .. Len(past) : reading'[k] = past[k]
    BY <2>1, Pushed
  <2> QED BY <1>2, <2>1, <2>2, PastIs DEF past, Reads
<1>4. Reads' = 1 .. n + 1 /\ (\A k \in Reads' : k \in Reads \/ k = n + 1) /\ Emits' = Emits /\ reading' # <<>>
  BY <1>2, <1>3, RowIs DEF Reads, Emits
<1>5. \A k \in Reads : /\ reading[k].file \in included /\ reading[k].next \in Nat \ {0}
                      /\ reading[k].path \in DOMAIN at /\ reading[k].file = at[reading[k].path]
                      /\ reading[k].had_error \in BOOLEAN
  BY DEF Including, Opens, Opened
<1>6. Opens'
  <2>1. \A k \in Reads' : /\ reading'[k].file \in included' /\ reading'[k].next \in Nat \ {0}
                         /\ reading'[k].path \in DOMAIN at /\ reading'[k].file = at[reading'[k].path]
                         /\ reading'[k].had_error \in BOOLEAN
    <3> TAKE k \in Reads'
    <3>1. CASE k = n + 1
      <4>1. /\ f.file \in included' /\ f.next \in Nat \ {0} /\ f.path \in DOMAIN at /\ f.file = at[f.path]
        BY <1>1, <1>2
      <4>2. f.had_error \in BOOLEAN
        BY <1>1
      <4> QED BY <1>3, <3>1, <4>1, <4>2
    <3>2. CASE k \in Reads
      BY <1>2, <1>3, <1>5, <3>2
    <3> QED BY <1>4, <3>1, <3>2
  <2>2. \A j, k \in Reads' : reading'[j].file = reading'[k].file => j = k
    <3>1. \A j, k \in Reads : reading[j].file = reading[k].file => j = k
      BY DEF Including, Opens
    <3>2. \A j \in Reads : reading'[j].file = reading[j].file /\ reading[j].file # at[p]
      BY <1>3, <1>5
    <3>3. reading'[n + 1].file = at[p]
      BY <1>1, <1>3
    <3> QED BY <1>4, <3>1, <3>2, <3>3
  <2>3. included' \subseteq Files'
    BY <1>2 DEF Including, Opens, Files
  <2> QED BY <1>3, <2>1, <2>2, <2>3 DEF Opens, Opened
<1>7. Ends'
  <2>1. ended = "no"
    BY <1>2 DEF Including, Ends
  <2>2. (\E k \in Reads' : reading'[k].had_error) <=> \E k \in Reads : reading[k].had_error
    BY <1>1, <1>2, <1>3, <1>4 DEF Reads
  <2> QED BY <1>2, <1>4, <2>1, <2>2 DEF Including, Ends
<1>8. Emitted'
  <2>1. \A m \in Emits : /\ emitted[m] = <<emitted[m][1], emitted[m][2]>> /\ emitted[m][1] \in included'
                        /\ emitted[m][2] \in Nat
                        /\ \A k \in Reads' : reading'[k].file = emitted[m][1] => emitted[m][2] < reading'[k].next
    <3> TAKE m \in Emits
    <3>1. /\ emitted[m] = <<emitted[m][1], emitted[m][2]>> /\ emitted[m][1] \in included /\ emitted[m][2] \in Nat
          /\ \A k \in Reads : reading[k].file = emitted[m][1] => emitted[m][2] < reading[k].next
      BY DEF Including, Emitted
    <3>2. ASSUME NEW k \in Reads', reading'[k].file = emitted[m][1] PROVE emitted[m][2] < reading'[k].next
      <4>1. k # n + 1
        BY <1>1, <1>3, <3>1, <3>2
      <4>2. k \in Reads /\ reading[k].file = emitted[m][1]
        BY <1>3, <1>4, <3>2, <4>1
      <4> QED BY <1>3, <1>5, <3>1, <4>2
    <3> QED BY <1>2, <3>1, <3>2
  <2>2. ASSUME NEW g \in included', NEW i \in DOMAIN text[g], I!Assigns(g, i),
               \A k \in Reads' : reading'[k].file = g => i < reading'[k].next
        PROVE  WasEmitted(g, i) \/ I!PassedOver(g, i)
    <3>1. g \in Files /\ i \in Nat /\ i >= 1
      <4>1. g \in Files
        BY <1>2 DEF Including, Opens, Files
      <4> QED BY <4>1, TextIs DEF Including
    <3>2. g # at[p]
      <4>1. n + 1 \in Reads'
        BY <1>2, <1>4
      <4> QED BY <1>1, <1>3, <2>2, <3>1, <4>1
    <3>3. ASSUME NEW k \in Reads, reading[k].file = g PROVE i < reading[k].next
      <4>1. k \in Reads' /\ i < reading'[k].next
        BY <1>2, <1>3, <1>4, <2>2, <3>3 DEF Reads
      <4>2. CASE k = n
        <5>1. i # reading[k].next
          BY <1>2, <2>2, <3>3, <4>2 DEF I!Assigns, I!Statement
        <5> QED BY <1>3, <1>5, <3>1, <4>1, <4>2, <5>1
      <4>3. CASE k # n
        BY <1>3, <4>1, <4>3
      <4> QED BY <4>2, <4>3
    <3> QED BY <1>2, <2>2, <3>2, <3>3 DEF Including, Emitted
  <2>3. \A g \in included' : \A i \in DOMAIN text[g] :
          (/\ I!Assigns(g, i) /\ ~I!PassedOver(g, i)
           /\ \A k \in Reads' : reading'[k].file = g => i < reading'[k].next) => WasEmitted(g, i)
    BY <2>2
  <2> QED BY <1>2, <1>4, <2>1, <2>3 DEF Including, Emitted, I!Assigns, I!PassedOver, WasEmitted
<1>9. Asked'
  <2>1. \A k \in Reads' : k \in Reads \/ reading'[k].next = 1
    BY <1>1, <1>3, <1>4
  <2> QED BY <1>2, <1>3, <2>1, AskedStill
<1>10. Bound'
  <2>1. \A m, g : LastClaim(m, g)' <=> LastClaim(m, g)
    BY <1>2, <1>4 DEF LastClaim, I!Claims
  <2>2. ASSUME NEW g \in Global, bound[g] # Missing
        PROVE  \A k \in Reads' : reading'[k].file = at[bound[g]] => reading'[k].path = bound[g]
    <3>1. at[bound[g]] \in included
      BY <2>2 DEF Including, Bound, Emitted
    <3> QED BY <1>1, <1>3, <1>4, <2>2, <3>1 DEF Including, Bound
  <2> QED BY <1>2, <1>4, <2>1, <2>2 DEF Including, Bound, I!Claims
<1>11. I!HandoversTold'
  BY <1>2, ToldStill
<1>12. Given'
  BY DEF Including, Given
<1>13. Seen'
  <2>1. ASSUME NEW w \in warnings \cup errors, NEW k \in Reads', reading'[k].file = w[1]
        PROVE  k \in Reads /\ reading[k].file = w[1] /\ w[2] \in Nat
    BY <1>1, <1>3, <1>4, <2>1 DEF Including, Seen, Said
  <2>2. ASSUME NEW w \in warnings \cup errors, NEW k \in Reads', reading'[k].file = w[1]
        PROVE  w[2] < reading'[k].next
    <3>1. k \in Reads /\ w[2] < reading[k].next /\ w[2] \in Nat
      BY <2>1, <2>2 DEF Including, Seen, Said
    <3> QED BY <1>3, <1>5, <3>1
  <2>3. ASSUME NEW e \in errors, text[e[1]][e[2]].s = "include", NEW k \in Reads', reading'[k].file = e[1]
        PROVE  e[2] + 1 < reading'[k].next
    <3>1. k \in Reads /\ e[2] + 1 < reading[k].next /\ e[2] \in Nat
      BY <2>1, <2>3 DEF Including, Seen
    <3> QED BY <1>3, <1>5, <3>1
  <2>4. \A w \in warnings \cup errors : w = <<w[1], w[2]>> /\ w[1] \in included' /\ w[2] \in Nat
    BY <1>2 DEF Including, Seen, Said
  <2> QED BY <1>2, <2>2, <2>3, <2>4 DEF Seen, Said
<1>14. I!RefusedTakesNext'
  BY <1>2, RefusedStill DEF I!Range
<1> QED BY <1>6, <1>7, <1>8, <1>9, <1>10, <1>11, <1>12, <1>13, <1>14 DEF Including

LEMMA KeepsInclude == ASSUME Including, I!Include PROVE Including'
<1> DEFINE p == I!Resolve(I!Top.path, I!Statement.name)
<1>1. I!More /\ I!Statement.s = "include" /\ reading # <<>>
  BY DEF I!Include, I!More
<1>2. p \in DOMAIN at
  <2> DEFINE r == I!Top
  <2>1. r.path \in DOMAIN at /\ r.file = at[r.path] /\ r.file # Missing /\ r.file \in Files /\ r.next \in Nat \ {0}
    BY <1>1, TopIs DEF Opened
  <2>2. I!Statement = text[r.file][r.next] /\ r.next \in DOMAIN text[r.file]
    BY <1>1, <2>1, TextIs DEF I!Statement, I!More, Including
  <2> HIDE DEF r
  <2>3. I!Resolve(r.path, text[r.file][r.next].name) \in DOMAIN at
    BY <1>1, <2>1, <2>2, ResolveIs DEF Including
  <2> QED BY <2>2, <2>3 DEF r
<1>3. UNCHANGED <<at, text, limit, bound, ended>>
  BY DEF I!Include
<1>4. CASE /\ at[p] \in included /\ reading' = I!Past(1) /\ UNCHANGED <<included, emitted, errors>>
           /\ warnings' = warnings \cup IF at[p] = I!Top.file THEN {I!Here} ELSE {}
  BY <1>1, <1>3, <1>4, KeepsAgain
<1>5. CASE I!Failed(2)
  BY <1>1, <1>3, <1>5, KeepsFailed
<1>6. CASE at[p] \notin included /\ at[p] # Missing /\ I!IncludeFile(p)
  <2> HIDE DEF p
  <2>1. p = I!Resolve(I!Top.path, I!Statement.name)
    BY DEF p
  <2> QED BY <1>1, <1>2, <1>3, <1>6, <2>1, KeepsInto
<1> QED BY <1>4, <1>5, <1>6 DEF I!Include

LEMMA KeepsBad == ASSUME Including, I!Bad PROVE Including'
BY KeepsFailed DEF I!Bad

\* A global assigned: what was emitted, and who claimed it last.
LEMMA KeepsAssign == ASSUME Including, I!Assign PROVE Including'
<1> DEFINE n == Len(emitted)
           t == Len(reading)
<1>1. /\ I!More /\ I!Statement.s \in {"claim", "update"} /\ reading # <<>> /\ reading' = I!Past(1)
      /\ UNCHANGED <<at, text, limit, included, ended, errors>> /\ emitted' = Append(emitted, I!Here)
  BY DEF I!Assign, I!More
<1>2. /\ t \in Reads /\ t \in Nat /\ I!Top = reading[t] /\ I!Top.file \in Files /\ I!Top.file \in included
      /\ I!Top.file = at[I!Top.path] /\ I!Top.path \in DOMAIN at /\ I!Top.next \in Nat \ {0}
  BY <1>1, TopIs DEF Opened
<1>3. Onward(1) /\ reading'[t].had_error = reading[t].had_error
  BY <1>1, <1>2, GoesOn
<1>4. Opens' /\ Ends'
  <2>1. reading'[t].had_error \in BOOLEAN
    BY <1>1, <1>3, TopIs DEF Opened
  <2> QED BY <1>1, <1>3, <2>1, OpensStill, EndsStill
<1>5. Asked'
  BY <1>1, <1>3, AskedStill DEF Onward, Reads
<1>6. /\ Row(emitted') /\ n \in Nat /\ Len(emitted') = n + 1 /\ emitted'[n + 1] = I!Here
      /\ \A m \in Emits : emitted'[m] = emitted[m]
  BY <1>1, Pushed, RowIs DEF Including, Emitted, Emits
<1>7. Emits = 1 .. n /\ Emits' = 1 .. n + 1 /\ (\A m \in Emits' : m \in Emits \/ m = n + 1) /\ n + 1 \in Emits'
  BY <1>6 DEF Emits
<1>8. I!Here = <<I!Top.file, I!Top.next>> /\ I!Here[1] = I!Top.file /\ I!Here[2] = I!Top.next
  BY DEF I!Here
<1>9. \A m \in Emits : /\ emitted[m] = <<emitted[m][1], emitted[m][2]>> /\ emitted[m][1] \in included
                      /\ emitted[m][2] \in Nat
                      /\ \A k \in Reads : reading[k].file = emitted[m][1] => emitted[m][2] < reading[k].next
  BY DEF Including, Emitted
<1>10. \A m \in Emits : emitted[m] # I!Here
  BY <1>2, <1>8, <1>9
<1>11. Emitted'
  <2>1. \A m \in Emits' : /\ emitted'[m] = <<emitted'[m][1], emitted'[m][2]>> /\ emitted'[m][1] \in included
                         /\ emitted'[m][2] \in Nat
                         /\ \A k \in Reads : reading[k].file = emitted'[m][1] => emitted'[m][2] < reading'[k].next
    <3> TAKE m \in Emits'
    <3>1. \A k \in Reads : reading[k].next \in Nat
      BY DEF Including, Opens, Opened
    <3>2. CASE m = n + 1
      <4>1. \A k \in Reads : reading[k].file = I!Top.file => k = t
        BY <1>2 DEF Including, Opens
      <4> QED BY <1>2, <1>3, <1>6, <1>8, <3>1, <3>2, <4>1 DEF Onward
    <3>3. CASE m \in Emits
      <4>1. ASSUME NEW k \in Reads, reading[k].file = emitted[m][1]
            PROVE  emitted[m][2] < reading'[k].next
        <5>1. emitted[m][2] < reading[k].next /\ emitted[m][2] \in Nat
          BY <1>9, <3>3, <4>1
        <5>2. reading'[k].next \in {reading[k].next, reading[k].next + 1}
          BY <1>3 DEF Onward
        <5> QED BY <3>1, <5>1, <5>2
      <4> QED BY <1>6, <1>9, <3>3, <4>1
    <3> QED BY <1>7, <3>2, <3>3
  <2>2. \A l, m \in Emits' : emitted'[l] = emitted'[m] => l = m
    <3>1. \A l, m \in Emits : emitted[l] = emitted[m] => l = m
      BY DEF Including, Emitted
    <3> QED BY <1>6, <1>7, <1>10, <3>1
  <2>3. ASSUME NEW g \in included, NEW i \in DOMAIN text[g], I!Assigns(g, i),
               \A k \in Reads : reading[k].file = g => i < reading'[k].next
        PROVE  I!PassedOver(g, i) \/ \E m \in Emits' : emitted'[m] = <<g, i>>
    <3>1. i \in Nat
      BY TextIs DEF Including, Opens
    <3>2. CASE g = I!Top.file /\ i = I!Top.next
      BY <1>6, <1>7, <1>8, <3>2
    <3>3. CASE ~(g = I!Top.file /\ i = I!Top.next)
      <4>1. ASSUME NEW k \in Reads, reading[k].file = g PROVE i < reading[k].next
        <5>1. reading[k].next \in Nat /\ i < reading'[k].next
          BY <2>3, <4>1 DEF Including, Opens, Opened
        <5>2. CASE k = t
          BY <1>2, <1>3, <3>1, <3>3, <4>1, <5>1, <5>2 DEF Onward
        <5>3. CASE k # t
          BY <1>3, <5>1, <5>3 DEF Onward
        <5> QED BY <5>2, <5>3
      <4>2. WasEmitted(g, i) \/ I!PassedOver(g, i)
        BY <2>3, <4>1 DEF Including, Emitted
      <4> QED BY <1>6, <1>7, <4>2 DEF WasEmitted
    <3> QED BY <3>2, <3>3
  <2>4. \A k \in Reads : reading'[k].file = reading[k].file
    BY <1>3 DEF Onward
  <2>5. Reads' = Reads
    BY <1>3 DEF Onward, Reads
  <2>6. \A g \in included : \A i \in DOMAIN text[g] :
          (/\ I!Assigns(g, i) /\ ~I!PassedOver(g, i)
           /\ \A k \in Reads : reading[k].file = g => i < reading'[k].next)
            => \E m \in Emits' : emitted'[m] = <<g, i>>
    BY <2>3
  <2> QED BY <1>1, <1>6, <2>1, <2>2, <2>4, <2>5, <2>6 DEF Emitted, I!Assigns, I!PassedOver, WasEmitted
<1>12. \A e, g : I!Claims(e, g)' <=> I!Claims(e, g)
  BY <1>1 DEF I!Claims
<1>13. I!Claims(I!Here, I!Statement.g) <=> I!Statement.s = "claim"
  BY <1>8 DEF I!Claims, I!Statement
<1>14. \A g : I!Claims(I!Here, g) => g = I!Statement.g /\ I!Statement.s = "claim"
  BY <1>8 DEF I!Claims, I!Statement
<1>15. I!Statement.g \in Global
  BY <1>1, <1>2, TextIs DEF Including, I!Statement, I!More
<1>16. bound' = IF I!Statement.s = "claim" THEN [bound EXCEPT ![I!Statement.g] = I!Top.path] ELSE bound
  BY DEF I!Assign
<1>17. Missing \notin DOMAIN at
  BY ToolsAssumption DEF I!IncludeAssumption, Including, Given
<1>18. Bound'
  <2>1. bound' = [g \in Global |-> bound'[g]]
    BY <1>16 DEF Including, Bound
  <2>2. ASSUME NEW g \in Global, ~I!Claims(I!Here, g)
        PROVE  /\ bound'[g] = bound[g]
               /\ bound[g] = Missing => \A m \in Emits' : ~I!Claims(emitted'[m], g)
               /\ bound[g] # Missing => \E m \in Emits' : LastClaim(m, g)' /\ emitted'[m][1] = at[bound[g]]
    <3>1. bound'[g] = bound[g]
      BY <1>13, <1>16, <2>2 DEF Including, Bound
    <3>2. bound[g] = Missing => \A m \in Emits' : ~I!Claims(emitted'[m], g)
      BY <1>6, <1>7, <2>2 DEF Including, Bound
    <3>3. ASSUME bound[g] # Missing
          PROVE  \E m \in Emits' : LastClaim(m, g)' /\ emitted'[m][1] = at[bound[g]]
      <4>1. PICK m \in Emits : LastClaim(m, g) /\ emitted[m][1] = at[bound[g]]
        BY <3>3 DEF Including, Bound
      <4>2. m \in Emits' /\ I!Claims(emitted'[m], g)
        BY <1>6, <1>7, <4>1 DEF LastClaim
      <4>3. \A k \in m + 1 .. n + 1 : ~I!Claims(emitted'[k], g)
        <5> TAKE k \in m + 1 .. n + 1
        <5>1. CASE k = n + 1
          BY <1>6, <2>2, <5>1
        <5>2. CASE k # n + 1
          <6>1. k \in m + 1 .. n /\ k \in Emits
            BY <1>6, <1>7, <5>2
          <6> QED BY <1>6, <4>1, <6>1 DEF LastClaim
        <5> QED BY <5>1, <5>2
      <4> QED BY <1>6, <1>12, <4>1, <4>2, <4>3 DEF LastClaim
    <3> QED BY <3>1, <3>2, <3>3
  <2>3. ASSUME NEW g \in Global, I!Claims(I!Here, g)
        PROVE  /\ bound'[g] = I!Top.path /\ I!Top.path # Missing
               /\ \E m \in Emits' : LastClaim(m, g)' /\ emitted'[m][1] = at[bound'[g]]
    <3>1. bound'[g] = I!Top.path /\ I!Top.path # Missing
      BY <1>2, <1>14, <1>16, <1>17, <2>3 DEF Including, Bound
    <3>2. n + 1 \in Emits' /\ I!Claims(emitted'[n + 1], g) /\ emitted'[n + 1][1] = I!Top.file
      BY <1>6, <1>7, <1>8, <2>3
    <3> DEFINE m == n + 1
    <3>3. m \in Emits' /\ I!Claims(emitted'[m], g) /\ (\A k \in m + 1 .. n + 1 : ~I!Claims(emitted'[k], g))
      BY <1>6, <3>2
    <3>4. emitted'[m][1] = at[bound'[g]]
      BY <1>2, <3>1, <3>2
    <3> HIDE DEF m
    <3>5. \E k \in Emits' : LastClaim(k, g)' /\ emitted'[k][1] = at[bound'[g]]
      BY <1>6, <1>12, <3>3, <3>4 DEF LastClaim
    <3> QED BY <3>1, <3>5
  <2>4. Reads' = Reads /\ \A k \in Reads : reading'[k].path = reading[k].path /\ reading'[k].file = reading[k].file
    BY <1>3 DEF Onward, Reads
  <2>5. \A g \in Global : bound'[g] = Missing => \A m \in Emits' : ~I!Claims(emitted'[m], g)
    BY <2>2, <2>3
  <2>6. ASSUME NEW g \in Global, bound'[g] # Missing
        PROVE  /\ \E m \in Emits' : LastClaim(m, g)' /\ emitted'[m][1] = at[bound'[g]]
               /\ \A k \in Reads : reading[k].file = at[bound'[g]] => reading[k].path = bound'[g]
    <3>1. CASE I!Claims(I!Here, g)
      <4>1. \A k \in Reads : reading[k].file = I!Top.file => k = t
        BY <1>2 DEF Including, Opens
      <4> QED BY <1>2, <2>3, <3>1, <4>1
    <3>2. CASE ~I!Claims(I!Here, g)
      BY <2>2, <2>6, <3>2 DEF Including, Bound
    <3> QED BY <3>1, <3>2
  <2> QED BY <1>1, <1>12, <2>1, <2>4, <2>5, <2>6 DEF Bound
<1>19. Given'
  BY <1>1 DEF Including, Given
<1>20. I!HandoversTold'
  <2> DEFINE Told == I!Statement.s = "claim" /\ I!Noted(I!Statement.g)
  <2>1. \A g, i : i \in Emits => (I!Takes(i, g)' <=> I!Takes(i, g))
    <3> TAKE g, i
    <3> HAVE i \in Emits
    <3>1. \A j \in 1 .. i - 1 : j \in Emits /\ \A k \in j + 1 .. i - 1 : k \in Emits
      BY <1>7
    <3> QED BY <1>6, <1>12, <3>1 DEF I!Takes
  <2>2. ASSUME NEW m, m = n + 1 PROVE (\E g \in Global : I!Takes(m, g)') <=> Told
    <3>1. emitted'[m] = I!Here /\ \A j \in 1 .. m - 1 : emitted'[j] = emitted[j] /\ \A k \in j + 1 .. m - 1 : emitted'[k] = emitted[k]
      BY <1>6, <1>7, <2>2
    <3> DEFINE Before(g) == \E j \in 1 .. n : /\ I!Claims(emitted[j], g) /\ emitted[j][1] # I!Top.file
                                             /\ \A k \in j + 1 .. n : ~I!Claims(emitted[k], g)
    <3>2. ASSUME NEW g PROVE I!Takes(m, g)' <=> I!Claims(I!Here, g) /\ Before(g)
      <4>1. m - 1 = n
        BY <1>6, <2>2
      <4> QED BY <1>8, <1>12, <3>1, <4>1 DEF I!Takes
    <3>3. ASSUME NEW g \in Global PROVE Before(g) <=> I!Noted(g)
      <4>1. CASE bound[g] = Missing
        BY <1>7, <4>1 DEF I!Noted, Including, Bound
      <4>2. CASE bound[g] # Missing
        <5>1. PICK j \in Emits : LastClaim(j, g) /\ emitted[j][1] = at[bound[g]]
          BY <4>2 DEF Including, Bound
        <5>2. \A k \in 1 .. n : (I!Claims(emitted[k], g) /\ \A l \in k + 1 .. n : ~I!Claims(emitted[l], g)) => k = j
          BY <1>6, <1>7, <5>1 DEF LastClaim
        <5>3. Before(g) <=> at[bound[g]] # I!Top.file
          BY <1>7, <5>1, <5>2 DEF LastClaim
        <5>4. at[bound[g]] = I!Top.file <=> bound[g] = I!Top.path
          BY <1>2, <4>2 DEF Including, Bound
        <5> QED BY <4>2, <5>3, <5>4 DEF I!Noted
      <4> QED BY <4>1, <4>2
    <3> HIDE DEF Before
    <3> QED BY <1>13, <1>14, <1>15, <3>2, <3>3
  <2> HIDE DEF Told
  <2>3. \E g \in Global : TRUE
    BY <1>15
  <2>4. DOMAIN emitted = 1 .. n /\ DOMAIN emitted' = 1 .. n + 1
    BY <1>6 DEF Including, Emitted, Row
  <2>5. warnings' = warnings \cup IF Told THEN {I!Here} ELSE {}
    BY DEF I!Assign, Told
  <2>6. I!Assigns(I!Here[1], I!Here[2]) /\ \A f, i : I!Assigns(f, i)' <=> I!Assigns(f, i)
    BY <1>1, <1>8 DEF I!Assigns, I!Statement
  <2>7. \A w : w \in warnings /\ I!Assigns(w[1], w[2])
               <=> \E i \in 1 .. n : w = emitted[i] /\ \E g \in Global : I!Takes(i, g)
    BY <2>4 DEF Including, I!HandoversTold
  <2>8. \A w : w \in warnings' /\ I!Assigns(w[1], w[2])
               <=> \E i \in 1 .. n + 1 : w = emitted'[i] /\ \E g \in Global : I!Takes(i, g)'
    <3> TAKE w
    <3>1. (\E i \in 1 .. n + 1 : w = emitted'[i] /\ \E g \in Global : I!Takes(i, g)')
            <=> \/ \E i \in 1 .. n : w = emitted[i] /\ \E g \in Global : I!Takes(i, g)
                \/ w = I!Here /\ Told
      BY <1>6, <1>7, <2>1, <2>2
    <3> QED BY <2>5, <2>6, <2>7, <3>1
  <2> QED BY <2>4, <2>6, <2>8 DEF I!HandoversTold
<1>21. warnings' \subseteq warnings \cup {I!Here}
  BY DEF I!Assign
<1>22. Seen'
  BY <1>1, <1>3, <1>21, SeenStill
<1>23. I!RefusedTakesNext'
  <2>1. I!Range(emitted') \subseteq I!Range(emitted) \cup {I!Here}
    <3>1. DOMAIN emitted = 1 .. n /\ DOMAIN emitted' = 1 .. n + 1
      BY <1>6 DEF Including, Emitted, Row
    <3> QED BY <1>6, <1>7, <3>1 DEF I!Range
  <2> QED BY <1>1, <1>21, <2>1, RefusedStill
<1> QED BY <1>4, <1>5, <1>11, <1>18, <1>19, <1>20, <1>22, <1>23 DEF Including

\* The end of a file: the file that included it goes on.
LEMMA KeepsEnd == ASSUME Including, I!EndOfFile PROVE Including'
<1> DEFINE n == Len(reading)
           left == I!Front(reading)
<1>1. /\ reading # <<>> /\ I!Top.next > Len(text[I!Top.file])
      /\ UNCHANGED <<at, text, limit, included, bound, emitted, warnings, errors>>
      /\ n \in Nat /\ n >= 1 /\ n \in Reads /\ I!Top = reading[n] /\ Reads = 1 .. n
      /\ I!Top.file \in Files /\ I!Top.next \in Nat
  BY TopIs DEF I!EndOfFile, Reads, Opened
<1>2. /\ Row(left) /\ Len(left) = n - 1 /\ \A k \in 1 .. n - 1 : left[k] = reading[k]
      /\ (left = <<>> <=> Len(left) = 0)
  <2>1. Row(reading)
    BY DEF Including, Opens
  <2>2. Row(left) /\ Len(left) = n - 1 /\ \A k \in 1 .. n - 1 : left[k] = reading[k]
    BY <1>1, <2>1, RowIs
  <2> HIDE DEF left, n
  <2> QED BY <2>2, RowIs
<1>3. /\ Row(reading') /\ Len(reading') = n - 1
      /\ \A k \in 1 .. n - 1 : /\ reading'[k].path = reading[k].path /\ reading'[k].file = reading[k].file
                              /\ reading'[k].next = reading[k].next
                              /\ reading'[k].had_error = IF k = n - 1 THEN reading[k].had_error \/ I!Top.had_error
                                                                      ELSE reading[k].had_error
  <2>1. CASE left = <<>>
    <3>1. reading' = left
      BY <2>1 DEF I!EndOfFile
    <3>2. n = 1
      BY <1>1, <1>2, <2>1
    <3> QED BY <1>2, <3>1, <3>2
  <2>2. CASE left # <<>>
    <3> DEFINE m == Len(left)
               f == [left[m] EXCEPT !.had_error = @ \/ I!Top.had_error]
               t == Put(left, m, f)
    <3>1. reading' = t
      BY <2>2 DEF I!EndOfFile, Put
    <3>2. f.path = left[m].path /\ f.file = left[m].file /\ f.next = left[m].next
          /\ f.had_error = (left[m].had_error \/ I!Top.had_error)
      OBVIOUS
    <3>3. m \in 1 .. Len(left) /\ m = n - 1
      BY <1>1, <1>2, <2>2
    <3> HIDE DEF f, left, m
    <3>4. Row(t) /\ Len(t) = Len(left) /\ \A k \in 1 .. Len(left) : t[k] = IF k = m THEN f ELSE left[k]
      <4>1. Row(left) /\ m \in 1 .. Len(left)
        BY <1>2, <3>3
      <4> QED BY <4>1, Changed
    <3> HIDE DEF t
    <3>5. \A k \in 1 .. n - 1 : reading'[k] = IF k = n - 1 THEN f ELSE left[k]
      BY <1>2, <3>1, <3>3, <3>4
    <3> QED BY <1>2, <3>1, <3>2, <3>3, <3>4, <3>5
  <2> QED BY <2>1, <2>2
<1>4. Reads' = 1 .. n - 1 /\ (\A k \in Reads : k \in Reads' \/ k = n) /\ (\A k \in Reads' : k \in Reads /\ k # n)
      /\ Emits' = Emits
  BY <1>1, <1>3 DEF Reads, Emits
<1>5. \A k \in Reads : /\ reading[k].file \in included /\ reading[k].next \in Nat \ {0}
                      /\ reading[k].path \in DOMAIN at /\ reading[k].file = at[reading[k].path]
                      /\ reading[k].had_error \in BOOLEAN
  BY DEF Including, Opens, Opened
<1>6. \A j, k \in Reads : reading[j].file = reading[k].file => j = k
  BY DEF Including, Opens
<1>7. Opens'
  <2>1. \A k \in Reads' : /\ reading'[k].file \in included /\ reading'[k].next \in Nat \ {0}
                         /\ reading'[k].path \in DOMAIN at /\ reading'[k].file = at[reading'[k].path]
    BY <1>3, <1>4, <1>5
  <2>2. \A k \in Reads' : reading'[k].had_error \in BOOLEAN
    BY <1>1, <1>3, <1>4, <1>5
  <2>3. \A j, k \in Reads' : reading'[j].file = reading'[k].file => j = k
    BY <1>3, <1>4, <1>6
  <2>4. (included \subseteq Files)'
    BY <1>1 DEF Including, Opens, Files
  <2> QED BY <1>1, <1>3, <2>1, <2>2, <2>3, <2>4 DEF Opens, Opened
<1>8. Emitted'
  <2>1. \A m \in Emits : /\ emitted[m] = <<emitted[m][1], emitted[m][2]>> /\ emitted[m][1] \in included
                        /\ emitted[m][2] \in Nat
                        /\ \A k \in Reads' : reading'[k].file = emitted[m][1] => emitted[m][2] < reading'[k].next
    BY <1>3, <1>4 DEF Including, Emitted
  <2>2. ASSUME NEW g \in included, NEW i \in DOMAIN text[g], I!Assigns(g, i),
               \A k \in Reads' : reading'[k].file = g => i < reading'[k].next
        PROVE  WasEmitted(g, i) \/ I!PassedOver(g, i)
    <3>1. ASSUME NEW k \in Reads, reading[k].file = g PROVE i < reading[k].next
      <4>1. CASE k = n
        <5>1. i \in 1 .. Len(text[g]) /\ Len(text[g]) \in Nat
          BY TextIs DEF Including, Opens
        <5> QED BY <1>1, <3>1, <4>1, <5>1
      <4>2. CASE k # n
        BY <1>3, <1>4, <2>2, <3>1, <4>2
      <4> QED BY <4>1, <4>2
    <3> QED BY <2>2, <3>1 DEF Including, Emitted
  <2>3. \A g \in included : \A i \in DOMAIN text[g] :
          (/\ I!Assigns(g, i) /\ ~I!PassedOver(g, i)
           /\ \A k \in Reads' : reading'[k].file = g => i < reading'[k].next) => WasEmitted(g, i)
    BY <2>2
  <2> QED BY <1>1, <1>4, <2>1, <2>3 DEF Including, Emitted, I!Assigns, I!PassedOver, WasEmitted
<1>9. Asked'
  <2>1. \A p, m : I!Resolve(p, m)' = I!Resolve(p, m)
    BY <1>1 DEF I!Resolve
  <2>2. \A k \in Reads' : /\ k \in Reads /\ reading'[k].path = reading[k].path /\ reading'[k].file = reading[k].file
                         /\ reading'[k].next = reading[k].next
    BY <1>3, <1>4
  <2> QED BY <1>1, <2>1, <2>2 DEF Including, Asked, I!PassedOver
<1>10. Bound'
  <2>1. \A m, g : LastClaim(m, g)' <=> LastClaim(m, g)
    BY <1>1, <1>4 DEF LastClaim, I!Claims
  <2>2. \A k \in Reads' : k \in Reads /\ reading'[k].path = reading[k].path /\ reading'[k].file = reading[k].file
    BY <1>3, <1>4
  <2> QED BY <1>1, <1>4, <2>1, <2>2 DEF Including, Bound, I!Claims
<1>11. Ends'
  <2>1. ended = "no" /\ (errors # {} <=> \E k \in Reads : reading[k].had_error)
    BY <1>1 DEF Including, Ends
  <2>2. (reading' = <<>>) <=> (n = 1)
    BY <1>1, <1>3, RowIs
  <2>3. CASE n = 1
    <3>1. left = <<>> /\ ended' = (IF I!Top.had_error THEN "failed" ELSE "succeeded") /\ UNCHANGED errors
      BY <1>2, <2>3 DEF I!EndOfFile
    <3>2. errors # {} <=> I!Top.had_error
      BY <1>1, <2>1, <2>3
    <3>3. ended' \in {"failed", "succeeded"} /\ (ended' = "failed" <=> errors # {})
      <4>1. CASE I!Top.had_error
        BY <3>1, <3>2, <4>1
      <4>2. CASE ~I!Top.had_error
        BY <3>1, <3>2, <4>2
      <4> QED BY <4>1, <4>2
    <3> QED BY <1>1, <2>2, <2>3, <3>3 DEF Ends
  <2>4. CASE n # 1
    <3>1. left # <<>> /\ ended' = ended /\ n - 1 \in Reads' /\ n - 1 \in Reads
      BY <1>1, <1>2, <1>4, <2>4 DEF I!EndOfFile
    <3>2. (\E k \in Reads' : reading'[k].had_error) <=> \E k \in Reads : reading[k].had_error
      <4>1. ASSUME NEW k \in Reads', reading'[k].had_error PROVE \E j \in Reads : reading[j].had_error
        BY <1>1, <1>3, <1>4, <4>1
      <4>2. ASSUME NEW k \in Reads, reading[k].had_error PROVE \E j \in Reads' : reading'[j].had_error
        <5>1. CASE k = n
          BY <1>1, <1>3, <1>4, <3>1, <4>2, <5>1
        <5>2. CASE k # n
          <6>1. k \in Reads' /\ reading'[k].had_error
            BY <1>3, <1>4, <4>2, <5>2
          <6> QED BY <6>1
        <5> QED BY <5>1, <5>2
      <4> QED BY <4>1, <4>2
    <3> QED BY <1>1, <2>1, <2>2, <2>4, <3>1, <3>2 DEF Ends
  <2> QED BY <2>3, <2>4
<1>12. I!HandoversTold'
  BY <1>1, ToldStill
<1>13. Given'
  BY <1>1 DEF Including, Given
<1>14. Seen'
  <2>1. \A k \in Reads' : k \in Reads /\ reading'[k].file = reading[k].file /\ reading'[k].next = reading[k].next
    BY <1>3, <1>4
  <2> QED BY <1>1, <2>1 DEF Including, Seen, Said
<1>15. I!RefusedTakesNext'
  BY <1>1 DEF Including, I!RefusedTakesNext, I!PassedOver, I!Range
<1> QED BY <1>7, <1>8, <1>9, <1>10, <1>11, <1>12, <1>13, <1>14, <1>15 DEF Including

LEMMA IncludeStarts == ASSUME I!Init PROVE Including
<1> DEFINE f == I!File(Main)
<1>1. f.path = Main /\ f.file = at[Main] /\ f.next = 1 /\ f.had_error = FALSE
  BY DEF I!File
<1> HIDE DEF f
<1>2. /\ reading \in Seq({f}) /\ Len(reading) = 1 /\ reading[1] = f /\ reading # <<>> /\ emitted \in Seq({f})
      /\ Len(emitted) = 0 /\ emitted = <<>>
  BY DEF I!Init, f
<1>3. Row(reading) /\ Row(emitted) /\ Reads = {1} /\ Emits = {}
  BY <1>2 DEF Row, Reads, Emits
<1>4. /\ at \in Layouts /\ text \in Texts /\ at[Main] # Missing /\ included = {at[Main]} /\ ended = "no"
      /\ bound = [g \in Global |-> Missing] /\ warnings = {} /\ errors = {}
  BY DEF I!Init
<1>5. Main \in DOMAIN at
  BY <1>4, ToolsAssumption DEF I!IncludeAssumption
<1>6. Given
  BY <1>4 DEF Given
<1>7. Opens
  <2>1. f.path \in DOMAIN at /\ f.file = at[f.path] /\ f.file \in included /\ f.next \in Nat \ {0}
    BY <1>1, <1>4, <1>5
  <2>2. f.had_error \in BOOLEAN
    BY <1>1
  <2> QED BY <1>2, <1>3, <1>4, <1>5, <2>1, <2>2 DEF Opens, Opened, Files
<1>8. Ends
  BY <1>1, <1>2, <1>3, <1>4 DEF Ends
<1>9. Emitted
  <2>1. \A i \in DOMAIN text[at[Main]] : ~(i < 1)
    BY <1>4, <1>5, <1>6, TextIs DEF Files
  <2>2. 1 \in Reads /\ reading[1].file = at[Main] /\ reading[1].next = 1
    BY <1>1, <1>2, <1>3
  <2> QED BY <1>3, <1>4, <2>1, <2>2 DEF Emitted
<1>10. Asked
  BY <1>1, <1>2, <1>3 DEF Asked
<1>11. Bound
  BY <1>3, <1>4 DEF Bound
<1>12. I!HandoversTold
  BY <1>2, <1>4 DEF I!HandoversTold
<1>13. Seen /\ I!RefusedTakesNext
  <2>1. I!Range(emitted) = {}
    BY <1>2, <1>3 DEF I!Range, Row
  <2> QED BY <1>4, <2>1 DEF Seen, I!RefusedTakesNext
<1> QED BY <1>6, <1>7, <1>8, <1>9, <1>10, <1>11, <1>12, <1>13 DEF Including

LEMMA IncludeSteps == ASSUME Including, [I!Next]_(I!vars) PROVE Including'
<1>1. CASE UNCHANGED I!vars
  <2>1. \A p, n : I!Resolve(p, n)' = I!Resolve(p, n)
    BY <1>1 DEF I!vars, I!Resolve
  <2>2. \A e, g : I!Claims(e, g)' <=> I!Claims(e, g)
    BY <1>1 DEF I!vars, I!Claims
  <2>3. \A i, g : (I!Takes(i, g)' <=> I!Takes(i, g)) /\ (LastClaim(i, g)' <=> LastClaim(i, g))
    BY <1>1, <2>2 DEF I!vars, I!Takes, LastClaim, Emits
  <2>4. Reads' = Reads /\ Emits' = Emits /\ Files' = Files /\ (\A f, i : I!Assigns(f, i)' <=> I!Assigns(f, i))
    BY <1>1 DEF I!vars, Reads, Emits, Files, I!Assigns
  <2>5. Given' /\ Opens' /\ Ends'
    BY <1>1, <2>4 DEF I!vars, Including, Given, Opens, Opened, Ends
  <2>6. Emitted'
    BY <1>1, <2>4 DEF I!vars, Including, Emitted, I!PassedOver, WasEmitted
  <2>7. Asked' /\ Bound'
    BY <1>1, <2>1, <2>2, <2>3, <2>4 DEF I!vars, Including, Asked, I!PassedOver, Bound
  <2>8. I!HandoversTold'
    BY <1>1, <2>3, <2>4 DEF I!vars, Including, I!HandoversTold
  <2>9. Seen' /\ I!RefusedTakesNext'
    BY <1>1, <2>4 DEF I!vars, Including, Seen, Said, I!RefusedTakesNext, I!PassedOver, I!Range
  <2> QED BY <2>5, <2>6, <2>7, <2>8, <2>9 DEF Including
<1> QED BY <1>1, KeepsAssign, KeepsBad, KeepsInclude, KeepsEnd DEF I!Next

LEMMA IncludingSays == ASSUME Including PROVE IncludesKept
<1>1. I!CompiledOnce
  <2>1. DOMAIN emitted = Emits
    BY DEF Including, Emitted, Row, Emits
  <2> QED BY <2>1 DEF Including, Emitted, I!CompiledOnce
<1>2. I!IncludedIsThere
  <2>1. DOMAIN reading = Reads /\ DOMAIN emitted = Emits
    BY DEF Including, Opens, Emitted, Row, Emits, Reads
  <2> SUFFICES ASSUME NEW o \in I!Range(reading), NEW i \in DOMAIN text[o.file], i < o.next,
                      text[o.file][i].s = "include", <<o.file, i>> \notin errors, ~I!PassedOver(o.file, i),
                      at[I!Resolve(o.path, text[o.file][i].name)] \notin {p.file : p \in I!Range(reading)},
                      NEW j \in DOMAIN text[at[I!Resolve(o.path, text[o.file][i].name)]],
                      I!Assigns(at[I!Resolve(o.path, text[o.file][i].name)], j),
                      ~I!PassedOver(at[I!Resolve(o.path, text[o.file][i].name)], j)
               PROVE  <<at[I!Resolve(o.path, text[o.file][i].name)], j>> \in I!Range(emitted)
    BY DEF I!IncludedIsThere
  <2> DEFINE f == at[I!Resolve(o.path, text[o.file][i].name)]
  <2>2. PICK k \in Reads : o = reading[k]
    BY <2>1 DEF I!Range
  <2>3. f \in included
    <3>1. DOMAIN text[o.file] = 1 .. Len(text[o.file]) /\ Len(text[o.file]) \in Nat /\ o.next \in Nat
      BY <2>2, TextIs DEF Including, Opens, Opened, Reads
    <3>2. i \in 1 .. o.next - 1
      BY <3>1
    <3> QED BY <2>2, <3>2 DEF Including, Asked
  <2>4. \A l \in Reads : reading[l].file # f
    BY <2>1 DEF I!Range
  <2>5. f \in included /\ j \in DOMAIN text[f] /\ I!Assigns(f, j) /\ ~I!PassedOver(f, j)
    BY <2>3
  <2> HIDE DEF f
  <2>6. WasEmitted(f, j)
    BY <2>4, <2>5 DEF Including, Emitted
  <2>7. <<f, j>> \in I!Range(emitted)
    BY <2>1, <2>6 DEF WasEmitted, I!Range
  <2> QED BY <2>7 DEF f
<1> QED BY <1>1, <1>2 DEF IncludesKept, I!IncludesKept, Including, Ends

\* Every reachable state has the invariant above: of the files being compiled exactly
\* what is before the next statement was emitted, of the others everything, but for the
\* statement behind a refused include.
THEOREM IncludeInv == I!Spec => []Including
BY IncludeStarts, IncludeSteps, PTL DEF I!Spec

\* Files are compiled once each, where they are first included, all but the statement
\* behind a refused include; takeovers of a name are told; and a failure in any file is
\* the failure of the compilation.
THEOREM IncludesAreKept == I!Spec => []IncludesKept
BY IncludeInv, IncludingSays, PTL

-----------------------------------------------------------------------------
(* Debugger                                                                *)

Going == {"offer", "execute", "failing"}

Framed(s, n) ==
  /\ Row(s)
  /\ \A k \in 1 .. Len(s) : s[k].id \in 1 .. n /\ s[k].after \in {"answer", "fail", "exit"}
  /\ Len(s) >= 1 => s[1].by = "run" /\ s[1].after = "answer"
  /\ \A j, k \in 1 .. Len(s) : s[j].id = s[k].id => j = k

Frames == entered \in Nat /\ Framed(stack, entered) /\ (doing # "over" => stack # <<>>)

Fields == {"mode", "depth", "line", "last_offer_depth", "quitting"}

Kinds ==
  /\ solid = [f \in Fields |-> solid[f]]
  /\ solid.mode \in D!Modes /\ solid.depth \in Int /\ solid.last_offer_depth \in Int
  /\ last = [line |-> last.line, id |-> last.id]
  /\ last.id \in 0 .. entered /\ asked.id \in 0 .. entered /\ asked.depth \in Int
  /\ doing \in {"offer", "prompt", "execute", "failing", "fail", "exit", "over"}

\* Where frames were: the one last offered, and the one the last command was given in.
Offered ==
  /\ \A k \in 1 .. D!Depth : stack[k].id = last.id => k = solid.last_offer_depth
  /\ doing \in {"prompt", "execute", "failing"} => last = D!Place /\ solid.last_offer_depth = D!Depth
  /\ doing \in {"fail", "exit"} => last.id \notin D!Waiting

Ordered ==
  /\ \A k \in 1 .. D!Depth : stack[k].id = asked.id => k = asked.depth
  /\ solid.mode \in {"next", "finish"} => solid.depth = asked.depth
  /\ solid.mode = "next" => solid.line = asked.line

Came ==
  doing = "offer" =>
    /\ came = "back" => solid.last_offer_depth > D!Depth
    /\ came \in {"new", "along"} => D!Place # last /\ solid.last_offer_depth <= D!Depth

\* The place last gone on from, as long as its frame is there, is one that the last
\* command was to go on from.
Passed ==
  (doing \in Going /\ last.id \in {stack[k].id : k \in 1 .. D!Depth}) =>
    /\ solid.mode = "step" => last.id = asked.id /\ last.line = asked.line
    /\ solid.mode = "next" => /\ solid.last_offer_depth >= asked.depth
                              /\ last.id = asked.id => last.line = asked.line
    /\ solid.mode = "finish" => solid.last_offer_depth >= asked.depth

DInv == Frames /\ Kinds /\ Offered /\ Ordered /\ Came /\ Passed

-----------------------------------------------------------------------------
(* The frames                                                              *)

\* Of a frame that goes along only the line changes.
Relined(s, n, l) == [s EXCEPT ![n].line = l]

LEMMA Lined ==
  ASSUME NEW s, NEW l, NEW n, NEW t, Row(s), Len(s) >= 1, n = Len(s), t = Relined(s, n, l)
  PROVE  /\ Row(t) /\ Len(t) = n
         /\ \A k \in 1 .. n : t[k].id = s[k].id /\ t[k].by = s[k].by /\ t[k].after = s[k].after
<1> DEFINE f == [s[n] EXCEPT !.line = l]
<1>1. PICK S : s \in Seq(S)
  BY DEF Row
<1>2. s \in Seq(S \cup {f}) /\ f \in S \cup {f} /\ n \in 1 .. Len(s)
  BY <1>1
<1>3. t = [s EXCEPT ![n] = f]
  BY DEF Relined
<1>4. f.id = s[n].id /\ f.by = s[n].by /\ f.after = s[n].after
  OBVIOUS
<1> HIDE DEF f
<1>5. t \in Seq(S \cup {f}) /\ Len(t) = Len(s) /\ \A k \in 1 .. Len(s) : t[k] = IF k = n THEN f ELSE s[k]
  BY <1>2, <1>3, ExceptSeq
<1> QED BY <1>4, <1>5 DEF Row

\* The first j frames of s stay, and on them comes one with a new id, or none.
Moves(s, t, n, m, j) ==
  /\ Row(t) /\ j \in 0 .. Len(s) /\ Len(t) \in {j, j + 1}
  /\ \A k \in 1 .. j : t[k].id = s[k].id /\ t[k].by = s[k].by /\ t[k].after = s[k].after
  /\ Len(t) = j => m = n
  /\ Len(t) = j + 1 =>
       /\ j >= 1 /\ m = n + 1
       /\ t[j + 1].id = n + 1 /\ t[j + 1].after \in {"answer", "fail", "exit"}

LEMMA FramedStill ==
  ASSUME NEW s, NEW t, NEW n \in Nat, NEW m, NEW j, Framed(s, n), Moves(s, t, n, m, j)
  PROVE  /\ Framed(t, m) /\ m \in Nat /\ n <= m
         /\ \A i \in 0 .. n : \A k \in 1 .. Len(t) : t[k].id = i => k \in 1 .. j /\ s[k].id = i
<1>1. Len(s) \in Nat /\ Len(t) \in Nat /\ j \in Nat /\ j <= Len(s)
  BY StackIs DEF Framed, Moves
<1>2. \A k \in 1 .. j : t[k].id = s[k].id /\ t[k].by = s[k].by /\ t[k].after = s[k].after /\ k \in 1 .. Len(s)
  BY <1>1 DEF Moves
<1>3. CASE Len(t) = j
  BY <1>1, <1>2, <1>3 DEF Moves, Framed
<1>4. CASE Len(t) = j + 1
  <2>1. \A k \in 1 .. Len(t) : k \in 1 .. j \/ k = j + 1
    BY <1>1, <1>4
  <2>2. m = n + 1 /\ t[j + 1].id = n + 1 /\ t[j + 1].after \in {"answer", "fail", "exit"}
    BY <1>4 DEF Moves
  <2>3. \A k \in 1 .. j : t[k].id \in 1 .. n /\ t[k].after \in {"answer", "fail", "exit"}
    BY <1>2 DEF Framed
  <2>4. \A k, l \in 1 .. j : t[k].id = t[l].id => k = l
    BY <1>2 DEF Framed
  <2>5. \A k, l \in 1 .. Len(t) : t[k].id = t[l].id => k = l
    BY <2>1, <2>2, <2>3, <2>4
  <2>6. \A k \in 1 .. Len(t) : t[k].id \in 1 .. m /\ t[k].after \in {"answer", "fail", "exit"}
    BY <2>1, <2>2, <2>3
  <2>7. \A i \in 0 .. n : \A k \in 1 .. Len(t) : t[k].id = i => k \in 1 .. j /\ s[k].id = i
    BY <1>2, <2>1, <2>2
  <2>8. t[1].by = "run" /\ t[1].after = "answer"
    <3>1. 1 \in 1 .. j /\ Len(s) >= 1
      BY <1>1, <1>4 DEF Moves
    <3> QED BY <1>2, <3>1 DEF Framed
  <2> QED BY <2>2, <2>5, <2>6, <2>7, <2>8 DEF Framed, Moves
<1> QED BY <1>3, <1>4 DEF Moves

-----------------------------------------------------------------------------
(* What a move of the program keeps                                        *)

LEMMA Here ==
  ASSUME DInv, doing # "over"
  PROVE  /\ D!Depth \in Nat /\ D!Depth >= 1 /\ D!Top = stack[D!Depth] /\ D!Top.id \in 1 .. entered
         /\ D!Depth = 1 => D!Top.by = "run" /\ D!Top.after = "answer"
         /\ D!Top.after \in {"answer", "fail", "exit"}
         /\ entered \in Nat /\ Framed(stack, entered) /\ last.id \in 0 .. entered /\ asked.id \in 0 .. entered
<1>1. Row(stack) /\ stack # <<>> /\ Framed(stack, entered) /\ entered \in Nat
  BY DEF DInv, Frames, Framed
<1>2. D!Depth \in Nat /\ D!Depth >= 1 /\ D!Top = stack[D!Depth]
  BY <1>1, StackIs DEF D!Top, D!Depth
<1>3. D!Depth \in 1 .. Len(stack)
  BY <1>2 DEF D!Depth
<1> QED BY <1>1, <1>2, <1>3 DEF Framed, DInv, Kinds, D!Depth

LEMMA Moved1 ==
  ASSUME DInv, doing # "over", NEW j, Moves(stack, stack', entered, entered', j),
         UNCHANGED <<last, solid, asked>>,
         doing' \in {"offer", "fail", "exit", "over"}, doing' # "over" => stack' # <<>>
  PROVE  /\ Frames' /\ Kinds' /\ Ordered'
         /\ \A k \in 1 .. Len(stack') : stack'[k].id = last'.id => k = solid'.last_offer_depth
         /\ \A i \in 0 .. entered : \A k \in 1 .. Len(stack') : stack'[k].id = i => k \in 1 .. j /\ stack[k].id = i
<1>1. /\ Framed(stack', entered') /\ entered' \in Nat /\ entered <= entered'
      /\ \A i \in 0 .. entered : \A k \in 1 .. Len(stack') : stack'[k].id = i => k \in 1 .. j /\ stack[k].id = i
  BY Here, FramedStill
<1>2. \A k \in 1 .. j : k \in 1 .. D!Depth
  BY Here DEF Moves, D!Depth
<1>3. entered \in Nat /\ last.id \in 0 .. entered /\ asked.id \in 0 .. entered
  BY Here
<1>4. Frames'
  BY <1>1 DEF Frames
<1>5. Kinds'
  BY <1>1, <1>3 DEF DInv, Kinds
<1>6. Ordered'
  BY <1>1, <1>2, <1>3 DEF DInv, Ordered, D!Depth
<1>7. \A k \in 1 .. Len(stack') : stack'[k].id = last'.id => k = solid'.last_offer_depth
  BY <1>1, <1>2, <1>3 DEF DInv, Offered
<1> QED BY <1>1, <1>4, <1>5, <1>6, <1>7

\* The frame at the top goes, and no place of those left was offered last.
LEMMA PopKeeps ==
  ASSUME DInv, doing \in {"execute", "fail", "exit"},
         Moves(stack, stack', entered, entered', D!Depth - 1),
         UNCHANGED <<last, solid, asked>>,
         doing' \in {"offer", "fail", "exit", "over"}, doing' # "over" => stack' # <<>>, Came'
  PROVE  DInv'
<1>1. /\ Frames' /\ Kinds' /\ Ordered'
      /\ \A k \in 1 .. Len(stack') : stack'[k].id = last'.id => k = solid'.last_offer_depth
      /\ \A k \in 1 .. Len(stack') : stack'[k].id = last.id => k \in 1 .. D!Depth - 1 /\ stack[k].id = last.id
  BY Here, Moved1
<1>2. \A k \in 1 .. D!Depth - 1 : stack[k].id # last.id
  <2>1. CASE doing = "execute"
    <3>1. last.id = stack[D!Depth].id
      BY <2>1, Here DEF DInv, Offered, D!Place
    <3>2. \A k \in 1 .. D!Depth - 1 : k \in 1 .. Len(stack) /\ k # D!Depth
      BY Here DEF D!Depth
    <3>3. D!Depth \in 1 .. Len(stack)
      BY Here DEF D!Depth
    <3> QED BY <3>1, <3>2, <3>3, Here DEF Framed
  <2>2. CASE doing \in {"fail", "exit"}
    BY <2>2 DEF DInv, Offered, D!Waiting
  <2> QED BY <2>1, <2>2
<1>3. \A k \in 1 .. Len(stack') : stack'[k].id # last'.id
  BY <1>1, <1>2
<1>4. Row(stack')
  BY DEF Moves
<1>5. Offered'
  <2>1. \A k \in 1 .. D!Depth' - 1 : k \in 1 .. Len(stack')
    BY <1>4, StackIs DEF D!Depth
  <2> QED BY <1>1, <1>3, <2>1 DEF Offered, D!Depth, D!Waiting
<1>6. Passed'
  BY <1>3 DEF Passed, D!Depth
<1> QED BY <1>1, <1>5, <1>6 DEF DInv

\* The frame at the top stays, perhaps with one on top of it.
LEMMA AlongKeeps ==
  ASSUME DInv, doing = "execute", Moves(stack, stack', entered, entered', D!Depth),
         UNCHANGED <<last, solid, asked>>, doing' = "offer", stack' # <<>>, Came'
  PROVE  DInv'
<1>1. /\ Frames' /\ Kinds' /\ Ordered'
      /\ \A k \in 1 .. Len(stack') : stack'[k].id = last'.id => k = solid'.last_offer_depth
      /\ \A k \in 1 .. Len(stack') : stack'[k].id = last.id => k \in 1 .. D!Depth /\ stack[k].id = last.id
  BY Here, Moved1
<1>2. Offered'
  BY <1>1 DEF Offered, D!Depth
<1>3. Passed'
  BY <1>1 DEF Passed, Going, D!Depth, DInv
<1> QED BY <1>1, <1>2, <1>3 DEF DInv

-----------------------------------------------------------------------------
(* The program                                                             *)

LEMMA KeepsAlong == ASSUME DInv, NEW l, D!Along(l) PROVE DInv'
<1>1. /\ D!Depth \in Nat /\ D!Depth >= 1 /\ D!Depth = Len(stack) /\ Row(stack) /\ D!Top = stack[D!Depth]
  BY Here DEF D!Along, Framed, D!Depth
<1>2. /\ Row(stack') /\ Len(stack') = D!Depth
      /\ \A k \in 1 .. D!Depth : /\ stack'[k].id = stack[k].id /\ stack'[k].by = stack[k].by
                               /\ stack'[k].after = stack[k].after
  <2>1. stack' = Relined(stack, D!Depth, l)
    BY DEF D!Along, Relined
  <2> QED BY <1>1, <2>1, Lined
<1>3. Moves(stack, stack', entered, entered', D!Depth)
  BY <1>1, <1>2 DEF Moves, D!Along
<1>4. stack' # <<>>
  BY <1>1, <1>2, StackIs
<1>5. Came'
  <2>1. last = D!Place /\ solid.last_offer_depth = D!Depth
    BY DEF DInv, Offered, D!Along
  <2>2. D!Top' = stack'[D!Depth] /\ D!Depth' = D!Depth
    BY <1>1, <1>2, StackIs DEF D!Top, D!Depth
  <2>3. stack'[D!Depth].line = l
    BY <1>1 DEF D!Along, DInv, Frames, Framed, Row
  <2>4. came' \in {"here", "along"} /\ (came' = "along" => l # D!Top.line)
    BY DEF D!Along
  <2> QED BY <1>1, <2>1, <2>2, <2>3, <2>4 DEF Came, D!Place, D!Along
<1> QED BY <1>3, <1>4, <1>5, AlongKeeps DEF D!Along

\* What Enter does to what is under the new frame.
LEMMA EnteredIs ==
  ASSUME DInv, doing # "over", NEW under, NEW by, NEW line, NEW after, NEW how, Row(under),
         D!Enter(under, by, line, after, how)
  PROVE  /\ Row(stack') /\ Len(stack') = Len(under) + 1 /\ stack' # <<>> /\ Len(under) \in Nat
         /\ \A k \in 1 .. Len(under) : stack'[k] = under[k]
         /\ D!Top' = stack'[Len(under) + 1] /\ D!Top'.id = entered + 1 /\ D!Top'.after = after
         /\ entered' = entered + 1 /\ D!Depth' = Len(under) + 1 /\ doing' = "offer" /\ came' = how
<1> DEFINE f == D!Frame(by, line, after)
<1>1. f.id = entered + 1 /\ f.after = after
  BY DEF D!Frame
<1> HIDE DEF f
<1>2. stack' = Append(under, f)
  BY DEF D!Enter, f
<1>3. /\ Row(stack') /\ Len(stack') = Len(under) + 1
      /\ \A k \in 1 .. Len(under) : stack'[k] = under[k]
      /\ stack'[Len(under) + 1] = f
  BY <1>2, Pushed
<1>4. Len(under) \in Nat
  BY StackIs
<1>5. stack' # <<>> /\ D!Top' = stack'[Len(under) + 1]
  BY <1>3, <1>4, StackIs DEF D!Top
<1> QED BY <1>1, <1>3, <1>4, <1>5 DEF D!Enter, D!Depth

LEMMA KeepsCall == ASSUME DInv, NEW l, NEW by, NEW into, D!Call(l, by, into) PROVE DInv'
<1> DEFINE under == Relined(stack, D!Depth, l)
<1>1. /\ D!Depth \in Nat /\ D!Depth >= 1 /\ D!Depth = Len(stack) /\ Row(stack) /\ entered \in Nat
  BY Here DEF D!Call, Framed, D!Depth
<1>2. /\ Row(under) /\ Len(under) = D!Depth
      /\ \A k \in 1 .. D!Depth : /\ under[k].id = stack[k].id /\ under[k].by = stack[k].by
                               /\ under[k].after = stack[k].after
  BY <1>1, Lined
<1> HIDE DEF under
<1>3. D!Enter(under, by, into, "answer", "new") /\ doing = "execute"
  BY DEF D!Call, under, Relined
<1>4. /\ Row(stack') /\ Len(stack') = D!Depth + 1 /\ stack' # <<>>
      /\ \A k \in 1 .. D!Depth : stack'[k] = under[k]
      /\ D!Top' = stack'[D!Depth + 1] /\ D!Top'.id = entered + 1 /\ D!Top'.after = "answer"
      /\ entered' = entered + 1 /\ D!Depth' = D!Depth + 1 /\ doing' = "offer" /\ came' = "new"
  BY <1>2, <1>3, EnteredIs
<1>5. Moves(stack, stack', entered, entered', D!Depth)
  BY <1>1, <1>2, <1>4 DEF Moves
<1>6. Came'
  <2>1. solid.last_offer_depth = D!Depth /\ last.id # D!Top'.id /\ UNCHANGED <<solid, last>>
    BY <1>1, <1>3, <1>4 DEF DInv, Offered, Kinds, D!Call
  <2> QED BY <1>1, <1>4, <2>1 DEF Came, D!Place
<1> QED BY <1>3, <1>4, <1>5, <1>6, AlongKeeps DEF D!Call

\* A frame goes, and another comes in its place or none.
LEMMA FrontMoves ==
  ASSUME DInv, doing # "over"
  PROVE  /\ Row(D!Front(stack)) /\ Len(D!Front(stack)) = D!Depth - 1
         /\ stack' = D!Front(stack) /\ entered' = entered => Moves(stack, stack', entered, entered', D!Depth - 1)
         /\ \A by, line, after, how :
              (D!Enter(D!Front(stack), by, line, after, how) /\ D!Depth # 1 /\ after \in {"answer", "fail", "exit"})
                => /\ Moves(stack, stack', entered, entered', D!Depth - 1) /\ stack' # <<>>
                   /\ doing' = "offer" /\ D!Top'.id = entered + 1 /\ D!Depth' = D!Depth
<1>1. /\ D!Depth \in Nat /\ D!Depth >= 1 /\ D!Depth = Len(stack) /\ Row(stack) /\ entered \in Nat
  BY Here DEF Framed, D!Depth
<1>2. /\ Row(D!Front(stack)) /\ Len(D!Front(stack)) = D!Depth - 1
      /\ \A k \in 1 .. D!Depth - 1 : D!Front(stack)[k] = stack[k]
  BY <1>1, StackIs
<1>3. stack' = D!Front(stack) /\ entered' = entered => Moves(stack, stack', entered, entered', D!Depth - 1)
  BY <1>1, <1>2 DEF Moves
<1>4. ASSUME NEW by, NEW line, NEW after, NEW how, D!Enter(D!Front(stack), by, line, after, how), D!Depth # 1,
             after \in {"answer", "fail", "exit"}
      PROVE  /\ Moves(stack, stack', entered, entered', D!Depth - 1) /\ stack' # <<>>
             /\ doing' = "offer" /\ D!Top'.id = entered + 1 /\ D!Depth' = D!Depth
  <2>1. /\ Row(stack') /\ Len(stack') = D!Depth - 1 + 1 /\ stack' # <<>>
        /\ \A k \in 1 .. D!Depth - 1 : stack'[k] = D!Front(stack)[k]
        /\ D!Top' = stack'[D!Depth - 1 + 1] /\ D!Top'.id = entered + 1 /\ D!Top'.after = after
        /\ entered' = entered + 1 /\ D!Depth' = D!Depth - 1 + 1 /\ doing' = "offer" /\ came' = how
    BY <1>2, <1>4, EnteredIs
  <2> DEFINE j == D!Depth - 1
  <2>2. j \in Nat /\ j >= 1 /\ j \in 0 .. Len(stack) /\ D!Depth = j + 1
    BY <1>1, <1>4
  <2>3. \A k \in 1 .. j : stack'[k] = stack[k]
    BY <1>2, <2>1
  <2> HIDE DEF j
  <2>4. Moves(stack, stack', entered, entered', j)
    BY <1>4, <2>1, <2>2, <2>3 DEF Moves, j
  <2> QED BY <2>1, <2>2, <2>4 DEF j
<1> QED BY <1>2, <1>3, <1>4

\* The answer of a frame that was popped: what goes on is below it.
LEMMA PopMoves ==
  ASSUME DInv, doing # "over", stack' = D!Front(stack)
  PROVE  /\ D!Depth' = D!Depth - 1 /\ Row(stack') /\ Len(stack') = D!Depth - 1
         /\ (stack' = <<>> <=> D!Depth = 1) /\ D!Depth \in Nat /\ D!Depth >= 1
<1>1. /\ D!Depth \in Nat /\ D!Depth >= 1 /\ Row(D!Front(stack)) /\ Len(D!Front(stack)) = D!Depth - 1
  BY Here, FrontMoves
<1>2. Row(stack') /\ Len(stack') = D!Depth - 1
  BY <1>1
<1> QED BY <1>1, <1>2, StackIs DEF D!Depth

LEMMA KeepsReturn == ASSUME DInv, D!Return PROVE DInv'
<1>1. /\ doing = "execute" /\ D!Depth \in Nat /\ D!Depth >= 1 /\ entered \in Nat
      /\ D!Depth = 1 => D!Top.by = "run" /\ D!Top.after = "answer"
      /\ D!Top.after \in {"answer", "fail", "exit"} /\ UNCHANGED <<last, solid, asked>>
  BY Here DEF D!Return
<1>2. solid.last_offer_depth = D!Depth /\ last.id \in 0 .. entered /\ solid' = solid /\ last' = last
  BY <1>1 DEF DInv, Offered, Kinds
<1>3. ASSUME NEW by, NEW l, D!Enter(D!Front(stack), by, l, "answer", "new"), D!Depth # 1
      PROVE  DInv'
  <2>1. /\ Moves(stack, stack', entered, entered', D!Depth - 1) /\ stack' # <<>>
        /\ doing' = "offer" /\ D!Top'.id = entered + 1 /\ D!Depth' = D!Depth
    BY <1>1, <1>3, FrontMoves
  <2>2. Came'
    <3>1. last.id # D!Top'.id /\ came' = "new"
      BY <1>1, <1>2, <1>3, <2>1 DEF D!Enter
    <3> QED BY <1>1, <1>2, <2>1, <3>1 DEF Came, D!Place
  <2> QED BY <1>1, <2>1, <2>2, PopKeeps
<1>4. ASSUME stack' = D!Front(stack), entered' = entered, came' = "back",
             doing' = IF D!Top.after # "answer" THEN D!Top.after ELSE IF stack' = <<>> THEN "over" ELSE "offer"
      PROVE  DInv'
  <2>1. D!Depth' = D!Depth - 1 /\ (stack' = <<>> <=> D!Depth = 1)
    BY <1>1, <1>4, PopMoves
  <2>2. Moves(stack, stack', entered, entered', D!Depth - 1)
    BY <1>1, <1>4, FrontMoves
  <2>3. doing' \in {"offer", "fail", "exit", "over"} /\ (doing' # "over" => stack' # <<>>)
    BY <1>1, <1>4, <2>1
  <2>4. Came'
    BY <1>1, <1>2, <1>4, <2>1 DEF Came
  <2> QED BY <1>1, <2>2, <2>3, <2>4, PopKeeps
<1>5. CASE D!Top.by = "loop" /\ \E l \in Line : D!Enter(D!Front(stack), "loop", l, "answer", "new")
  BY <1>1, <1>3, <1>5
<1>6. CASE D!Top.by = "ensured" /\ \E l \in Line : D!Enter(D!Front(stack), "cleanup", l, "answer", "new")
  BY <1>1, <1>3, <1>6
<1> QED BY <1>4, <1>5, <1>6 DEF D!Return

LEMMA KeepsUnwind == ASSUME DInv, D!Unwind PROVE DInv'
<1>1. /\ doing \in {"fail", "exit"} /\ D!Depth \in Nat /\ D!Depth >= 1 /\ entered \in Nat
      /\ D!Depth = 1 => D!Top.by = "run" /\ D!Top.after = "answer"
      /\ D!Top.after \in {"answer", "fail", "exit"} /\ UNCHANGED <<last, solid, asked>>
  BY Here DEF D!Unwind
<1>2. ASSUME NEW by, NEW l, NEW after \in {"answer", "fail", "exit"},
             D!Enter(D!Front(stack), by, l, after, "caught"), D!Depth # 1
      PROVE  DInv'
  <2>1. /\ Moves(stack, stack', entered, entered', D!Depth - 1) /\ stack' # <<>> /\ doing' = "offer"
    BY <1>1, <1>2, FrontMoves
  <2>2. Came'
    BY <1>2 DEF Came, D!Enter
  <2> QED BY <1>1, <2>1, <2>2, PopKeeps
<1>3. ASSUME stack' = D!Front(stack), entered' = entered,
             doing' = IF D!Depth = 1 THEN "over" ELSE IF D!Top.after # "answer" THEN D!Top.after ELSE doing
      PROVE  DInv'
  <2>1. D!Depth' = D!Depth - 1 /\ (stack' = <<>> <=> D!Depth = 1)
    BY <1>1, <1>3, PopMoves
  <2>2. Moves(stack, stack', entered, entered', D!Depth - 1)
    BY <1>1, <1>3, FrontMoves
  <2>3. doing' \in {"fail", "exit", "over"} /\ (doing' # "over" => stack' # <<>>)
    BY <1>1, <1>3, <2>1
  <2>4. Came'
    BY <2>3 DEF Came
  <2> QED BY <1>1, <2>2, <2>3, <2>4, PopKeeps
<1>4. CASE D!Top.by = "guarded" /\ \E l \in Line : D!Enter(D!Front(stack), "handler", l, "answer", "caught")
  BY <1>1, <1>2, <1>4
<1>5. CASE D!Top.by = "ensured" /\ \E l \in Line : D!Enter(D!Front(stack), "cleanup", l, doing, "caught")
  BY <1>1, <1>2, <1>5
<1> QED BY <1>3, <1>4, <1>5 DEF D!Unwind

-----------------------------------------------------------------------------
(* The debugger                                                            *)

\* What leaves the frames alone.
LEMMA FramesStill ==
  ASSUME UNCHANGED <<stack, entered>>
  PROVE  D!Depth' = D!Depth /\ D!Top' = D!Top /\ D!Place' = D!Place /\ D!Waiting' = D!Waiting
BY DEF D!Depth, D!Top, D!Place, D!Waiting

LEMMA KeepsStill == ASSUME DInv, UNCHANGED D!vars PROVE DInv'
BY FramesStill DEF DInv, D!vars, Frames, Kinds, Offered, Ordered, Came, Passed, D!Depth

\* What an offer that is let by has not passed.
LEMMA NothingIsPassed == ASSUME DInv, D!Offer, doing' = "execute" PROVE D!NothingPassed
<1>1. doing = "offer" /\ D!Depth \in Nat /\ D!Depth >= 1 /\ D!Top = stack[D!Depth]
  BY Here DEF D!Offer
<1>2. /\ \A k \in 1 .. D!Depth : stack[k].id = asked.id => k = asked.depth
      /\ solid.mode \in {"next", "finish"} => solid.depth = asked.depth
      /\ solid.mode = "next" => solid.line = asked.line
      /\ asked.depth \in Int /\ solid.last_offer_depth \in Int
  BY DEF DInv, Ordered, Kinds
<1>3. CASE ~D!Moved
  <2>1. last = D!Place
    BY <1>3 DEF D!Moved
  <2>2. last.id = D!Top.id /\ last.line = D!Top.line /\ D!Depth \in 1 .. D!Depth
    BY <1>1, <2>1 DEF D!Place
  <2>3. solid.last_offer_depth = D!Depth
    BY <1>1, <2>2 DEF DInv, Offered
  <2>4. came \notin {"new", "along"}
    BY <1>1, <2>1 DEF DInv, Came
  <2>5. /\ solid.mode = "step" => last.id = asked.id /\ last.line = asked.line
        /\ solid.mode = "next" => /\ solid.last_offer_depth >= asked.depth
                                  /\ last.id = asked.id => last.line = asked.line
        /\ solid.mode = "finish" => solid.last_offer_depth >= asked.depth
    BY <1>1, <2>2 DEF DInv, Passed, Going
  <2> QED BY <2>2, <2>3, <2>4, <2>5 DEF D!NothingPassed
<1>4. CASE D!Moved
  <2>1. ~(~D!Returning /\ D!Top.line \in breaks) /\ ~D!Wanted
    BY <1>4 DEF D!Offer
  <2>2. D!Top.line \notin breaks \/ came \notin {"new", "along"}
    BY <1>1, <1>2, <2>1 DEF DInv, Came, D!Returning
  <2>3. solid.mode # "step" /\ (solid.mode = "finish" => D!Depth >= asked.depth)
    BY <1>1, <1>2, <2>1 DEF D!Wanted
  <2>4. solid.mode = "next" => D!Depth >= asked.depth /\ (D!Depth = asked.depth => D!Top.line = asked.line)
    BY <1>1, <1>2, <2>1 DEF D!Wanted
  <2>5. asked.id = D!Top.id => D!Depth = asked.depth
    BY <1>1, <1>2
  <2> QED BY <2>2, <2>3, <2>4, <2>5 DEF D!NothingPassed
<1> QED BY <1>3, <1>4

\* What an offer that is taken was taken for.
LEMMA StopIsCalledFor == ASSUME DInv, D!Offer, doing' = "prompt" PROVE D!CalledFor
<1>1. doing = "offer" /\ D!Depth \in Nat /\ D!Depth >= 1 /\ D!Top = stack[D!Depth] /\ D!Moved
  BY Here DEF D!Offer
<1>2. /\ \A k \in 1 .. D!Depth : stack[k].id = asked.id => k = asked.depth
      /\ solid.mode \in {"next", "finish"} => solid.depth = asked.depth
      /\ solid.mode = "next" => solid.line = asked.line
      /\ asked.depth \in Int /\ solid.last_offer_depth \in Int
  BY DEF DInv, Ordered, Kinds
<1>3. (~D!Returning /\ D!Top.line \in breaks) \/ D!Wanted
  BY <1>1 DEF D!Offer
<1>4. CASE ~D!Returning /\ D!Top.line \in breaks
  BY <1>1, <1>4 DEF DInv, Came, D!Returning, D!CalledFor
<1>5. CASE D!Wanted
  <2>1. \/ solid.mode = "step"
        \/ solid.mode \in {"next", "finish"} /\ D!Depth < asked.depth
        \/ solid.mode = "next" /\ D!Depth = asked.depth /\ D!Top.line # asked.line
    BY <1>2, <1>5 DEF D!Wanted
  <2>2. D!Depth <= asked.depth => asked.id \notin D!Waiting
    BY <1>1, <1>2 DEF D!Waiting
  <2>3. D!Depth < asked.depth => asked.id # D!Top.id
    BY <1>1, <1>2
  <2> QED BY <1>1, <1>2, <2>1, <2>2, <2>3 DEF D!CalledFor
<1> QED BY <1>3, <1>4, <1>5

LEMMA KeepsOffer == ASSUME DInv, D!Offer PROVE DInv'
<1>1. /\ doing = "offer" /\ last' = D!Place /\ UNCHANGED <<stack, entered, asked>> /\ came' = "here"
      /\ doing' \in {"prompt", "execute"}
  BY DEF D!Offer
<1>2. /\ D!Depth \in Nat /\ D!Depth >= 1 /\ D!Top = stack[D!Depth] /\ D!Top.id \in 1 .. entered /\ D!Depth = Len(stack)
      /\ Framed(stack, entered) /\ entered \in Nat
  BY <1>1, Here DEF D!Depth
<1>3. D!Depth' = D!Depth /\ D!Top' = D!Top /\ D!Place' = D!Place
  BY <1>1, FramesStill
<1>4. solid' = [solid EXCEPT !.last_offer_depth = D!Depth]
  <2>1. CASE D!Moved
    BY <2>1 DEF D!Offer
  <2>2. CASE ~D!Moved
    <3>1. last.id = stack[D!Depth].id /\ D!Depth \in 1 .. D!Depth /\ solid' = solid
      BY <1>2, <2>2 DEF D!Offer, D!Moved, D!Place
    <3>2. solid.last_offer_depth = D!Depth
      BY <3>1 DEF DInv, Offered
    <3> QED BY <3>1, <3>2 DEF DInv, Kinds, Fields
  <2> QED BY <2>1, <2>2
<1>5. /\ solid' = [f \in Fields |-> solid'[f]] /\ solid'.last_offer_depth = D!Depth
      /\ solid'.mode = solid.mode /\ solid'.depth = solid.depth /\ solid'.line = solid.line
  BY <1>4 DEF DInv, Kinds, Fields
<1>6. Kinds'
  BY <1>1, <1>2, <1>5 DEF DInv, Kinds, D!Place
<1>7. Offered'
  <2>1. \A k \in 1 .. D!Depth : stack[k].id = D!Top.id => k = D!Depth
    BY <1>2 DEF Framed
  <2> QED BY <1>1, <1>3, <1>5, <2>1 DEF Offered, D!Place
<1>8. Ordered' /\ Came'
  BY <1>1, <1>3, <1>5 DEF DInv, Ordered, Came
<1>9. Passed'
  <2>1. CASE doing' = "execute"
    BY <1>1, <1>2, <1>5, <2>1, NothingIsPassed DEF Passed, D!NothingPassed, D!Place, DInv, Kinds
  <2> QED BY <1>1, <2>1 DEF Passed, Going
<1>10. Frames'
  BY <1>1 DEF Frames, DInv
<1> QED BY <1>6, <1>7, <1>8, <1>9, <1>10 DEF DInv

LEMMA KeepsCommand ==
  ASSUME DInv, (\E mode \in D!Modes : D!GoOn(mode)) \/ D!Quit \/ D!LetFall \/ D!Fail \/ D!Exit
  PROVE  DInv'
<1>1. /\ UNCHANGED <<stack, entered, last, came>>
      /\ doing \in {"prompt", "execute", "failing"} /\ doing' \in {"execute", "failing", "fail", "exit"}
  BY DEF D!GoOn, D!Quit, D!LetFall, D!Fail, D!Exit
<1>2. /\ D!Depth \in Nat /\ D!Depth >= 1 /\ D!Top = stack[D!Depth] /\ D!Top.id \in 1 .. entered /\ D!Depth = Len(stack)
      /\ Framed(stack, entered) /\ entered \in Nat
  BY <1>1, Here DEF D!Depth
<1>3. D!Depth' = D!Depth /\ D!Top' = D!Top /\ D!Place' = D!Place /\ D!Waiting' = D!Waiting
  BY <1>1, FramesStill
<1>4. last = D!Place /\ solid.last_offer_depth = D!Depth
  BY <1>1 DEF DInv, Offered
<1>5. \A k \in 1 .. D!Depth : stack[k].id = D!Top.id => k = D!Depth
  BY <1>2 DEF Framed
<1>6. Frames' /\ Came'
  BY <1>1 DEF DInv, Frames, Came
<1>7. solid'.last_offer_depth = D!Depth
  BY <1>4 DEF D!GoOn, D!Quit, D!LetFall, D!Fail, D!Exit, DInv, Kinds, Fields
<1>8. Offered'
  <2>1. last.id \notin D!Waiting
    BY <1>2, <1>4, <1>5 DEF D!Waiting, D!Place
  <2> QED BY <1>1, <1>2, <1>3, <1>4, <1>5, <1>7, <2>1 DEF Offered, D!Place
<1>9. CASE /\ UNCHANGED asked /\ (D!Quit \/ D!LetFall \/ D!Fail \/ D!Exit)
           /\ UNCHANGED solid \/ (doing' = "exit" /\ solid' = [solid EXCEPT !.quitting = TRUE])
  <2>1. /\ solid' = [f \in Fields |-> solid'[f]] /\ solid'.mode = solid.mode /\ solid'.depth = solid.depth
        /\ solid'.line = solid.line
    BY <1>9 DEF DInv, Kinds, Fields
  <2>2. Kinds'
    BY <1>1, <1>2, <1>7, <1>9, <2>1 DEF DInv, Kinds
  <2>3. Ordered'
    BY <1>1, <1>3, <1>9, <2>1 DEF DInv, Ordered
  <2>4. Passed'
    <3>1. CASE doing' \in Going
      <4>1. UNCHANGED solid /\ doing \in Going
        BY <1>1, <1>9, <3>1 DEF Going, D!Quit, D!LetFall, D!Fail, D!Exit
      <4> QED BY <1>1, <1>3, <1>9, <4>1 DEF DInv, Passed
    <3> QED BY <3>1 DEF Passed
  <2> QED BY <1>6, <1>8, <2>2, <2>3, <2>4 DEF DInv
<1>10. ASSUME NEW mode \in D!Modes, D!GoOn(mode) PROVE DInv'
  <2>1. /\ solid' = [f \in Fields |-> solid'[f]] /\ solid'.mode = mode
        /\ mode \in {"next", "finish"} => solid'.depth = D!Depth
        /\ solid'.depth \in Int
        /\ mode = "next" => solid'.line = D!Top.line
    <3> DEFINE d == IF mode \in {"next", "finish"} THEN D!Depth ELSE solid.depth
               n == IF mode = "next" THEN D!Top.line ELSE solid.line
    <3>1. solid' = [solid EXCEPT !.mode = mode, !.depth = d, !.line = n]
      BY <1>10 DEF D!GoOn
    <3>2. d \in Int /\ (mode \in {"next", "finish"} => d = D!Depth) /\ (mode = "next" => n = D!Top.line)
      BY <1>2 DEF DInv, Kinds
    <3>3. solid = [f \in Fields |-> solid[f]]
      BY DEF DInv, Kinds
    <3> HIDE DEF d, n
    <3>4. solid' = [f \in Fields |-> solid'[f]] /\ solid'.mode = mode /\ solid'.depth = d /\ solid'.line = n
      BY <3>1, <3>3 DEF Fields
    <3> QED BY <3>2, <3>4
  <2>2. asked'.id = D!Top.id /\ asked'.line = D!Top.line /\ asked'.depth = D!Depth
    BY <1>10 DEF D!GoOn
  <2>3. Kinds'
    BY <1>1, <1>2, <1>7, <2>1, <2>2 DEF DInv, Kinds
  <2>4. Ordered'
    BY <1>1, <1>3, <1>5, <2>1, <2>2 DEF Ordered
  <2>5. Passed'
    BY <1>1, <1>2, <1>4, <1>7, <2>2 DEF Passed, D!Place
  <2> QED BY <1>6, <1>8, <2>3, <2>4, <2>5 DEF DInv
<1> QED BY <1>9, <1>10 DEF D!Quit, D!LetFall, D!Fail, D!Exit

LEMMA KeepsBreaks == ASSUME DInv, NEW l, D!Break(l) \/ D!Delete(l) PROVE DInv'
<1>1. UNCHANGED <<stack, entered, last, solid, doing, asked, came>>
  BY DEF D!Break, D!Delete
<1> QED BY <1>1, FramesStill DEF DInv, Frames, Kinds, Offered, Ordered, Came, Passed, D!Depth

LEMMA DStarts == D!Init => DInv
<1> SUFFICES ASSUME D!Init PROVE DInv
  OBVIOUS
<1>1. PICK l \in Line : stack = <<[id |-> 1, by |-> "run", line |-> l, after |-> "answer"]>>
  BY DEF D!Init
<1>2. /\ entered = 1 /\ doing = "offer" /\ came = "new" /\ last = [line |-> -1, id |-> 0]
      /\ asked = [line |-> 0, id |-> 0, depth |-> 0]
      /\ solid = [mode |-> "step", depth |-> 0, line |-> 0, last_offer_depth |-> -1, quitting |-> FALSE]
  BY DEF D!Init
<1> DEFINE f == [id |-> 1, by |-> "run", line |-> l, after |-> "answer"]
<1>3. f.id = 1 /\ f.by = "run" /\ f.after = "answer"
  OBVIOUS
<1> HIDE DEF f
<1>4. stack \in Seq({f}) /\ Len(stack) = 1 /\ stack[1] = f /\ stack # <<>>
  BY <1>1 DEF f
<1>5. D!Depth = 1 /\ D!Top = f /\ D!Waiting = {} /\ Row(stack)
  BY <1>4 DEF D!Depth, D!Top, D!Last, D!Waiting, Row
<1>6. Frames
  BY <1>2, <1>3, <1>4, <1>5 DEF Frames, Framed
<1>7. Kinds
  BY <1>2 DEF Kinds, Fields, D!Modes
<1>8. Offered /\ Ordered /\ Came /\ Passed
  BY <1>2, <1>3, <1>4, <1>5 DEF Offered, Ordered, Came, Passed, D!Place
<1> QED BY <1>6, <1>7, <1>8 DEF DInv

LEMMA DSteps == ASSUME DInv, [D!Next]_(D!vars) PROVE DInv'
<1>1. CASE D!Offer
  BY <1>1, KeepsOffer
<1>2. CASE (\E mode \in D!Modes : D!GoOn(mode)) \/ D!Quit \/ D!LetFall \/ D!Fail \/ D!Exit
  BY <1>2, KeepsCommand
<1>3. CASE \E l \in Line : D!Break(l) \/ D!Delete(l)
  BY <1>3, KeepsBreaks
<1>4. CASE D!Return \/ D!Unwind
  BY <1>4, KeepsReturn, KeepsUnwind
<1>5. CASE (\E l \in Line : D!Along(l)) \/ (\E l, into \in Line, by \in D!Entries : D!Call(l, by, into))
  BY <1>5, KeepsAlong, KeepsCall
<1>6. CASE UNCHANGED D!vars
  BY <1>6, KeepsStill
<1> QED BY <1>1, <1>2, <1>3, <1>4, <1>5, <1>6 DEF D!Next, D!Program

\* Every reachable state has the invariant above: frames have ids of their own, and
\* what solid remembers of depths is where the frames it remembers are.
THEOREM DebuggerInv == D!Spec => []DInv
BY DStarts, DSteps, PTL DEF D!Spec

\* solid stops where it was asked to and nowhere else, whatever the program's calls,
\* loops, handlers and cleanups do with its frames.
THEOREM DebuggerStops == D!Spec => StopsWhereAsked
<1>1. ASSUME DInv, [D!Next]_(D!vars)
      PROVE  [doing = "offer" => /\ (doing' = "prompt" => D!CalledFor)
                                 /\ (doing' = "execute" => D!NothingPassed)]_(D!vars)
  <2>1. CASE D!Offer
    BY <1>1, <2>1, NothingIsPassed, StopIsCalledFor
  <2>2. CASE ~D!Offer /\ D!Next
    <3>1. doing # "offer" \/ UNCHANGED doing
      BY <2>2 DEF D!Next, D!Program, D!GoOn, D!Quit, D!LetFall, D!Fail, D!Exit, D!Return, D!Unwind, D!Along, D!Call, D!Break, D!Delete
    <3> QED BY <3>1
  <2> QED BY <1>1, <2>1, <2>2
<1> QED BY <1>1, DebuggerInv, PTL DEF D!Spec, StopsWhereAsked, D!StopsWhereAsked

-----------------------------------------------------------------------------
(* Standard input                                                          *)

Reading == [by : {"none", "readKey", "readLine", "readUpTo", "prompt"}, line : Seq(Nat),
            done : BOOLEAN]

ReadTypes ==
  /\ terminal \in BOOLEAN /\ hungup \in BOOLEAN /\ raw \in BOOLEAN
  /\ typed \in Nat /\ newlines \subseteq 1 .. typed
  /\ driver \in Seq(Nat) /\ window \in Seq(Nat) /\ taken \in Seq(Nat)
  /\ reader \in Reading

\* The line so far is of bytes that were typed, and a newline ends it.
LineOpen ==
  /\ T!Range(reader.line) \subseteq 1 .. typed
  /\ reader.by \in T!Lines /\ ~reader.done =>
       \A i \in 1 .. Len(reader.line) : reader.line[i] \notin newlines

ReadInv == ReadTypes /\ LineOpen /\ InputShared

-----------------------------------------------------------------------------
(* Sequences in order                                                      *)

Ascends(s) == \A i, j \in DOMAIN s : i < j => s[i] < s[j]
Below(s, t) == \A x \in T!Range(s), y \in T!Range(t) : x < y

\* InOrder of any three sequences.
InLine(a, b, c, l, n) ==
  LET all == a \o b \o c IN
  Ascends(all) /\ T!Range(all) \cap l = {} /\ T!Range(all) \cup l = 1 .. n

\* What is in a sequence.
LEMMA InSequence ==
  ASSUME NEW s
  PROVE  T!Range(s) = Range(s)
BY DEF T!Range, Range

LEMMA InOrderIs ==
  /\ T!InOrder <=> InLine(taken, window, driver, lost, typed)
  /\ T!InOrder' <=> InLine(taken', window', driver', lost', typed')
BY DEF T!InOrder, InLine, Ascends

LEMMA RangeIs ==
  ASSUME NEW s \in Seq(Nat)
  PROVE  /\ DOMAIN s = 1 .. Len(s) /\ Len(s) \in Nat
         /\ \A i \in 1 .. Len(s) : s[i] \in T!Range(s) /\ s[i] \in Nat
         /\ \A x \in T!Range(s) : x \in Nat /\ \E i \in 1 .. Len(s) : x = s[i]
BY LenProperties, RangeEquality, InSequence, ElementOfSeq

\* One after the other.
LEMMA AscendsConcat ==
  ASSUME NEW s \in Seq(Nat), NEW t \in Seq(Nat)
  PROVE  Ascends(s \o t) <=> Ascends(s) /\ Ascends(t) /\ Below(s, t)
<1> DEFINE u == s \o t
           m == Len(s)
           n == Len(t)
<1>1. /\ u \in Seq(Nat) /\ Len(u) = m + n /\ m \in Nat /\ n \in Nat
      /\ \A i \in 1 .. m + n : u[i] = IF i <= m THEN s[i] ELSE t[i - m]
  BY ConcatProperties, LenProperties
<1>2. DOMAIN u = 1 .. m + n /\ DOMAIN s = 1 .. m /\ DOMAIN t = 1 .. n
  BY <1>1, RangeIs
<1>3. /\ \A i \in 1 .. m : s[i] \in T!Range(s) /\ s[i] \in Nat
      /\ \A i \in 1 .. n : t[i] \in T!Range(t) /\ t[i] \in Nat
      /\ \A x \in T!Range(s) : \E i \in 1 .. m : x = s[i]
      /\ \A x \in T!Range(t) : \E i \in 1 .. n : x = t[i]
  BY RangeIs
<1> HIDE DEF u, m, n
<1>4. \A i \in 1 .. m : i \in 1 .. m + n /\ u[i] = s[i]
  BY <1>1
<1>5. \A i \in 1 .. n : m + i \in 1 .. m + n /\ u[m + i] = t[i]
  BY <1>1
<1>6. ASSUME Ascends(u) PROVE Ascends(s) /\ Ascends(t) /\ Below(s, t)
  <2>1. Ascends(s)
    BY <1>2, <1>4, <1>6 DEF Ascends
  <2>2. ASSUME NEW i \in 1 .. n, NEW j \in 1 .. n, i < j PROVE t[i] < t[j]
    <3>1. m + i < m + j
      BY <1>1, <2>2
    <3> QED BY <1>2, <1>5, <1>6, <3>1 DEF Ascends
  <2>3. ASSUME NEW i \in 1 .. m, NEW j \in 1 .. n PROVE s[i] < t[j]
    <3>1. i < m + j
      BY <1>1
    <3> QED BY <1>2, <1>4, <1>5, <1>6, <3>1 DEF Ascends
  <2>4. Below(s, t)
    BY <1>3, <2>3 DEF Below
  <2> QED BY <1>2, <2>1, <2>2, <2>4 DEF Ascends
<1>7. ASSUME NEW k \in 1 .. m + n
      PROVE  \/ k <= m /\ k \in 1 .. m /\ u[k] = s[k]
             \/ k > m /\ k - m \in 1 .. n /\ u[k] = t[k - m]
  <2>1. u[k] = IF k <= m THEN s[k] ELSE t[k - m]
    BY <1>1
  <2> QED BY <1>1, <2>1
<1>8. ASSUME Ascends(s), Ascends(t), Below(s, t) PROVE Ascends(u)
  <2> SUFFICES ASSUME NEW i \in 1 .. m + n, NEW j \in 1 .. m + n, i < j PROVE u[i] < u[j]
    BY <1>2 DEF Ascends
  <2>1. CASE j <= m
    <3>1. i \in 1 .. m /\ j \in 1 .. m /\ u[i] = s[i] /\ u[j] = s[j]
      BY <1>1, <1>4, <2>1
    <3> QED BY <1>2, <1>8, <3>1 DEF Ascends
  <2>2. CASE i <= m /\ j > m
    <3>1. i \in 1 .. m /\ j - m \in 1 .. n /\ u[i] = s[i] /\ u[j] = t[j - m]
      BY <1>1, <1>7, <2>2
    <3> QED BY <1>3, <1>8, <3>1 DEF Below
  <2>3. CASE i > m
    <3>1. i - m < j - m /\ j > m
      BY <1>1, <2>3
    <3>2. i - m \in 1 .. n /\ u[i] = t[i - m]
      BY <1>1, <1>7, <2>3
    <3>3. j - m \in 1 .. n /\ u[j] = t[j - m]
      BY <1>1, <1>7, <3>1
    <3> DEFINE p == i - m
               q == j - m
    <3>4. p \in 1 .. n /\ q \in 1 .. n /\ p < q /\ u[i] = t[p] /\ u[j] = t[q]
      BY <3>1, <3>2, <3>3
    <3> HIDE DEF p, q
    <3> QED BY <1>2, <1>8, <3>4 DEF Ascends
  <2> QED BY <1>1, <2>1, <2>2, <2>3
<1> QED BY <1>6, <1>8 DEF u

\* Ordered, of each and of each after those before it.
Parts(a, b, c, l, n) ==
  /\ Ascends(a) /\ Ascends(b) /\ Ascends(c)
  /\ Below(a, b) /\ Below(a, c) /\ Below(b, c)
  /\ (T!Range(a) \cup T!Range(b) \cup T!Range(c)) \cap l = {}
  /\ T!Range(a) \cup T!Range(b) \cup T!Range(c) \cup l = 1 .. n

LEMMA OrderedParts ==
  ASSUME NEW a \in Seq(Nat), NEW b \in Seq(Nat), NEW c \in Seq(Nat), NEW l, NEW n
  PROVE  InLine(a, b, c, l, n) <=> Parts(a, b, c, l, n)
<1> DEFINE ab == a \o b
<1>1. ab \in Seq(Nat) /\ T!Range(ab) = T!Range(a) \cup T!Range(b)
  BY ConcatProperties, RangeConcatenation, InSequence
<1>2. Ascends(ab) <=> Ascends(a) /\ Ascends(b) /\ Below(a, b)
  BY AscendsConcat
<1> HIDE DEF ab
<1>3. T!Range(ab \o c) = T!Range(a) \cup T!Range(b) \cup T!Range(c)
  BY <1>1, RangeConcatenation, InSequence
<1>4. Ascends(ab \o c) <=> Ascends(ab) /\ Ascends(c) /\ Below(ab, c)
  BY <1>1, AscendsConcat
<1>5. Below(ab, c) <=> Below(a, c) /\ Below(b, c)
  BY <1>1 DEF Below
<1>6. InLine(a, b, c, l, n) <=>
        Ascends(ab \o c) /\ T!Range(ab \o c) \cap l = {} /\ T!Range(ab \o c) \cup l = 1 .. n
  BY DEF InLine, ab
<1> QED BY <1>2, <1>3, <1>4, <1>5, <1>6 DEF Parts

LEMMA NoBytes == Ascends(<<>>) /\ T!Range(<<>>) = {} /\ \A s : Below(s, <<>>) /\ Below(<<>>, s)
BY DEF Ascends, T!Range, Below

\* A byte more is typed.
LEMMA OrderedTyped ==
  ASSUME NEW a \in Seq(Nat), NEW b \in Seq(Nat), NEW c \in Seq(Nat), NEW l, NEW n \in Nat,
         InLine(a, b, c, l, n)
  PROVE  InLine(a, b, Append(c, n + 1), l, n + 1)
<1> DEFINE x == n + 1
           d == Append(c, x)
           e == <<x>>
<1>1. e \in Seq(Nat) /\ d = c \o e /\ d \in Seq(Nat) /\ T!Range(e) = {x} /\ Ascends(e)
  <2>1. e \in Seq(Nat) /\ d = c \o e /\ d \in Seq(Nat)
    BY AppendIsConcat, AppendProperties
  <2>2. T!Range(e) = {x}
    BY DEF T!Range
  <2>3. Ascends(e)
    BY DEF Ascends
  <2> QED BY <2>1, <2>2, <2>3
<1> HIDE DEF d, e
<1>2. T!Range(d) = T!Range(c) \cup {x}
  BY <1>1, RangeConcatenation, InSequence
<1>3. /\ Ascends(a) /\ Ascends(b) /\ Ascends(c)
      /\ Below(a, b) /\ Below(a, c) /\ Below(b, c)
      /\ (T!Range(a) \cup T!Range(b) \cup T!Range(c)) \cap l = {}
      /\ T!Range(a) \cup T!Range(b) \cup T!Range(c) \cup l = 1 .. n
  BY OrderedParts DEF Parts
<1>4. 1 .. x = (1 .. n) \cup {x} /\ x \notin 1 .. n /\ \A y \in 1 .. n : y < x
  OBVIOUS
<1> HIDE DEF x
<1>5. \A y \in T!Range(a) \cup T!Range(b) \cup T!Range(c) : y < x
  BY <1>3, <1>4
<1>6. Below(c, e) /\ Below(a, d) /\ Below(b, d)
  BY <1>1, <1>2, <1>3, <1>5 DEF Below
<1>7. Ascends(d)
  BY <1>1, <1>3, <1>6, AscendsConcat
<1>8. /\ (T!Range(a) \cup T!Range(b) \cup T!Range(d)) \cap l = {}
      /\ T!Range(a) \cup T!Range(b) \cup T!Range(d) \cup l = 1 .. x
  BY <1>2, <1>3, <1>4
<1>9. Parts(a, b, d, l, x)
  BY <1>3, <1>6, <1>7, <1>8 DEF Parts
<1>10. InLine(a, b, d, l, x)
  BY <1>1, <1>9, OrderedParts
<1> QED BY <1>10 DEF d, x

\* Bytes are lost that were held, or that the terminal had.
LEMMA OrderedForgotten ==
  ASSUME NEW a \in Seq(Nat), NEW b \in Seq(Nat), NEW c \in Seq(Nat), NEW l, NEW n,
         InLine(a, b, c, l, n)
  PROVE  /\ InLine(a, <<>>, c, l \cup T!Range(b), n)
         /\ InLine(a, b, <<>>, l \cup T!Range(c), n)
<1>1. /\ Ascends(a) /\ Ascends(b) /\ Ascends(c)
      /\ Below(a, b) /\ Below(a, c) /\ Below(b, c)
      /\ (T!Range(a) \cup T!Range(b) \cup T!Range(c)) \cap l = {}
      /\ T!Range(a) \cup T!Range(b) \cup T!Range(c) \cup l = 1 .. n
  BY OrderedParts DEF Parts
<1>2. T!Range(a) \subseteq Nat /\ T!Range(b) \subseteq Nat /\ T!Range(c) \subseteq Nat
  BY RangeOfSeq, InSequence
<1>3. T!Range(a) \cap T!Range(b) = {} /\ T!Range(a) \cap T!Range(c) = {} /\ T!Range(b) \cap T!Range(c) = {}
  BY <1>1, <1>2 DEF Below
<1>4. <<>> \in Seq(Nat) /\ Ascends(<<>>) /\ T!Range(<<>>) = {}
      /\ \A s : Below(s, <<>>) /\ Below(<<>>, s)
  BY NoBytes
<1> DEFINE e == <<>>
<1> HIDE DEF e
<1>5. e \in Seq(Nat) /\ Ascends(e) /\ T!Range(e) = {} /\ \A s : Below(s, e) /\ Below(e, s)
  BY <1>4 DEF e
<1>6. InLine(a, e, c, l \cup T!Range(b), n)
  <2>1. /\ (T!Range(a) \cup T!Range(e) \cup T!Range(c)) \cap (l \cup T!Range(b)) = {}
        /\ T!Range(a) \cup T!Range(e) \cup T!Range(c) \cup (l \cup T!Range(b)) = 1 .. n
    BY <1>1, <1>3, <1>5
  <2>2. Parts(a, e, c, l \cup T!Range(b), n)
    BY <1>1, <1>5, <2>1 DEF Parts
  <2> QED BY <1>5, <2>2, OrderedParts
<1>7. InLine(a, b, e, l \cup T!Range(c), n)
  <2>1. /\ (T!Range(a) \cup T!Range(b) \cup T!Range(e)) \cap (l \cup T!Range(c)) = {}
        /\ T!Range(a) \cup T!Range(b) \cup T!Range(e) \cup (l \cup T!Range(c)) = 1 .. n
    BY <1>1, <1>3, <1>5
  <2>2. Parts(a, b, e, l \cup T!Range(c), n)
    BY <1>1, <1>5, <2>1 DEF Parts
  <2> QED BY <1>5, <2>2, OrderedParts
<1> QED BY <1>6, <1>7 DEF e

-----------------------------------------------------------------------------
(* Pieces of what is there                                                 *)

LEMMA Cut ==
  ASSUME NEW s \in Seq(Nat), NEW k \in 0 .. Len(s)
  PROVE  /\ SubSeq(s, 1, k) \in Seq(Nat) /\ Len(SubSeq(s, 1, k)) = k
         /\ \A i \in 1 .. k : SubSeq(s, 1, k)[i] = s[i]
         /\ SubSeq(s, k + 1, Len(s)) \in Seq(Nat)
         /\ SubSeq(s, 1, k) \o SubSeq(s, k + 1, Len(s)) = s
         /\ T!Range(SubSeq(s, 1, k)) \subseteq T!Range(s)
<1>1. Len(s) \in Nat /\ k \in Nat /\ k <= Len(s) /\ \A i \in 1 .. Len(s) : s[i] \in Nat
  BY RangeIs
<1>2. 1 \in Int /\ k \in Int /\ k + 1 \in Int /\ Len(s) \in Int
  BY <1>1
<1> DEFINE t == SubSeq(s, 1, k)
           u == SubSeq(s, k + 1, Len(s))
<1>3. /\ t \in Seq(Nat) /\ Len(t) = IF 1 <= k THEN k - 1 + 1 ELSE 0
      /\ \A i \in 1 .. k - 1 + 1 : t[i] = s[1 + i - 1]
  <2>1. \A i \in 1 .. k : s[i] \in Nat
    BY <1>1
  <2> QED BY <1>2, <2>1, SubSeqProperties
<1>4. u \in Seq(Nat)
  <2>1. \A i \in k + 1 .. Len(s) : s[i] \in Nat
    BY <1>1
  <2> QED BY <1>2, <2>1, SubSeqProperties
<1>5. t \o u = s
  <2>1. SubSeq(s, 1, Len(s)) = s
    BY SubSeqFull
  <2>2. 1 \in 1 .. Len(s) + 1 /\ k \in 1 - 1 .. Len(s) /\ Len(s) \in k .. Len(s)
    BY <1>1
  <2> QED BY <2>1, <2>2, ConcatAdjacentSubSeq
<1> HIDE DEF t, u
<1>6. Len(t) = k /\ \A i \in 1 .. k : t[i] = s[i]
  BY <1>1, <1>3
<1>7. T!Range(s) = T!Range(t) \cup T!Range(u)
  BY <1>3, <1>4, <1>5, RangeConcatenation, InSequence
<1> QED BY <1>3, <1>4, <1>5, <1>6, <1>7 DEF t, u

\* One after another, byte by byte.
LEMMA Joined ==
  ASSUME NEW s \in Seq(Nat), NEW t \in Seq(Nat)
  PROVE  /\ s \o t \in Seq(Nat) /\ Len(s \o t) = Len(s) + Len(t)
         /\ \A i \in 1 .. Len(s) + Len(t) :
              (s \o t)[i] = IF i <= Len(s) THEN s[i] ELSE t[i - Len(s)]
         /\ T!Range(s \o t) = T!Range(s) \cup T!Range(t)
<1>1. /\ s \o t \in Seq(Nat) /\ Len(s \o t) = Len(s) + Len(t)
      /\ \A i \in 1 .. Len(s) + Len(t) :
           (s \o t)[i] = IF i <= Len(s) THEN s[i] ELSE t[i - Len(s)]
  BY ConcatProperties
<1>2. T!Range(s \o t) = T!Range(s) \cup T!Range(t)
  BY RangeConcatenation, InSequence
<1> QED BY <1>1, <1>2

\* A piece moved from the second of three to the first changes nothing of the whole.
LEMMA Rejoined == \A a, p, rest \in Seq(Nat) : (a \o p) \o rest = a \o (p \o rest)
<1> TAKE a, p, rest \in Seq(Nat)
<1> QED BY ConcatAssociative, Z3

\* Through the first newline: a beginning that has none but at its end.
LEMMA Through ==
  ASSUME NEW s \in Seq(Nat)
  PROVE  \E k \in 0 .. Len(s) :
           /\ T!ThroughNewline(s) = SubSeq(s, 1, k)
           /\ s # <<>> => k >= 1
           /\ \A i \in 1 .. k - 1 : s[i] \notin newlines
<1> DEFINE ends == {i \in DOMAIN s : s[i] \in newlines}
<1>1. DOMAIN s = 1 .. Len(s) /\ Len(s) \in Nat
  BY RangeIs
<1>2. CASE ends = {}
  <2>1. T!ThroughNewline(s) = s /\ SubSeq(s, 1, Len(s)) = s
    BY <1>2, SubSeqFull DEF T!ThroughNewline
  <2>2. \A i \in 1 .. Len(s) - 1 : s[i] \notin newlines
    BY <1>1, <1>2
  <2>3. s # <<>> => Len(s) >= 1
    BY EmptySeq
  <2> DEFINE k == Len(s)
  <2>4. /\ k \in 0 .. Len(s) /\ T!ThroughNewline(s) = SubSeq(s, 1, k)
        /\ s # <<>> => k >= 1
        /\ \A i \in 1 .. k - 1 : s[i] \notin newlines
    BY <1>1, <2>1, <2>2, <2>3
  <2> HIDE DEF k
  <2> QED BY <2>4
<1>3. CASE ends # {}
  <2> DEFINE k == CHOOSE i \in ends : \A j \in ends : i <= j
  <2>1. k \in ends /\ \A j \in ends : k <= j
    <3>1. ends \in SUBSET Nat
      BY <1>1
    <3>2. \E x \in ends : \A y \in ends : x <= y
      BY <1>3, <3>1, Least
    <3> QED BY <3>2
  <2>2. T!ThroughNewline(s) = SubSeq(s, 1, k)
    BY <1>3 DEF T!ThroughNewline
  <2> HIDE DEF k
  <2>3. k \in 1 .. Len(s)
    BY <1>1, <2>1
  <2>4. \A i \in 1 .. k - 1 : s[i] \notin newlines
    BY <1>1, <2>1, <2>3
  <2> QED BY <1>1, <2>2, <2>3, <2>4
<1> QED BY <1>2, <1>3

\* What a read gives out is the beginning of what the terminal has.
LEMMA ReadableIs ==
  ASSUME T!TerminalAssumption, driver \in Seq(Nat), NEW mode
  PROVE  \E k \in 0 .. Len(driver) : T!Readable(mode) = SubSeq(driver, 1, k)
<1> DEFINE there == IF terminal /\ ~mode /\ (\A i \in DOMAIN driver : driver[i] \notin newlines) /\ ~hungup
                    THEN <<>>
                    ELSE IF terminal /\ ~mode THEN T!ThroughNewline(driver) ELSE driver
           n == IF Len(there) < Capacity THEN Len(there) ELSE Capacity
<1>1. Len(driver) \in Nat
  BY RangeIs
<1>2. PICK k \in 0 .. Len(driver) : there = SubSeq(driver, 1, k)
  <2>1. CASE there = <<>>
    <3>1. SubSeq(driver, 1, 0) = <<>>
      BY SubSeqEmpty
    <3> HIDE DEF there
    <3>2. there = SubSeq(driver, 1, 0)
      BY <2>1, <3>1, Zenon
    <3>3. 0 \in 0 .. Len(driver)
      BY <1>1
    <3> QED BY <3>2, <3>3, Zenon
  <2>2. CASE there = T!ThroughNewline(driver)
    BY <2>2, Through
  <2>3. CASE there = driver
    BY <1>1, <2>3, SubSeqFull
  <2> QED BY <2>1, <2>2, <2>3
<1>3. T!Readable(mode) = SubSeq(there, 1, n)
  BY DEF T!Readable
<1> HIDE DEF there
<1>4. there \in Seq(Nat) /\ Len(there) = k /\ \A i \in 1 .. k : there[i] = driver[i]
  BY <1>2, Cut
<1>5. n \in 0 .. k /\ n \in 0 .. Len(driver) /\ n \in 0 .. Len(there)
  BY <1>1, <1>4 DEF T!TerminalAssumption
<1> HIDE DEF n
<1>6. SubSeq(there, 1, n) = SubSeq(driver, 1, n)
  <2> DEFINE p == SubSeq(there, 1, n)
             q == SubSeq(driver, 1, n)
  <2>1. p \in Seq(Nat) /\ Len(p) = n /\ \A i \in 1 .. n : p[i] = there[i]
    BY <1>4, <1>5, Cut
  <2>2. q \in Seq(Nat) /\ Len(q) = n /\ \A i \in 1 .. n : q[i] = driver[i]
    BY <1>5, Cut
  <2> HIDE DEF p, q
  <2>3. \A i \in 1 .. n : p[i] = q[i]
    BY <1>1, <1>4, <1>5, <2>1, <2>2
  <2>4. p = q
    BY <2>1, <2>2, <2>3, SeqEqual
  <2> QED BY <2>4 DEF p, q
<1> QED BY <1>3, <1>5, <1>6

LEMMA LastAfter ==
  ASSUME NEW s \in Seq(Nat), Len(s) >= 1
  PROVE  T!Last(<<0>> \o s) = s[Len(s)]
<1> DEFINE z == <<0>>
           t == z \o s
           n == Len(s)
<1>1. n \in Nat
  BY RangeIs
<1>2. z \in Seq(Nat) /\ Len(z) = 1
  OBVIOUS
<1> HIDE DEF z
<1>3. /\ Len(t) = 1 + n
      /\ \A i \in 1 .. 1 + n : t[i] = IF i <= 1 THEN z[i] ELSE s[i - 1]
  <2>1. /\ Len(t) = Len(z) + Len(s)
        /\ \A i \in 1 .. Len(z) + Len(s) : t[i] = IF i <= Len(z) THEN z[i] ELSE s[i - Len(z)]
    BY <1>2, Joined, Zenon
  <2> HIDE DEF t
  <2> QED BY <1>2, <2>1
<1>4. T!Last(t) = t[Len(t)]
  BY DEF T!Last
<1> HIDE DEF t, n
<1>5. n \in Nat /\ n >= 1
  BY <1>1 DEF n
<1>6. t[1 + n] = s[n]
  <2> DEFINE final == 1 + n
  <2>1. final \in 1 .. 1 + n /\ ~(final <= 1) /\ final - 1 = n
    BY <1>5
  <2>2. t[final] = IF final <= 1 THEN z[final] ELSE s[final - 1]
    BY <1>3, <2>1, Zenon
  <2> HIDE DEF final
  <2>3. t[final] = s[n]
    BY <2>1, <2>2, Zenon
  <2> QED BY <2>3 DEF final
<1> QED BY <1>3, <1>4, <1>6 DEF t, n, z

\* What a reader takes is the beginning of what is held, and of a line no more than
\* its end.
LEMMA PartIs ==
  ASSUME window \in Seq(Nat), window # <<>>
  PROVE  \E k \in 1 .. Len(window) :
           /\ T!Part = SubSeq(window, 1, k)
           /\ reader.by \in T!Lines => \A i \in 1 .. k - 1 : window[i] \notin newlines
<1>1. Len(window) \in Nat /\ Len(window) >= 1
  BY EmptySeq
<1>2. CASE T!Part = <<Head(window)>>
  <2> DEFINE p == <<Head(window)>>
             q == SubSeq(window, 1, 1)
  <2>1. q \in Seq(Nat) /\ Len(q) = 1 /\ q[1] = window[1]
    BY <1>1, Cut
  <2>2. p \in Seq(Nat) /\ Len(p) = 1 /\ p[1] = window[1]
    <3>1. Head(window) = window[1] /\ window[1] \in Nat
      BY <1>1, RangeIs, HeadTailProperties
    <3> QED BY <3>1
  <2> HIDE DEF p, q
  <2>3. p = q
    BY <2>1, <2>2, SeqEqual
  <2>4. \A i \in 1 .. 1 - 1 : window[i] \notin newlines
    OBVIOUS
  <2> QED BY <1>1, <1>2, <2>3, <2>4 DEF p, q
<1>3. CASE T!Part = T!ThroughNewline(window)
  BY <1>1, <1>3, Through
<1>4. CASE T!Part = window /\ reader.by \notin T!Lines
  BY <1>1, <1>4, SubSeqFull
<1> QED BY <1>2, <1>3, <1>4 DEF T!Part

-----------------------------------------------------------------------------
(* The steps                                                               *)

\* The parts of InputShared, one by one.
LEMMA SharedIs ==
  /\ ReadInv <=> ReadTypes /\ LineOpen /\ T!InOrder /\ T!LinesAlone /\ (raw => terminal /\ reader.by = "prompt")
  /\ ReadInv' <=> ReadTypes' /\ LineOpen' /\ T!InOrder' /\ T!LinesAlone' /\ (raw' => terminal' /\ reader'.by = "prompt")
BY DEF ReadInv, InputShared, T!InputShared

\* A reader that has read nothing.
LEMMA IdleIs == T!Idle \in Reading /\ T!Idle.by = "none" /\ T!Idle.line = <<>> /\ T!Idle.done = FALSE
BY DEF T!Idle, Reading

LEMMA ReadStarts == T!Init => ReadInv
<1> SUFFICES ASSUME T!Init PROVE ReadInv
  OBVIOUS
<1>1. 1 .. 0 = {}
  OBVIOUS
<1>2. ReadTypes
  <2>1. terminal \in BOOLEAN /\ hungup \in BOOLEAN /\ raw \in BOOLEAN
    BY DEF T!Init
  <2>2. typed \in Nat /\ newlines \subseteq 1 .. typed
    BY DEF T!Init
  <2>3. <<>> \in Seq(Nat)
    OBVIOUS
  <2>4. driver \in Seq(Nat) /\ window \in Seq(Nat) /\ taken \in Seq(Nat)
    BY <2>3, Zenon DEF T!Init
  <2>5. reader \in Reading
    BY IdleIs, Zenon DEF T!Init
  <2> QED BY <2>1, <2>2, <2>4, <2>5 DEF ReadTypes
<1>3. LineOpen /\ T!LinesAlone
  BY NoBytes DEF T!Init, LineOpen, T!LinesAlone, T!Idle, T!Lines
<1>4. T!InOrder
  <2>1. Parts(<<>>, <<>>, <<>>, {}, 0)
    BY <1>1, NoBytes DEF Parts
  <2>2. <<>> \in Seq(Nat)
    OBVIOUS
  <2>3. InLine(<<>>, <<>>, <<>>, {}, 0)
    BY <2>1, <2>2, OrderedParts
  <2> QED BY <2>3, InOrderIs DEF T!Init
<1> QED BY <1>2, <1>3, <1>4, SharedIs DEF T!Init

\* Nothing of the reader changes, nor of what there is.
LEMMA TypeHolds ==
  ASSUME ReadInv, NEW newline \in BOOLEAN, T!Type(newline)
  PROVE  ReadInv'
<1>1. ReadTypes /\ LineOpen /\ T!InOrder /\ T!LinesAlone /\ (raw => terminal /\ reader.by = "prompt")
  BY SharedIs
<1>2. /\ typed \in Nat /\ newlines \subseteq 1 .. typed /\ driver \in Seq(Nat)
      /\ taken \in Seq(Nat) /\ window \in Seq(Nat) /\ ~hungup
  BY <1>1 DEF ReadTypes, T!Type
<1>3. /\ typed' = typed + 1 /\ driver' = Append(driver, typed + 1)
      /\ newlines \subseteq newlines' /\ newlines' \subseteq newlines \cup {typed + 1}
      /\ UNCHANGED <<terminal, hungup, window, raw, reader, taken, lost>>
  BY DEF T!Type
<1>4. 1 .. typed \subseteq 1 .. typed + 1 /\ typed + 1 \in Nat /\ typed + 1 \in 1 .. typed + 1
      /\ typed + 1 \notin 1 .. typed
  BY <1>2
<1>5. driver' \in Seq(Nat)
  BY <1>2, <1>3, <1>4, AppendProperties
<1>6. ReadTypes'
  BY <1>1, <1>2, <1>3, <1>4, <1>5 DEF ReadTypes
<1>7. T!InOrder'
  <2>1. InLine(taken, window, driver, lost, typed)
    BY <1>1, InOrderIs
  <2>2. InLine(taken, window, Append(driver, typed + 1), lost, typed + 1)
    BY <1>2, <2>1, OrderedTyped
  <2> QED BY <1>3, <2>2, InOrderIs
<1>8. reader.line \in Seq(Nat) /\ \A i \in 1 .. Len(reader.line) : reader.line[i] \in 1 .. typed
  <2>1. reader.line \in Seq(Nat)
    BY <1>1 DEF ReadTypes, Reading
  <2> QED BY <1>1, <2>1, RangeIs DEF LineOpen
<1>9. \A i \in 1 .. Len(reader.line) : reader.line[i] \notin newlines => reader.line[i] \notin newlines'
  BY <1>3, <1>4, <1>8
<1>10. LineOpen'
  BY <1>1, <1>3, <1>4, <1>9 DEF LineOpen
<1>11. T!LinesAlone'
  <2> SUFFICES ASSUME reader.done, reader.by \in T!Lines
               PROVE  /\ \A i \in 1 .. Len(reader.line) - 1 : reader.line[i] \notin newlines'
                      /\ T!Last(<<0>> \o reader.line) \in newlines'
    BY <1>3 DEF T!LinesAlone
  <2>1. \A i \in 1 .. Len(reader.line) - 1 : i \in 1 .. Len(reader.line)
    BY <1>8, RangeIs
  <2> QED BY <1>1, <1>2, <1>3, <1>9, <2>1 DEF T!LinesAlone
<1> QED BY <1>1, <1>3, <1>6, <1>7, <1>10, <1>11, SharedIs

\* Nothing is taken.
LEMMA OutsideHolds ==
  ASSUME ReadInv, T!HangUp \/ T!NewMachine
  PROVE  ReadInv'
<1>1. ReadTypes /\ LineOpen /\ T!InOrder /\ T!LinesAlone /\ (raw => terminal /\ reader.by = "prompt")
  BY SharedIs
<1>2. taken \in Seq(Nat) /\ window \in Seq(Nat) /\ driver \in Seq(Nat)
  BY <1>1 DEF ReadTypes
<1>3. CASE T!HangUp
  <2>1. ReadTypes' /\ LineOpen' /\ T!LinesAlone'
    BY <1>1, <1>3 DEF T!HangUp, ReadTypes, LineOpen, T!LinesAlone
  <2>2. T!InOrder'
    BY <1>1, <1>3, InOrderIs DEF T!HangUp
  <2> QED BY <1>1, <1>3, <2>1, <2>2, SharedIs DEF T!HangUp
<1>4. CASE T!NewMachine
  <2>1. ReadTypes' /\ LineOpen' /\ T!LinesAlone'
    BY <1>1, <1>4 DEF T!NewMachine, ReadTypes, LineOpen, T!LinesAlone
  <2>2. InLine(taken, <<>>, driver, lost \cup T!Range(window), typed)
    BY <1>1, <1>2, InOrderIs, OrderedForgotten
  <2>3. T!InOrder'
    BY <1>4, <2>2, InOrderIs DEF T!NewMachine
  <2> QED BY <1>1, <1>4, <2>1, <2>3, SharedIs DEF T!NewMachine
<1> QED BY <1>3, <1>4

\* A reader begins with nothing and answers what it has; the prompt flushes.
LEMMA FlushKeeps ==
  ASSUME ReadInv, UNCHANGED <<typed, taken, window>>,
         \/ \E mode : T!Flushed(mode)
         \/ UNCHANGED <<driver, lost, raw>>
  PROVE  T!InOrder' /\ driver' \in Seq(Nat)
<1>1. InLine(taken, window, driver, lost, typed)
  BY SharedIs, InOrderIs
<1>2. taken \in Seq(Nat) /\ window \in Seq(Nat) /\ driver \in Seq(Nat)
  BY DEF ReadInv, ReadTypes
<1>3. CASE \E mode : T!Flushed(mode)
  <2>1. InLine(taken, window, <<>>, lost \cup T!Range(driver), typed)
    BY <1>1, <1>2, OrderedForgotten
  <2>2. driver' = <<>> /\ lost' = lost \cup T!Range(driver)
    BY <1>3 DEF T!Flushed
  <2>3. <<>> \in Seq(Nat)
    OBVIOUS
  <2> QED BY <2>1, <2>2, <2>3, InOrderIs
<1>4. CASE UNCHANGED <<driver, lost, raw>>
  BY <1>1, <1>2, <1>4, InOrderIs
<1> QED BY <1>3, <1>4

LEMMA BeginHolds ==
  ASSUME ReadInv, NEW by \in {"readKey", "readLine", "readUpTo", "prompt"}, T!Begin(by)
  PROVE  ReadInv'
<1>1. ReadTypes /\ (raw => terminal /\ reader.by = "prompt")
  BY SharedIs
<1>2. /\ reader = T!Idle /\ reader' = T!Reader(by)
      /\ UNCHANGED <<terminal, typed, newlines, hungup, window, taken>>
  BY DEF T!Begin
<1>3. T!InOrder' /\ driver' \in Seq(Nat)
  BY <1>2, FlushKeeps DEF T!Begin
<1>4. ~raw
  BY <1>1, <1>2, IdleIs
<1>5. raw' \in BOOLEAN /\ (raw' => terminal /\ by = "prompt")
  <2>1. CASE by = "prompt" /\ terminal
    BY <2>1 DEF T!Begin, T!Flushed
  <2>2. CASE ~(by = "prompt" /\ terminal)
    BY <1>1, <1>4, <2>2 DEF T!Begin, ReadTypes
  <2> QED BY <2>1, <2>2
<1>6. T!Reader(by) \in Reading /\ T!Reader(by).by = by /\ T!Reader(by).line = <<>> /\ ~T!Reader(by).done
  BY IdleIs DEF T!Reader, Reading
<1>7. ReadTypes'
  BY <1>1, <1>2, <1>3, <1>5, <1>6 DEF ReadTypes
<1>8. LineOpen' /\ T!LinesAlone'
  BY <1>2, <1>6, NoBytes DEF LineOpen, T!LinesAlone
<1> QED BY <1>2, <1>3, <1>5, <1>6, <1>7, <1>8, SharedIs

LEMMA AnswerHolds ==
  ASSUME ReadInv, T!Answer
  PROVE  ReadInv'
<1>1. ReadTypes /\ (raw => terminal /\ reader.by = "prompt")
  BY SharedIs
<1>2. reader' = T!Idle /\ UNCHANGED <<terminal, typed, newlines, hungup, window, taken>>
  BY DEF T!Answer
<1>3. T!InOrder' /\ driver' \in Seq(Nat)
  BY <1>2, FlushKeeps DEF T!Answer
<1>4. raw' = FALSE
  BY <1>1 DEF T!Answer, T!Flushed, ReadTypes
<1>5. ReadTypes'
  BY <1>1, <1>2, <1>3, <1>4, IdleIs DEF ReadTypes
<1>6. LineOpen' /\ T!LinesAlone'
  BY <1>2, IdleIs, NoBytes DEF LineOpen, T!LinesAlone
<1> QED BY <1>2, <1>3, <1>4, <1>5, <1>6, SharedIs

\* A fill moves bytes from the terminal to the window, in order; one that finds
\* nothing ends the read, and then nothing is left to come.
LEMMA FetchHolds ==
  ASSUME T!TerminalAssumption, ReadInv, T!Fetch
  PROVE  ReadInv'
<1>1. ReadTypes /\ LineOpen /\ T!InOrder /\ T!LinesAlone /\ (raw => terminal /\ reader.by = "prompt")
  BY SharedIs
<1>2. /\ taken \in Seq(Nat) /\ window \in Seq(Nat) /\ driver \in Seq(Nat) /\ reader \in Reading
      /\ Len(driver) \in Nat
  BY <1>1, RangeIs DEF ReadTypes
<1>3. PICK mode : T!Fill(mode)
  BY DEF T!Fetch
<1>4. PICK k \in 0 .. Len(driver) : T!Readable(mode) = SubSeq(driver, 1, k)
  BY <1>2, ReadableIs
<1>5. /\ window = <<>> /\ window' = SubSeq(driver, 1, k)
      /\ driver' = SubSeq(driver, k + 1, Len(driver)) /\ Len(window') = k
  <2>1. window = <<>> /\ window' = SubSeq(driver, 1, k)
    BY <1>3, <1>4 DEF T!Fill
  <2>2. Len(window') = k
    BY <1>2, <2>1, Cut
  <2>3. driver' = SubSeq(driver, Len(window') + 1, Len(driver))
    BY <1>3 DEF T!Fill
  <2> QED BY <2>1, <2>2, <2>3
<1>6. window' \in Seq(Nat) /\ driver' \in Seq(Nat) /\ window' \o driver' = driver
  BY <1>2, <1>5, Cut
<1>7. UNCHANGED <<terminal, typed, newlines, hungup, raw, taken, lost>>
  BY DEF T!Fetch
<1>8. T!InOrder'
  <2>1. taken' \o window' \o driver' = taken \o driver
    <3> DEFINE p == window'
               rest == driver'
    <3>1. p \in Seq(Nat) /\ rest \in Seq(Nat) /\ p \o rest = driver
      BY <1>6
    <3> HIDE DEF p, rest
    <3>2. (taken \o p) \o rest = taken \o (p \o rest)
      <4>1. taken \in Seq(Nat)
        BY <1>2
      <4> QED BY <3>1, <4>1, Rejoined, Zenon
    <3> QED BY <1>7, <3>1, <3>2, Zenon DEF p, rest
  <2>2. taken \o window \o driver = taken \o driver
    <3>1. taken \o <<>> = taken
      BY <1>2, ConcatEmptySeq
    <3> QED BY <1>5, <3>1, Zenon
  <2>3. taken' \o window' \o driver' = taken \o window \o driver
    BY <2>1, <2>2, Zenon
  <2>4. InLine(taken', window', driver', lost, typed) <=> InLine(taken, window, driver, lost, typed)
    BY <2>3, Zenon DEF InLine
  <2> QED BY <1>1, <1>7, <2>4, InOrderIs
<1>9. /\ reader' \in Reading /\ reader'.by = reader.by /\ reader'.line = reader.line
      /\ reader'.done => window' = <<>>
  BY <1>2 DEF T!Fetch, Reading
<1>10. ReadTypes'
  BY <1>1, <1>6, <1>7, <1>9 DEF ReadTypes
<1>11. LineOpen'
  BY <1>1, <1>7, <1>9 DEF LineOpen, T!Fetch
<1>12. T!LinesAlone'
  <2> SUFFICES ASSUME reader'.done, reader.by \in T!Lines
               PROVE  /\ \A i \in 1 .. Len(reader.line) - 1 : reader.line[i] \notin newlines
                      /\ hungup /\ driver' = <<>>
    BY <1>7, <1>9 DEF T!LinesAlone
  <2>1. ~reader.done
    BY DEF T!Fetch
  <2>2. Len(reader.line) \in Nat
    BY <1>2, RangeIs DEF Reading
  <2>3. \A i \in 1 .. Len(reader.line) - 1 : reader.line[i] \notin newlines
    BY <1>1, <2>1, <2>2 DEF LineOpen
  <2>4. window' = <<>> /\ window' = T!Readable(mode)
    BY <1>3, <1>9 DEF T!Fill
  <2>5. hungup /\ driver = <<>>
    BY <1>3, <2>4 DEF T!Fill
  <2>6. driver' = <<>>
    BY <1>6, <2>4, <2>5, ConcatEmptySeq
  <2> QED BY <2>3, <2>5, <2>6
<1> QED BY <1>1, <1>7, <1>9, <1>10, <1>8, <1>11, <1>12, SharedIs

\* Bytes go from the window to the reader, in order; a line ends with its newline.
LEMMA ConsumeHolds ==
  ASSUME ReadInv, NEW count \in Nat, T!Consume(count)
  PROVE  ReadInv'
<1>1. ReadTypes /\ LineOpen /\ T!InOrder /\ T!LinesAlone /\ (raw => terminal /\ reader.by = "prompt")
  BY SharedIs
<1>2. /\ taken \in Seq(Nat) /\ window \in Seq(Nat) /\ driver \in Seq(Nat) /\ reader \in Reading
      /\ reader.line \in Seq(Nat) /\ Len(window) \in Nat /\ Len(reader.line) \in Nat
  BY <1>1, RangeIs DEF ReadTypes, Reading
<1>3. /\ window # <<>> /\ ~reader.done
      /\ count = Len(T!Part) \/ (reader.by = "readUpTo" /\ count \in 1 .. Len(T!Part))
      /\ taken' = taken \o SubSeq(window, 1, count)
      /\ window' = SubSeq(window, count + 1, Len(window))
      /\ UNCHANGED <<terminal, typed, newlines, driver, hungup, raw, lost>>
  BY DEF T!Consume, T!Take
<1>4. PICK k \in 1 .. Len(window) :
        /\ T!Part = SubSeq(window, 1, k)
        /\ reader.by \in T!Lines => \A i \in 1 .. k - 1 : window[i] \notin newlines
  BY <1>2, <1>3, PartIs
<1>5. T!Part \in Seq(Nat) /\ Len(T!Part) = k /\ \A i \in 1 .. k : T!Part[i] = window[i]
  BY <1>2, <1>4, Cut
<1>6. count \in 1 .. k /\ count \in 0 .. Len(window) /\ (reader.by \in T!Lines => count = k)
  BY <1>2, <1>3, <1>4, <1>5 DEF T!Lines
<1> DEFINE piece == SubSeq(T!Part, 1, count)
           held == SubSeq(window, 1, count)
           line == reader.line \o piece
<1>7. held \in Seq(Nat) /\ window' \in Seq(Nat) /\ held \o window' = window
  BY <1>2, <1>3, <1>6, Cut
<1>8. /\ piece \in Seq(Nat) /\ Len(piece) = count /\ \A i \in 1 .. count : piece[i] = window[i]
      /\ T!Range(piece) \subseteq T!Range(window)
  <2>1. piece \in Seq(Nat) /\ Len(piece) = count /\ \A i \in 1 .. count : piece[i] = T!Part[i]
    BY <1>5, <1>6, Cut
  <2>2. T!Range(piece) \subseteq T!Range(T!Part) /\ T!Range(T!Part) \subseteq T!Range(window)
    <3>1. k \in 0 .. Len(window) /\ count \in 0 .. Len(T!Part)
      BY <1>2, <1>4, <1>5, <1>6
    <3>2. T!Range(SubSeq(window, 1, k)) \subseteq T!Range(window)
      BY <1>2, <3>1, Cut
    <3>3. T!Range(piece) \subseteq T!Range(T!Part)
      BY <1>5, <3>1, Cut
    <3> QED BY <1>4, <3>2, <3>3
  <2>3. T!Range(piece) \subseteq T!Range(window)
    BY <2>2
  <2> HIDE DEF piece
  <2>4. ASSUME NEW i \in 1 .. count PROVE piece[i] = window[i]
    <3>1. i \in 1 .. k
      BY <1>6
    <3>2. piece[i] = T!Part[i] /\ T!Part[i] = window[i]
      BY <1>5, <2>1, <3>1, Zenon
    <3> QED BY <3>2, Zenon
  <2> QED BY <2>1, <2>3, <2>4, Zenon
<1>9. /\ reader'.by = reader.by /\ reader'.line = line
      /\ reader'.done = (reader.by \notin T!Lines \/ T!Part[count] \in newlines)
      /\ reader' = [reader EXCEPT !.line = line, !.done = reader'.done]
  BY <1>2 DEF T!Consume, Reading
<1> HIDE DEF piece
<1>10. taken' \in Seq(Nat) /\ taken' \o window' = taken \o window
  <2>1. taken' = taken \o held
    BY <1>3
  <2> HIDE DEF held
  <2> DEFINE rest == window'
  <2>2. rest \in Seq(Nat) /\ held \o rest = window
    BY <1>7
  <2> HIDE DEF rest
  <2>3. taken \o held \in Seq(Nat) /\ (taken \o held) \o rest = taken \o (held \o rest)
    <3>1. taken \in Seq(Nat) /\ held \in Seq(Nat)
      BY <1>2, <1>7
    <3>2. taken \o held \in Seq(Nat)
      BY <3>1, ConcatProperties
    <3>3. (taken \o held) \o rest = taken \o (held \o rest)
      BY <2>2, <3>1, Rejoined, Zenon
    <3> QED BY <3>2, <3>3, Zenon
  <2> QED BY <2>1, <2>2, <2>3, Zenon DEF rest
<1> HIDE DEF held
<1>11. T!InOrder'
  <2>1. InLine(taken', window', driver, lost, typed) <=> InLine(taken, window, driver, lost, typed)
    BY <1>10, Zenon DEF InLine
  <2> QED BY <1>1, <1>3, <2>1, InOrderIs
<1>12. /\ line \in Seq(Nat) /\ Len(line) = Len(reader.line) + count
       /\ \A i \in 1 .. Len(reader.line) + count :
            line[i] = IF i <= Len(reader.line) THEN reader.line[i] ELSE piece[i - Len(reader.line)]
       /\ T!Range(line) = T!Range(reader.line) \cup T!Range(piece)
  <2> DEFINE before == reader.line
  <2>1. before \in Seq(Nat)
    BY <1>2
  <2> HIDE DEF before
  <2>2. /\ before \o piece \in Seq(Nat) /\ Len(before \o piece) = Len(before) + Len(piece)
        /\ \A i \in 1 .. Len(before) + Len(piece) :
             (before \o piece)[i] = IF i <= Len(before) THEN before[i] ELSE piece[i - Len(before)]
        /\ T!Range(before \o piece) = T!Range(before) \cup T!Range(piece)
    BY <1>8, <2>1, Joined
  <2>3. Len(piece) = count
    BY <1>8
  <2> QED BY <2>2, <2>3, Zenon DEF before
<1> HIDE DEF line
<1>13. ReadTypes'
  <2>1. reader'.done \in BOOLEAN
    BY <1>9
  <2>2. reader' \in Reading
    BY <1>2, <1>9, <1>12, <2>1 DEF Reading
  <2> QED BY <1>1, <1>3, <1>7, <1>10, <2>2 DEF ReadTypes
<1>14. T!Range(line) \subseteq 1 .. typed
  <2>1. T!Range(window) \subseteq 1 .. typed
    BY <1>1, <1>2, InOrderIs, OrderedParts DEF Parts
  <2> QED BY <1>1, <1>8, <1>12, <2>1 DEF LineOpen
<1>15. ASSUME reader.by \in T!Lines, NEW i \in 1 .. Len(line) - 1 PROVE line[i] \notin newlines
  <2>1. i \in 1 .. Len(reader.line) + count
    BY <1>2, <1>6, <1>12
  <2>2. CASE i <= Len(reader.line)
    <3>1. i \in 1 .. Len(reader.line) /\ line[i] = reader.line[i]
      BY <1>12, <2>1, <2>2
    <3> QED BY <1>1, <1>3, <1>15, <3>1 DEF LineOpen
  <2>3. CASE i > Len(reader.line)
    <3> DEFINE j == i - Len(reader.line)
    <3>1. j \in 1 .. count - 1 /\ line[i] = piece[j]
      BY <1>2, <1>6, <1>12, <1>15, <2>1, <2>3
    <3> HIDE DEF j
    <3>2. j \in 1 .. count /\ j \in 1 .. k - 1
      BY <1>6, <1>15, <3>1
    <3> QED BY <1>4, <1>8, <1>15, <3>1, <3>2
  <2> QED BY <1>2, <2>1, <2>2, <2>3
<1>16. ASSUME reader.by \in T!Lines
       PROVE  /\ Len(line) \in Nat /\ Len(line) >= 1 /\ line[Len(line)] = T!Part[count]
  <2> DEFINE n == Len(line)
  <2>1. n = Len(reader.line) + count /\ n \in Nat /\ n >= 1 /\ n > Len(reader.line)
        /\ n - Len(reader.line) = count
    <3> DEFINE m == Len(reader.line)
    <3>1. n = m + count
      BY <1>12
    <3>2. m \in Nat /\ count \in Nat /\ count >= 1
      BY <1>2, <1>6
    <3> HIDE DEF m, n
    <3>3. n \in Nat /\ n >= 1 /\ n > m /\ n - m = count
      BY <3>1, <3>2
    <3> QED BY <3>1, <3>3 DEF m
  <2>2. line[n] = piece[n - Len(reader.line)]
    BY <1>12, <2>1
  <2>3. piece[count] = T!Part[count]
    BY <1>5, <1>6, <1>8
  <2> HIDE DEF n
  <2>4. line[n] = T!Part[count]
    BY <2>1, <2>2, <2>3
  <2> QED BY <2>1, <2>4 DEF n
<1>17. LineOpen'
  <2> SUFFICES ASSUME reader.by \in T!Lines, T!Part[count] \notin newlines, NEW i \in 1 .. Len(line)
               PROVE  line[i] \notin newlines
    BY <1>3, <1>9, <1>14 DEF LineOpen
  <2>1. CASE i = Len(line)
    BY <1>16, <2>1
  <2>2. CASE i # Len(line)
    <3>1. i \in 1 .. Len(line) - 1
      BY <1>16, <2>2
    <3> QED BY <1>15, <3>1
  <2> QED BY <2>1, <2>2
<1>18. T!LinesAlone'
  <2> SUFFICES ASSUME reader'.done, reader.by \in T!Lines
               PROVE  /\ \A i \in 1 .. Len(line) - 1 : line[i] \notin newlines
                      /\ T!Last(<<0>> \o line) \in newlines
    BY <1>3, <1>9 DEF T!LinesAlone
  <2>1. T!Part[count] \in newlines
    BY <1>9
  <2>2. T!Last(<<0>> \o line) = line[Len(line)]
    BY <1>12, <1>16, LastAfter
  <2> QED BY <1>15, <1>16, <2>1, <2>2
<1> QED BY <1>1, <1>3, <1>9, <1>11, <1>13, <1>17, <1>18, SharedIs

LEMMA ReadSteps == T!TerminalAssumption /\ ReadInv /\ [T!Next]_(T!vars) => ReadInv'
<1> SUFFICES ASSUME T!TerminalAssumption, ReadInv, [T!Next]_(T!vars) PROVE ReadInv'
  OBVIOUS
<1>1. CASE UNCHANGED T!vars
  <2>1. ReadTypes' /\ LineOpen' /\ T!LinesAlone'
    BY <1>1 DEF T!vars, ReadInv, InputShared, T!InputShared, ReadTypes, LineOpen, T!LinesAlone
  <2>2. T!InOrder'
    BY <1>1, SharedIs, InOrderIs DEF T!vars
  <2> QED BY <1>1, <2>1, <2>2, SharedIs DEF T!vars
<1>2. CASE \E newline \in BOOLEAN : T!Type(newline)
  BY <1>2, TypeHolds
<1>3. CASE T!HangUp \/ T!NewMachine
  BY <1>3, OutsideHolds
<1>4. CASE T!Fetch
  BY <1>4, FetchHolds
<1>5. CASE T!Answer
  BY <1>5, AnswerHolds
<1>6. CASE \E by \in {"readKey", "readLine", "readUpTo", "prompt"} : T!Begin(by)
  BY <1>6, BeginHolds
<1>7. CASE \E count \in 1 .. Capacity : T!Consume(count)
  <2>1. \A count \in 1 .. Capacity : count \in Nat
    BY DEF T!TerminalAssumption
  <2> QED BY <1>7, <2>1, ConsumeHolds
<1> QED BY <1>1, <1>2, <1>3, <1>4, <1>5, <1>6, <1>7 DEF T!Next

\* However keys, lines and pieces are read, from a terminal or a pipe, by one
\* machine after another and by the prompt: no byte is taken twice, out of order or
\* dropped but by a new machine or the prompt's flushes, a line is answered alone,
\* and the terminal is raw for the prompt only (stdin.c:15).
THEOREM BytesKept == T!Spec => []InputShared
<1> USE ToolsAssumption
<1>1. T!Init => ReadInv
  BY ReadStarts
<1>2. ReadInv /\ [T!Next]_(T!vars) => ReadInv'
  BY ReadSteps
<1>3. ReadInv => InputShared
  BY DEF ReadInv
<1> QED BY <1>1, <1>2, <1>3, PTL DEF T!Spec

================================================================================
