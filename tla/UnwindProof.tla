----------------------------- MODULE UnwindProof -----------------------------
(***************************************************************************)
(* Proofs about Unwind for every limit, nesting of calls and number of     *)
(* failures: the types; where no memory limit is set, what may still be    *)
(* done after a stop, how far a step limit binds, and that what run_frames *)
(* answers is what the flags say; and, limits of memory included, that     *)
(* each failure of a run is in one place at any time and what ensures      *)
(* throw away is never the first thing that went wrong.                    *)
(***************************************************************************)
EXTENDS Unwind, SequenceTheorems, FiniteSetTheorems, TLAPS

\* Flags as the machine has them: a failure that is on its way out was raised,
\* an exit raises the flag, and only a stop leaves a stop's message.
Sound(v) ==
  /\ v \in Machine
  /\ InFlight(v) \subseteq Failures
  /\ v.exiting => v.hadError
  /\ v.message = LimitText => v.stopped

\* A C caller: one that has set a failure aside holds one that was raised.
Holds(c) == c.kind = "aside" => FailureOf(c.saved) \in Failures

\* sol_vm_run is the outermost C caller, and only that.
Stacked == \A k \in 1 .. Len(calls) : Holds(calls[k]) /\ (calls[k].kind = "run" <=> k = 1)

TypeInv == TypeOK /\ Stacked /\ Sound(vm)

\* Between instructions the flag is down, unless the renderer went on over it, and
\* a stop has raised it.
Flags ==
  /\ pc = "dispatch" /\ vm.hadError => Last(calls).kind = "rendering"
  /\ vm.stopped /\ pc # "idle" => vm.hadError
  /\ AnswersAgree

\* The instructions executed past the budget, and those the renderer may yet have
\* asked for: one, when it has sent and the instruction is to come.
Over == executed - Start0
Due == IF pc = "dispatch" THEN 1 ELSE 0

\* The counter and the history of what executed: the counter wraps when it stops
\* the run, and goes on down from there.
Budget ==
  IF vm.stopped
  THEN 0 <= Over /\ Over + Due <= late /\ stepsLeft = Wrap - 1 - Over
  ELSE stepsLeft + executed = Start0

-----------------------------------------------------------------------------
(* The sequence of C callers                                               *)

\* Its last element, and what is left without it.
LEMMA LastCall ==
  ASSUME NEW s \in Seq(Call), s # <<>>
  PROVE  /\ Len(s) \in Nat /\ Len(s) >= 1
         /\ Last(s) = s[Len(s)] /\ Last(s) \in Call
         /\ Front(s) \in Seq(Call) /\ Len(Front(s)) = Len(s) - 1
         /\ \A k \in 1 .. Len(s) - 1 : Front(s)[k] = s[k]
<1>1. Len(s) \in Nat \ {0} /\ Len(s) \in Int /\ Len(s) >= 1
  BY EmptySeq
<1>2. \A k \in 1 .. Len(s) : s[k] \in Call
  BY ElementOfSeq
<1>3. Last(s) = s[Len(s)] /\ Last(s) \in Call
  BY <1>1, <1>2 DEF Last
<1> DEFINE t == SubSeq(s, 1, Len(s) - 1)
<1>4. t \in Seq(Call) /\ Len(t) = Len(s) - 1 /\ \A k \in 1 .. Len(s) - 1 : t[k] = s[k]
  <2>1. 1 \in Int /\ Len(s) - 1 \in Int /\ \A i \in 1 .. Len(s) - 1 : s[i] \in Call
    BY <1>1, <1>2
  <2>2. /\ t \in Seq(Call)
        /\ Len(t) = IF 1 <= Len(s) - 1 THEN Len(s) - 1 - 1 + 1 ELSE 0
    BY <2>1, SubSeqProperties
  <2>3. \A k \in 1 .. Len(s) - 1 : t[k] = s[k]
    BY <1>1
  <2> HIDE DEF t
  <2>4. ASSUME NEW n \in Int, n >= 1
        PROVE  n - 1 = IF 1 <= n - 1 THEN n - 1 - 1 + 1 ELSE 0
    BY <2>4
  <2> QED
    BY <2>2, <2>3, <2>4, <1>1
<1>5. Front(s) = t
  BY DEF Front
<1> HIDE DEF t
<1> QED
  BY <1>1, <1>3, <1>4, <1>5

\* What the three ways a step changes the callers keep.
CallsOK == calls \in Seq(Call) /\ calls # <<>> /\ Stacked

LEMMA BeginKeeps ==
  ASSUME CallsOK, NEW c \in Call, c.kind # "run", Holds(c), calls' = Append(calls, c)
  PROVE  CallsOK'
<1>1. Len(calls) \in Nat /\ Len(calls) >= 1
  BY LastCall DEF CallsOK
<1>2. calls' \in Seq(Call) /\ Len(calls') = Len(calls) + 1
  BY DEF CallsOK
<1>3. \A k \in 1 .. Len(calls) : calls'[k] = calls[k]
  BY DEF CallsOK
<1>4. calls'[Len(calls) + 1] = c
  BY DEF CallsOK
<1>5. ASSUME NEW k \in 1 .. Len(calls')
      PROVE  Holds(calls'[k]) /\ (calls'[k].kind = "run" <=> k = 1)
  <2>1. CASE k = Len(calls) + 1
    BY <2>1, <1>1, <1>4
  <2>2. CASE k # Len(calls) + 1
    <3>1. k \in 1 .. Len(calls)
      BY <2>2, <1>1, <1>2
    <3> QED
      BY <3>1, <1>3 DEF CallsOK, Stacked
  <2> QED
    BY <2>1, <2>2
<1>6. calls' # <<>>
  BY <1>1, <1>2
<1>7. Stacked'
  BY <1>5 DEF Stacked, Holds, FailureOf
<1> QED
  BY <1>2, <1>6, <1>7 DEF CallsOK

LEMMA ResumeKeeps ==
  ASSUME CallsOK, Last(calls).kind # "run", calls' = Front(calls)
  PROVE  CallsOK'
<1>1. /\ Len(calls) \in Nat /\ Len(calls) >= 1
      /\ Last(calls) = calls[Len(calls)]
      /\ calls' \in Seq(Call) /\ Len(calls') = Len(calls) - 1
      /\ \A k \in 1 .. Len(calls) - 1 : calls'[k] = calls[k]
  BY LastCall DEF CallsOK
<1>2. Len(calls) # 1
  BY <1>1 DEF CallsOK, Stacked
<1>3. ASSUME NEW k \in 1 .. Len(calls')
      PROVE  Holds(calls'[k]) /\ (calls'[k].kind = "run" <=> k = 1)
  <2>1. k \in 1 .. Len(calls) - 1 /\ k \in 1 .. Len(calls)
    BY <1>1
  <2> QED
    BY <2>1, <1>1 DEF CallsOK, Stacked
<1>4. calls' # <<>>
  BY <1>1, <1>2
<1>5. Stacked'
  BY <1>3 DEF Stacked, Holds, FailureOf
<1> QED
  BY <1>1, <1>4, <1>5 DEF CallsOK

LEMMA CallNextKeeps ==
  ASSUME CallsOK, Last(calls).kind # "run", NEW c \in Call, c.kind # "run", Holds(c),
         calls' = [calls EXCEPT ![Len(calls)] = c]
  PROVE  CallsOK'
<1>1. /\ Len(calls) \in Nat /\ Len(calls) >= 1
      /\ Last(calls) = calls[Len(calls)]
  BY LastCall DEF CallsOK
<1>2. Len(calls) \in 1 .. Len(calls) /\ calls \in Seq(Call)
  BY <1>1 DEF CallsOK
<1>3. /\ calls' \in Seq(Call) /\ Len(calls') = Len(calls)
      /\ \A k \in 1 .. Len(calls) : calls'[k] = IF k = Len(calls) THEN c ELSE calls[k]
  BY <1>2, ExceptSeq
<1>4. ASSUME NEW k \in 1 .. Len(calls')
      PROVE  Holds(calls'[k]) /\ (calls'[k].kind = "run" <=> k = 1)
  <2>1. \A j \in 1 .. Len(calls) : Holds(calls[j]) /\ (calls[j].kind = "run" <=> j = 1)
    BY DEF CallsOK, Stacked
  <2>2. Len(calls) # 1 /\ k \in 1 .. Len(calls)
    BY <1>1, <1>2, <1>3, <2>1
  <2>3. CASE k = Len(calls)
    BY <2>2, <2>3, <1>3
  <2>4. CASE k # Len(calls)
    <3>1. calls'[k] = calls[k]
      BY <2>2, <2>4, <1>3
    <3> QED
      BY <3>1, <2>1, <2>2
  <2> QED
    BY <2>3, <2>4
<1>5. calls' # <<>>
  BY <1>1, <1>3
<1>6. Stacked'
  BY <1>4 DEF Stacked, Holds, FailureOf
<1> QED
  BY <1>3, <1>5, <1>6 DEF CallsOK

-----------------------------------------------------------------------------
(* The flags                                                               *)

\* The operations on the flags keep them sound.
LEMMA RaiseSound ==
  ASSUME NEW v, Sound(v), NEW e \in Failures
  PROVE  /\ Sound(RuntimeError(v, e)) /\ RuntimeError(v, e).hadError
         /\ Sound(Exited(v, e)) /\ Exited(v, e).hadError
         /\ RuntimeError(v, e).stopped = v.stopped /\ Exited(v, e).stopped = v.stopped
<1>1. e \in Nat /\ e >= 1 /\ e # LimitText
  BY UnwindAssumption DEF Failures, LimitText
<1>2. v.hadError \in BOOLEAN /\ v.exiting \in BOOLEAN /\ v.stopped \in BOOLEAN
  BY DEF Sound, Machine
<1>3. RuntimeError(v, e) \in Machine /\ Exited(v, e) \in Machine
  BY DEF Sound, Machine, RuntimeError, Exited
<1>4. Sound(RuntimeError(v, e)) /\ RuntimeError(v, e).hadError
  BY <1>1, <1>2, <1>3 DEF Sound, Machine, RuntimeError, InFlight
<1>5. Sound(Exited(v, e)) /\ Exited(v, e).hadError
  BY <1>1, <1>2, <1>3 DEF Sound, Machine, Exited, InFlight
<1> QED
  BY <1>4, <1>5 DEF Sound, Machine, RuntimeError, Exited

LEMMA StopSound ==
  ASSUME NEW v, Sound(v)
  PROVE  Sound(Stopped(v)) /\ \A w \in Allocated(v) : Sound(w)
<1>1. v.hadError \in BOOLEAN /\ v.exiting \in BOOLEAN /\ v.stopped \in BOOLEAN
  BY DEF Sound, Machine
<1>2. Stopped(v) \in Machine
  BY DEF Sound, Machine, Stopped, LimitText
<1>3. Sound(Stopped(v))
  BY <1>1, <1>2 DEF Sound, Machine, Stopped, InFlight, LimitText
<1> QED
  BY <1>3 DEF Allocated

LEMMA LowerSound ==
  ASSUME NEW v, Sound(v)
  PROVE  /\ Sound(Lifted(v))
         /\ ~v.exiting => Sound(Caught(v))
         /\ ~Lifted(v).hadError /\ ~Caught(v).hadError
         /\ Lifted(v).stopped = v.stopped /\ Caught(v).stopped = v.stopped
<1>1. v.hadError \in BOOLEAN /\ v.exiting \in BOOLEAN /\ v.stopped \in BOOLEAN
  BY DEF Sound, Machine
<1>2. Lifted(v) \in Machine /\ Caught(v) \in Machine
  BY DEF Sound, Machine, Lifted, Caught, NoText
<1> QED
  BY <1>1, <1>2 DEF Sound, Machine, Lifted, Caught, NoText, InFlight, LimitText

LEMMA AsideSound ==
  ASSUME NEW v, Sound(v), v.hadError, ~v.stopped
  PROVE  SetAside(v) \in Call /\ SetAside(v).kind = "aside" /\ Holds(SetAside(v))
         /\ SetAside(v).saved \in Saved
<1>1. v.hadError \in BOOLEAN /\ v.exiting \in BOOLEAN
  BY DEF Sound, Machine
<1>2. SetAside(v).saved \in Saved
  BY DEF Sound, Machine, SetAside, Saved
<1>3. SetAside(v) \in Call /\ SetAside(v).kind = "aside"
  BY <1>2 DEF SetAside, Call, Kinds
<1>4. Holds(SetAside(v))
  <2>1. InFlight(v) = {FailureOf(SetAside(v).saved)}
    BY <1>1 DEF Sound, SetAside, FailureOf, InFlight
  <2> QED
    BY <2>1 DEF Holds, Sound
<1> QED
  BY <1>2, <1>3, <1>4

LEMMA PutBackSound ==
  ASSUME NEW v, Sound(v), NEW s \in Saved, FailureOf(s) \in Failures
  PROVE  /\ Sound(PutBack(v, s)) /\ PutBack(v, s).hadError
         /\ PutBack(v, s).stopped = v.stopped
<1>1. PutBack(v, s) \in Machine
  BY DEF Sound, Machine, Saved, PutBack
<1>2. s.exiting \in BOOLEAN /\ s.message # LimitText
  BY UnwindAssumption DEF Saved, Failures, NoText, LimitText
<1> QED
  BY <1>1, <1>2 DEF Sound, Machine, PutBack, InFlight, FailureOf

LEMMA WaitingType ==
  ASSUME NEW kind \in Kinds, kind # "aside"
  PROVE  Waiting(kind) \in Call /\ Waiting(kind).kind = kind /\ Holds(Waiting(kind))
  BY DEF Waiting, NothingSaved, Call, Saved, NoText, Holds

\* How an instruction ends.
LEMMA Ending ==
  ASSUME NEW v, Sound(v), EndInstruction(v), result \in Results
  PROVE  /\ Sound(vm') /\ vm' = v
         /\ pc' \in {"dispatch", "answer"} /\ result' \in Results
         /\ pc' = "answer" <=> v.hadError
         /\ AnswersAgree'
<1>1. v.hadError \in BOOLEAN /\ v.exiting \in BOOLEAN /\ v.stopped \in BOOLEAN
  BY DEF Sound, Machine
<1>2. CASE v.hadError
  <2>1. pc' = "answer" /\ vm' = v /\ result' = AnswerOf(v)
    BY <1>2 DEF EndInstruction
  <2>2. AnswerOf(v) \in Results
    BY DEF AnswerOf, Results
  <2>3. /\ (AnswerOf(v) = "OK") <=> ~v.hadError
        /\ (AnswerOf(v) = "EXIT") <=> (v.hadError /\ v.exiting)
        /\ (AnswerOf(v) = "RUNTIME_ERROR") => ~v.stopped
    BY <1>1, <1>2 DEF AnswerOf
  <2> QED
    BY <1>2, <2>1, <2>2, <2>3 DEF AnswersAgree
<1>3. CASE ~v.hadError
  BY <1>1, <1>3 DEF EndInstruction, AnswersAgree
<1> QED
  BY <1>1, <1>2, <1>3

-----------------------------------------------------------------------------
(* Types                                                                   *)

\* The counters and the history.
Counters ==
  /\ stepsLeft \in 0 .. Wrap - 1
  /\ executed \in Nat /\ raised \in 0 .. MaxFailures
  /\ exits \subseteq Failures /\ handed \subseteq Failures /\ dropped \subseteq Failures
  /\ outranked \subseteq Failures /\ late \in 0 .. MaxLate
  /\ ensures \in Nat /\ cleanups \in Nat

\* TypeInv while a run is in progress, in the parts a step changes separately.
Going == CallsOK /\ Sound(vm) /\ pc \in {"dispatch", "answer"} /\ result \in Results /\ Counters

LEMMA GoingTypeInv == Going <=> TypeInv /\ pc # "idle"
BY DEF Going, CallsOK, TypeInv, TypeOK, Counters, Sound

\* An instruction counts; C code does not.
LEMMA Counting ==
  ASSUME Counters, Instruction \/ Quiet
  PROVE  stepsLeft' \in 0 .. Wrap - 1 /\ executed' \in Nat
<1>1. CASE Instruction
  <2>1. stepsLeft \in Int /\ stepsLeft >= 1 /\ stepsLeft <= Wrap - 1
    BY <1>1, UnwindAssumption DEF Counters, Instruction
  <2>2. stepsLeft' = stepsLeft - 1 /\ executed' = executed + 1
    BY <1>1 DEF Instruction
  <2> QED
    BY <2>1, <2>2, UnwindAssumption DEF Counters
<1>2. CASE Quiet
  BY <1>2 DEF Quiet, Counters
<1> QED
  BY <1>1, <1>2

LEMMA NextFailure ==
  ASSUME Counters, raised < MaxFailures
  PROVE  raised + 1 \in Failures /\ raised + 1 \in 0 .. MaxFailures
BY UnwindAssumption DEF Counters, Failures

\* What a stop takes the place of was raised, and is recorded once.
LEMMA OutrankedTypes ==
  ASSUME Going, NEW v, Outranks(v)
  PROVE  outranked' \subseteq Failures
BY DEF Going, Counters, Sound, Outranks

\* The instructions.
LEMMA DispatchTypes ==
  ASSUME Going, \/ StepLimitReached \/ Work \/ Fail \/ Exit \/ Return
                \/ CallPlain \/ FirstRefused \/ CallOnError \/ CallEnsure
  PROVE  Going'
<1> USE DEF Going
<1>1. CASE StepLimitReached
  <2>1. CallsOK'
    BY <1>1 DEF StepLimitReached, CallsOK, Stacked
  <2>2. Sound(vm')
    BY <1>1, StopSound DEF StepLimitReached
  <2>3. Counters'
    <3>1. outranked' \subseteq Failures
      BY <1>1, OutrankedTypes DEF StepLimitReached
    <3> QED
      BY <1>1, <3>1, UnwindAssumption DEF StepLimitReached, Counters
  <2> QED
    BY <1>1, <2>1, <2>2, <2>3 DEF StepLimitReached, Results
<1>2. CASE Work
  <2>1. CallsOK'
    BY <1>2 DEF Work, CallsOK, Stacked
  <2>2. Sound(vm') /\ pc' \in {"dispatch", "answer"} /\ result' \in Results
    <3>1. PICK v \in Allocated(vm) : EndInstruction(v)
      BY <1>2 DEF Work
    <3>2. Sound(v)
      BY <3>1, StopSound DEF Allocated
    <3> QED
      BY <3>1, <3>2, Ending
  <2>3. Counters'
    <3>1. outranked' \subseteq Failures
      BY <1>2, OutrankedTypes DEF Work
    <3> QED
      BY <1>2, <3>1, Counting DEF Work, Counters
  <2> QED
    BY <2>1, <2>2, <2>3
<1>3. CASE Fail
  <2>1. CallsOK'
    BY <1>3 DEF Fail, CallsOK, Stacked
  <2>2. Sound(RuntimeError(vm, raised + 1))
    BY <1>3, NextFailure, RaiseSound DEF Fail
  <2>3. Sound(vm') /\ pc' \in {"dispatch", "answer"} /\ result' \in Results
    BY <1>3, <2>2, Ending DEF Fail
  <2>4. Counters'
    BY <1>3, Counting, NextFailure DEF Fail, Ready, Counters
  <2> QED
    BY <2>1, <2>3, <2>4
<1>4. CASE Exit
  <2>1. CallsOK'
    BY <1>4 DEF Exit, CallsOK, Stacked
  <2>2. Sound(Exited(vm, raised + 1))
    BY <1>4, NextFailure, RaiseSound DEF Exit
  <2>3. Sound(vm') /\ pc' \in {"dispatch", "answer"} /\ result' \in Results
    BY <1>4, <2>2, Ending DEF Exit
  <2>4. Counters'
    BY <1>4, Counting, NextFailure DEF Exit, Ready, Counters
  <2> QED
    BY <2>1, <2>3, <2>4
<1>5. CASE Return
  <2>1. CallsOK'
    BY <1>5 DEF Return, CallsOK, Stacked
  <2>2. Counters'
    BY <1>5, Counting DEF Return, Counters
  <2> QED
    BY <1>5, <2>1, <2>2 DEF Return, Results
<1>6. CASE CallPlain
  <2>1. PICK kind \in {"plain", "rendering"}, v \in Allocated(vm) : Begin(Waiting(kind), v)
    BY <1>6 DEF CallPlain
  <2>2. CallsOK'
    BY <2>1, WaitingType, BeginKeeps DEF Begin, Kinds
  <2>3. Sound(vm') /\ pc' = "dispatch" /\ result' = result
    BY <2>1, StopSound DEF Begin
  <2>4. Counters'
    BY <1>6, Counting DEF CallPlain, Ready, Counters
  <2> QED
    BY <2>2, <2>3, <2>4
<1>10. CASE FirstRefused
  <2>1. CallsOK'
    BY <1>10, WaitingType, BeginKeeps DEF FirstRefused, Kinds
  <2>2. Sound(vm') /\ pc' = "answer" /\ result' \in Results
    BY <1>10, NextFailure, RaiseSound DEF FirstRefused, Unasked, Results
  <2>3. Counters'
    BY <1>10, Counting, NextFailure DEF FirstRefused, Unasked, Ready, Counters
  <2> QED
    BY <2>1, <2>2, <2>3
<1>7. CASE CallOnError
  <2>1. CallsOK'
    BY <1>7, WaitingType, BeginKeeps DEF CallOnError, Begin, Kinds
  <2>2. Counters'
    BY <1>7, Counting DEF CallOnError, Ready, Counters
  <2> QED
    BY <1>7, <2>1, <2>2 DEF CallOnError, Begin
<1>8. CASE CallEnsure
  <2>1. CallsOK'
    BY <1>8, WaitingType, BeginKeeps DEF CallEnsure, Begin, Kinds
  <2>2. Counters'
    BY <1>8, Counting DEF CallEnsure, Ready, Counters
  <2> QED
    BY <1>8, <2>1, <2>2 DEF CallEnsure, Begin
<1> QED
  BY <1>1, <1>2, <1>3, <1>4, <1>5, <1>6, <1>7, <1>8, <1>10

\* The C caller at work, unless it is sol_vm_run, has another below it, and
\* what it set aside was raised.
LEMMA AnsweringFacts ==
  ASSUME Going, NEW kind \in Kinds \ {"run"}, Answering(kind)
  PROVE  /\ Last(calls).kind # "run" /\ Last(calls).saved \in Saved
         /\ kind = "aside" => FailureOf(Last(calls).saved) \in Failures
<1>1. /\ Len(calls) \in Nat /\ Len(calls) >= 1
      /\ Last(calls) = calls[Len(calls)] /\ Last(calls) \in Call
  BY LastCall DEF Going, CallsOK
<1>2. Holds(Last(calls))
  BY <1>1 DEF Going, CallsOK, Stacked
<1> QED
  BY <1>1, <1>2 DEF Answering, Call, Holds

\* The three ways it goes on.
LEMMA ResumeTypes ==
  ASSUME Going, Last(calls).kind # "run", NEW v, Sound(v), Resume(v), Counters'
  PROVE  Going'
<1>1. CallsOK'
  BY ResumeKeeps DEF Resume, Going
<1> QED
  BY <1>1, Ending DEF Resume, Going

LEMMA CallNextTypes ==
  ASSUME Going, Last(calls).kind # "run", NEW v, Sound(v),
         NEW c \in Call, c.kind # "run", Holds(c), CallNext(c, v), Counters'
  PROVE  Going'
<1>1. CallsOK'
  BY CallNextKeeps DEF CallNext, Going
<1> QED
  BY <1>1 DEF CallNext, Going

LEMMA CallRefusedTypes ==
  ASSUME Going, Last(calls).kind # "run", NEW v, Sound(v), CallRefused(v), Counters'
  PROVE  Going'
<1>1. Sound(RuntimeError(v, raised + 1))
  BY NextFailure, RaiseSound DEF CallRefused, Going
<1> QED
  BY <1>1, ResumeTypes DEF CallRefused

\* What a failure becomes is recorded among the failures.
LEMMA InFlightTypes ==
  ASSUME NEW v, Sound(v), NEW s \in SUBSET Failures
  PROVE  s \cup InFlight(v) \subseteq Failures
BY DEF Sound

\* The C callers' answers, but for sol_vm_run's.
LEMMA AnswerTypes ==
  ASSUME Going, \/ PlainAnswered \/ RenderingAnswered \/ NextRefused
                \/ GuardedPasses \/ GuardedFails \/ HandlerAnswered
                \/ EnsuredStopped \/ EnsuredFinished \/ EnsuredFailed
                \/ CleanupAnswered \/ AsideAnswered
  PROVE  Going'
<1>a. Counters /\ Sound(vm) /\ result \in Results
  BY DEF Going
<1>b. vm.hadError \in BOOLEAN /\ vm.exiting \in BOOLEAN /\ vm.stopped \in BOOLEAN
  BY <1>a DEF Sound, Machine
<1>1. CASE PlainAnswered
  <2>1. Last(calls).kind # "run"
    BY <1>1, AnsweringFacts DEF PlainAnswered, Kinds
  <2>2. ASSUME UNCHANGED raised PROVE Counters'
    BY <1>1, <2>2, <1>a, Counting DEF PlainAnswered, Counters
  <2>3. Waiting("plain") \in Call /\ Waiting("plain").kind # "run" /\ Holds(Waiting("plain"))
    BY WaitingType DEF Kinds
  <2>4. CASE Resume(vm) /\ UNCHANGED raised
    BY <2>1, <2>2, <2>4, <1>a, ResumeTypes
  <2>5. CASE CallNext(Waiting("plain"), vm) /\ UNCHANGED raised
    BY <2>1, <2>2, <2>3, <2>5, <1>a, CallNextTypes
  <2>6. CASE CallRefused(vm)
    <3>1. Counters'
      BY <1>1, <2>6, <1>a, Counting, NextFailure DEF PlainAnswered, CallRefused, Counters
    <3> QED
      BY <2>1, <2>6, <3>1, <1>a, CallRefusedTypes
  <2> QED
    BY <1>1, <2>4, <2>5, <2>6 DEF PlainAnswered
<1>10. CASE RenderingAnswered
  <2>1. Last(calls).kind # "run"
    BY <1>10, AnsweringFacts DEF RenderingAnswered, Kinds
  <2>2. PICK v \in Allocated(vm) :
          /\ Outranks(v)
          /\ \/ Resume(v) /\ UNCHANGED <<late, raised>>
             \/ RenderNext(v) /\ UNCHANGED raised
             \/ ~v.hadError /\ CallRefused(v) /\ UNCHANGED late
    BY <1>10 DEF RenderingAnswered
  <2>3. Sound(v) /\ outranked' \subseteq Failures
    BY <2>2, <1>a, StopSound, OutrankedTypes
  <2>4. ASSUME raised' \in 0 .. MaxFailures, late' \in 0 .. MaxLate PROVE Counters'
    BY <1>10, <2>3, <2>4, <1>a, Counting DEF RenderingAnswered, Counters
  <2>5. CASE Resume(v) /\ UNCHANGED <<late, raised>>
    <3>1. Counters'
      BY <2>4, <2>5, <1>a DEF Counters
    <3> QED
      BY <2>1, <2>3, <2>5, <3>1, ResumeTypes
  <2>6. CASE RenderNext(v) /\ UNCHANGED raised
    <3>1. late' \in 0 .. MaxLate
      BY <2>6, <1>a, UnwindAssumption DEF RenderNext, Counters
    <3>2. Counters'
      BY <2>4, <2>6, <3>1, <1>a DEF Counters
    <3>3. /\ Waiting("rendering") \in Call /\ Waiting("rendering").kind # "run"
          /\ Holds(Waiting("rendering"))
      BY WaitingType DEF Kinds
    <3> QED
      BY <2>1, <2>3, <2>6, <3>2, <3>3, CallNextTypes DEF RenderNext
  <2>7. CASE ~v.hadError /\ CallRefused(v) /\ UNCHANGED late
    <3>1. Counters'
      BY <2>4, <2>7, <1>a, NextFailure DEF CallRefused, Counters
    <3> QED
      BY <2>1, <2>3, <2>7, <3>1, CallRefusedTypes
  <2> QED
    BY <2>2, <2>5, <2>6, <2>7
<1>11. CASE NextRefused
  <2>1. CallsOK'
    BY <1>11 DEF NextRefused, Going, CallsOK, Stacked
  <2>2. Sound(vm') /\ pc' = "answer" /\ result' \in Results
    BY <1>11, <1>a, NextFailure, RaiseSound DEF NextRefused, Unasked, Results
  <2>3. Counters'
    BY <1>11, <1>a, Counting, NextFailure DEF NextRefused, Unasked, Counters
  <2> QED
    BY <2>1, <2>2, <2>3 DEF Going
<1>2. CASE GuardedPasses
  <2>1. Last(calls).kind # "run"
    BY <1>2, AnsweringFacts DEF GuardedPasses, Kinds
  <2>2. Counters'
    BY <1>2, <1>a, Counting DEF GuardedPasses, Counters
  <2> QED
    BY <1>2, <2>1, <2>2, <1>a, ResumeTypes DEF GuardedPasses
<1>3. CASE GuardedFails
  <2>1. Last(calls).kind # "run"
    BY <1>3, AnsweringFacts DEF GuardedFails, Kinds
  <2>2. handed' \subseteq Failures
    BY <1>3, <1>a, InFlightTypes DEF GuardedFails, Counters
  <2>3. PICK v \in Allocated(vm) : \/ CallNext(Waiting("handler"), Caught(v)) /\ UNCHANGED raised
                                   \/ CallRefused(Caught(v))
    BY <1>3 DEF GuardedFails
  <2>4. Sound(v) /\ ~v.exiting
    <3>1. ~vm.exiting
      BY <1>3, <1>b DEF GuardedFails, LetsPast
    <3>2. ~Stopped(vm).exiting
      BY <3>1, <1>a, <1>b DEF Stopped, Sound, Machine
    <3> QED
      BY <3>1, <3>2, <1>a, StopSound DEF Allocated
  <2>5. Sound(Caught(v))
    BY <2>4, LowerSound
  <2>6. Waiting("handler") \in Call /\ Waiting("handler").kind # "run" /\ Holds(Waiting("handler"))
    BY WaitingType DEF Kinds
  <2>7. CASE CallNext(Waiting("handler"), Caught(v)) /\ UNCHANGED raised
    <3>1. Counters'
      BY <1>3, <2>2, <2>7, <1>a, Counting DEF GuardedFails, Counters
    <3> QED
      BY <2>1, <2>5, <2>6, <2>7, <3>1, CallNextTypes
  <2>8. CASE CallRefused(Caught(v))
    <3>1. Counters'
      BY <1>3, <2>2, <2>8, <1>a, Counting, NextFailure DEF GuardedFails, CallRefused, Counters
    <3> QED
      BY <2>1, <2>5, <2>8, <3>1, CallRefusedTypes
  <2> QED
    BY <2>3, <2>7, <2>8
<1>4. CASE HandlerAnswered
  <2>1. Last(calls).kind # "run"
    BY <1>4, AnsweringFacts DEF HandlerAnswered, Kinds
  <2>2. Counters'
    BY <1>4, <1>a, Counting DEF HandlerAnswered, Counters
  <2> QED
    BY <1>4, <2>1, <2>2, <1>a, ResumeTypes DEF HandlerAnswered
<1>5. CASE EnsuredStopped
  <2>1. Last(calls).kind # "run"
    BY <1>5, AnsweringFacts DEF EnsuredStopped, Kinds
  <2>2. Counters'
    BY <1>5, <1>a, Counting DEF EnsuredStopped, Counters
  <2> QED
    BY <1>5, <2>1, <2>2, <1>a, ResumeTypes DEF EnsuredStopped
<1>6. CASE EnsuredFinished
  <2>1. Last(calls).kind # "run"
    BY <1>6, AnsweringFacts DEF EnsuredFinished, Kinds
  <2>2. Waiting("cleanup") \in Call /\ Waiting("cleanup").kind # "run" /\ Holds(Waiting("cleanup"))
    BY WaitingType DEF Kinds
  <2>3. CASE CallNext(Waiting("cleanup"), vm) /\ UNCHANGED raised
    <3>1. Counters'
      BY <1>6, <2>3, <1>a, Counting DEF EnsuredFinished, Counters
    <3> QED
      BY <2>1, <2>2, <2>3, <3>1, <1>a, CallNextTypes
  <2>4. CASE CallRefused(vm)
    <3>1. Counters'
      BY <1>6, <2>4, <1>a, Counting, NextFailure DEF EnsuredFinished, CallRefused, Counters
    <3> QED
      BY <2>1, <2>4, <3>1, <1>a, CallRefusedTypes
  <2> QED
    BY <1>6, <2>3, <2>4 DEF EnsuredFinished
<1>7. CASE EnsuredFailed
  <2>1. Last(calls).kind # "run"
    BY <1>7, AnsweringFacts DEF EnsuredFailed, Kinds
  <2>2. Sound(Lifted(vm))
    BY <1>a, LowerSound
  <2>3. SetAside(vm) \in Call /\ SetAside(vm).kind = "aside" /\ Holds(SetAside(vm))
        /\ SetAside(vm).saved \in Saved
    BY <1>7, <1>a, AsideSound DEF EnsuredFailed
  <2>4. CASE CallNext(SetAside(vm), Lifted(vm)) /\ UNCHANGED <<raised, dropped>>
    <3>1. Counters'
      BY <1>7, <2>4, <1>a, Counting DEF EnsuredFailed, Counters
    <3> QED
      BY <2>1, <2>2, <2>3, <2>4, <3>1, CallNextTypes
  <2>5. CASE /\ raised < MaxFailures /\ raised' = raised + 1
             /\ EnsureFails(RuntimeError(Lifted(vm), raised + 1), SetAside(vm).saved)
    <3> DEFINE v == RuntimeError(Lifted(vm), raised + 1)
               s == SetAside(vm).saved
    <3>1. raised + 1 \in Failures /\ raised + 1 \in 0 .. MaxFailures
      BY <2>5, <1>a, NextFailure
    <3>2. Sound(v)
      BY <3>1, <2>2, RaiseSound
    <3>3. s \in Saved /\ FailureOf(s) \in Failures
      BY <2>3 DEF Holds
    <3>4. Sound(PutBack(v, s))
      BY <3>2, <3>3, PutBackSound
    <3>5. dropped' \subseteq Failures
      BY <2>5, <3>2, <3>3, <1>a DEF EnsureFails, Sound, Counters
    <3>6. Counters'
      BY <1>7, <2>5, <3>1, <3>5, <1>a, Counting DEF EnsuredFailed, Counters
    <3> QED
      BY <2>1, <2>5, <3>4, <3>6, ResumeTypes DEF EnsureFails
  <2> QED
    BY <1>7, <2>4, <2>5 DEF EnsuredFailed
<1>8. CASE CleanupAnswered
  <2>1. Last(calls).kind # "run"
    BY <1>8, AnsweringFacts DEF CleanupAnswered, Kinds
  <2>2. Counters'
    BY <1>8, <1>a, Counting DEF CleanupAnswered, Counters
  <2> QED
    BY <1>8, <2>1, <2>2, <1>a, ResumeTypes DEF CleanupAnswered
<1>9. CASE AsideAnswered
  <2> DEFINE s == Last(calls).saved
  <2>1. Last(calls).kind # "run" /\ s \in Saved /\ FailureOf(s) \in Failures
    BY <1>9, AnsweringFacts DEF AsideAnswered, Kinds
  <2>2. Sound(PutBack(vm, s))
    BY <2>1, <1>a, PutBackSound
  <2>3. dropped' \subseteq Failures
    BY <1>9, <2>1, <1>a DEF AsideAnswered, EnsureFails, Sound, Counters
  <2>4. Counters'
    BY <1>9, <2>3, <1>a, Counting DEF AsideAnswered, Counters
  <2> QED
    BY <1>9, <2>1, <2>2, <2>4, ResumeTypes DEF AsideAnswered, EnsureFails
<1> QED
  BY <1>1, <1>2, <1>3, <1>4, <1>5, <1>6, <1>7, <1>8, <1>9, <1>10, <1>11

LEMMA InitTypes == Init => TypeInv
<1> SUFFICES ASSUME Init PROVE TypeInv
  OBVIOUS
<1>1. vm \in Machine /\ Sound(vm)
  BY DEF Init, Machine, Sound, InFlight, NoText, LimitText
<1>2. stepsLeft \in 0 .. Wrap - 1
  BY UnwindAssumption DEF Init, Start0
<1>3. Len(calls) = 0 /\ calls \in Seq(Call) /\ Stacked
  BY DEF Init, Stacked
<1>4. raised \in 0 .. MaxFailures /\ late \in 0 .. MaxLate
  BY UnwindAssumption DEF Init
<1> QED
  BY <1>1, <1>2, <1>3, <1>4 DEF Init, TypeInv, TypeOK, Results

LEMMA FreshSound ==
  ASSUME Sound(vm)
  PROVE  Sound(Fresh)
<1>1. Fresh \in Machine
  BY DEF Sound, Machine, Fresh, NoText
<1>2. ~Fresh.hadError /\ ~Fresh.exiting /\ Fresh.message = NoText
  BY DEF Sound, Machine, Fresh
<1> QED
  BY <1>1, <1>2 DEF Sound, InFlight, NoText, LimitText

LEMMA StartTypes == TypeInv /\ Start => Going'
<1> SUFFICES ASSUME TypeInv, Start PROVE Going'
  OBVIOUS
<1>1. Sound(vm')
  BY FreshSound, StopSound DEF TypeInv, Start
<1>2. Waiting("run") \in Call /\ Waiting("run").kind = "run" /\ Holds(Waiting("run"))
  BY WaitingType DEF Kinds
<1>3. CallsOK'
  <2>1. calls' = <<Waiting("run")>>
    BY DEF Start
  <2>2. calls' \in Seq(Call) /\ Len(calls') = 1 /\ calls'[1] = Waiting("run") /\ calls' # <<>>
    BY <1>2, <2>1
  <2>3. Stacked'
    BY <1>2, <2>2 DEF Stacked, Holds, FailureOf
  <2> QED
    BY <2>2, <2>3 DEF CallsOK
<1>4. Counters'
  BY UnwindAssumption DEF Start, Counters, Start0
<1> QED
  BY <1>1, <1>3, <1>4 DEF Start, Going, TypeInv, TypeOK

LEMMA RunEndsTypes == Going /\ RunEnds => TypeInv'
<1> SUFFICES ASSUME Going, RunEnds PROVE TypeInv'
  OBVIOUS
<1>1. Counters'
  BY Counting DEF Going, Counters, RunEnds
<1>2. Len(calls') = 0 /\ calls' \in Seq(Call) /\ Stacked'
  BY DEF RunEnds, Stacked
<1>3. Sound(vm')
  BY DEF RunEnds, Going
<1> QED
  BY <1>1, <1>2, <1>3 DEF RunEnds, Going, TypeInv, TypeOK, Counters, Sound

\* A run in progress goes on or ends.
LEMMA StepCases ==
  ASSUME TypeInv, Next
  PROVE  \/ Start
         \/ Going /\ RunEnds
         \/ Going /\ \/ StepLimitReached \/ Work \/ Fail \/ Exit \/ Return
                     \/ CallPlain \/ FirstRefused \/ CallOnError \/ CallEnsure
         \/ Going /\ \/ PlainAnswered \/ RenderingAnswered \/ NextRefused
                     \/ GuardedPasses \/ GuardedFails \/ HandlerAnswered
                     \/ EnsuredStopped \/ EnsuredFinished \/ EnsuredFailed
                     \/ CleanupAnswered \/ AsideAnswered
<1>1. CASE Start
  BY <1>1
<1>2. CASE \/ StepLimitReached \/ Work \/ Fail \/ Exit \/ Return
           \/ CallPlain \/ FirstRefused \/ CallOnError \/ CallEnsure
  <2>1. pc # "idle"
    BY <1>2 DEF StepLimitReached, Work, Fail, Exit, Return, CallPlain, FirstRefused,
                CallOnError, CallEnsure, Ready, Instruction
  <2> QED
    BY <1>2, <2>1, GoingTypeInv
<1>3. CASE \/ RunEnds \/ PlainAnswered \/ RenderingAnswered \/ NextRefused
           \/ GuardedPasses \/ GuardedFails \/ HandlerAnswered
           \/ EnsuredStopped \/ EnsuredFinished \/ EnsuredFailed
           \/ CleanupAnswered \/ AsideAnswered
  <2>1. pc # "idle"
    BY <1>3 DEF RunEnds, PlainAnswered, RenderingAnswered, NextRefused, GuardedPasses, GuardedFails, HandlerAnswered,
                EnsuredStopped, EnsuredFinished, EnsuredFailed, CleanupAnswered,
                AsideAnswered, Answering
  <2> QED
    BY <1>3, <2>1, GoingTypeInv
<1> QED
  BY <1>1, <1>2, <1>3 DEF Next, Proceed

LEMMA NextTypes == TypeInv /\ [Next]_vars => TypeInv'
<1> SUFFICES ASSUME TypeInv, [Next]_vars PROVE TypeInv'
  OBVIOUS
<1>1. CASE UNCHANGED vars
  BY <1>1 DEF vars, history, TypeInv, TypeOK, Stacked, Sound, Holds, FailureOf, InFlight
<1>2. CASE Next
  <2>1. Going' \/ TypeInv'
    BY <1>2, StepCases, StartTypes, RunEndsTypes, DispatchTypes, AnswerTypes
  <2>2. Going' => TypeInv'
    BY DEF Going, CallsOK, TypeInv, TypeOK, Counters, Sound
  <2> QED
    BY <2>1, <2>2
<1> QED
  BY <1>1, <1>2

\* In every reachable state each variable has the values the C type allows,
\* and there is a C caller exactly while a run is in progress.
THEOREM TypeCorrect == Spec => []TypeOK
<1>1. Init => TypeInv
  BY InitTypes
<1>2. TypeInv /\ [Next]_vars => TypeInv'
  BY NextTypes
<1>3. TypeInv => TypeOK
  BY DEF TypeInv
<1> QED
  BY <1>1, <1>2, <1>3, PTL DEF Spec

-----------------------------------------------------------------------------
(* What a step limit guarantees, where there is no memory limit            *)

SafeInv == TypeInv /\ Flags /\ Budget

LEMMA NoMemory ==
  ASSUME ~MemoryLimited
  PROVE  \A v : Allocated(v) = {v}
BY DEF Allocated

\* An instruction, or a primitive, that ends with a stop has the flag up.
LEMMA EndFlags ==
  ASSUME NEW v, Sound(v), EndInstruction(v), result \in Results, v.stopped => v.hadError
  PROVE  Flags' /\ vm' = v
BY Ending DEF Flags

\* The budget is a number the counter holds, and what the renderer may have
\* executed after a stop never brings the counter down to it again.
LEMMA Bounds ==
  /\ Start0 \in Nat /\ Start0 <= Wrap - 1 /\ Wrap \in Nat
  /\ MaxLate \in Nat /\ MaxLate <= Wrap - 2
  /\ StepLimit > 0 => Start0 = StepLimit /\ StepLimit + MaxLate <= Wrap - 2
BY UnwindAssumption DEF Start0

\* An instruction begins with the flag up only for the renderer, and is then the
\* last of its block; only the budget's test stops the machine.
LEMMA DispatchFlags ==
  ASSUME ~MemoryLimited, Going, Flags, Budget,
         \/ StepLimitReached \/ Work \/ Fail \/ Exit \/ Return
         \/ CallPlain \/ FirstRefused \/ CallOnError \/ CallEnsure
  PROVE  Flags' /\ Budget' /\ NoMoreCode
<1>a. Sound(vm) /\ result \in Results /\ Counters
  BY DEF Going
<1>b. pc = "dispatch"
  BY DEF StepLimitReached, Work, Fail, Exit, Return, CallPlain, FirstRefused,
         CallOnError, CallEnsure, Ready, Instruction
<1>c. /\ vm.stopped => vm.hadError
      /\ vm.hadError => Last(calls).kind = "rendering"
  BY <1>b DEF Flags
<1>d. vm.hadError \in BOOLEAN /\ vm.exiting \in BOOLEAN /\ vm.stopped \in BOOLEAN
  BY <1>a DEF Sound, Machine
<1>n. /\ stepsLeft \in Int /\ executed \in Int /\ late \in Int /\ late <= MaxLate
      /\ Start0 \in Int /\ Wrap \in Int /\ MaxLate \in Int
      /\ 0 <= stepsLeft /\ 0 <= executed
  BY <1>a, Bounds, UnwindAssumption DEF Counters
<1>e. ASSUME Instruction, vm'.stopped = vm.stopped, vm.stopped => pc' = "answer", late' = late
      PROVE  Budget'
  <2>1. stepsLeft' = stepsLeft - 1 /\ executed' = executed + 1
    BY <1>e DEF Instruction
  <2>2. CASE vm.stopped
    <3>1. 0 <= executed - Start0 /\ executed - Start0 + 1 <= late
          /\ stepsLeft = Wrap - 1 - (executed - Start0)
      BY <1>b, <2>2 DEF Budget, Over, Due
    <3>2. Over' = executed - Start0 + 1 /\ Due' = 0
      BY <1>e, <1>n, <2>1, <2>2 DEF Over, Due, Start0
    <3>3. 0 <= Over' /\ Over' + Due' <= late' /\ stepsLeft' = Wrap - 1 - Over'
      BY <1>e, <1>n, <2>1, <3>1, <3>2
    <3> QED
      BY <1>e, <2>2, <3>3 DEF Budget
  <2>3. CASE ~vm.stopped
    <3>1. stepsLeft + executed = Start0
      BY <2>3 DEF Budget
    <3>2. stepsLeft' + executed' = Start0
      BY <1>n, <2>1, <3>1
    <3> QED
      BY <1>e, <2>3, <3>2 DEF Budget, Start0
  <2> QED
    BY <2>2, <2>3
<1>f. ASSUME Ready PROVE ~vm.hadError /\ ~vm.stopped /\ Instruction
  BY <1>f, <1>c DEF Ready
<1>1. CASE StepLimitReached
  <2>1. vm' = Stopped(vm) /\ pc' = "answer" /\ result' = "STOPPED" /\ calls' = calls
        /\ stepsLeft' = Wrap - 1 /\ executed' = executed /\ stepsLeft = 0 /\ late' = late
    BY <1>1 DEF StepLimitReached
  <2>2. ~vm.stopped
    <3>1. SUFFICES ASSUME vm.stopped PROVE FALSE
      OBVIOUS
    <3>2. Over + 1 <= late /\ 0 = Wrap - 1 - Over /\ Over \in Int
      BY <1>b, <1>n, <2>1, <3>1 DEF Budget, Due, Over
    <3>3. MaxLate <= Wrap - 2
      BY Bounds
    <3> QED
      BY <1>n, <3>2, <3>3
  <2>3. vm'.stopped /\ vm'.hadError /\ ~vm'.exiting
    BY <2>1, <2>2, <1>a DEF Stopped, Sound, Machine
  <2>4. Flags'
    BY <2>1, <2>3 DEF Flags, AnswersAgree
  <2>5. executed = Start0
    BY <1>n, <2>1, <2>2 DEF Budget
  <2>6. Over' = 0 /\ Due' = 0
    BY <1>n, <2>1, <2>5 DEF Over, Due, Start0
  <2>7. Budget'
    BY <1>n, <1>a, <2>1, <2>3, <2>6 DEF Budget, Counters
  <2> QED
    BY <2>2, <2>4, <2>7 DEF NoMoreCode
<1>2. CASE Work
  <2>1. Instruction /\ EndInstruction(vm)
    BY <1>2, NoMemory DEF Work
  <2>2. Flags' /\ vm' = vm
    BY <2>1, <1>a, <1>c, EndFlags
  <2>3. vm.stopped => pc' = "answer"
    BY <2>1, <1>c DEF EndInstruction
  <2>4. Budget'
    BY <1>2, <2>1, <2>2, <2>3, <1>e DEF Work
  <2> QED
    BY <1>2, <2>2, <2>3, <2>4 DEF Work, NoMoreCode
<1>3. CASE Fail
  <2>1. Sound(RuntimeError(vm, raised + 1)) /\ ~RuntimeError(vm, raised + 1).stopped
    BY <1>3, <1>a, <1>f, NextFailure, RaiseSound DEF Fail
  <2>2. Flags' /\ vm' = RuntimeError(vm, raised + 1)
    BY <1>3, <2>1, <1>a, EndFlags DEF Fail
  <2>3. ~vm.stopped /\ Instruction /\ late' = late
    BY <1>3, <1>f DEF Fail
  <2>4. vm'.stopped = vm.stopped
    BY <2>1, <2>2, <2>3, <1>d, RaiseSound, NextFailure, <1>a, <1>3 DEF Fail
  <2> QED
    BY <2>2, <2>3, <2>4, <1>e DEF NoMoreCode
<1>4. CASE Exit
  <2>1. Sound(Exited(vm, raised + 1)) /\ ~Exited(vm, raised + 1).stopped
    BY <1>4, <1>a, <1>f, NextFailure, RaiseSound DEF Exit
  <2>2. Flags' /\ vm' = Exited(vm, raised + 1)
    BY <1>4, <2>1, <1>a, EndFlags DEF Exit
  <2>3. ~vm.stopped /\ Instruction /\ late' = late
    BY <1>4, <1>f DEF Exit
  <2>4. vm'.stopped = vm.stopped
    BY <2>1, <2>2, <2>3, <1>d, RaiseSound, NextFailure, <1>a, <1>4 DEF Exit
  <2> QED
    BY <2>2, <2>3, <2>4, <1>e DEF NoMoreCode
<1>5. CASE Return
  <2>1. /\ vm' = vm /\ pc' = "answer" /\ result' = "OK" /\ calls' = calls /\ late' = late
        /\ Instruction /\ UNCHANGED <<raised, handed, ensures, cleanups>>
    BY <1>5 DEF Return
  <2>2. AnswersAgree'
    BY <2>1, <1>c, <1>d DEF AnswersAgree
  <2>3. Flags'
    BY <2>1, <2>2, <1>c DEF Flags
  <2> QED
    BY <2>1, <2>3, <1>e DEF NoMoreCode
<1>6. CASE CallPlain \/ CallOnError \/ CallEnsure
  <2>1. vm' = vm /\ pc' = "dispatch" /\ Ready /\ late' = late
    BY <1>6, NoMemory DEF CallPlain, CallOnError, CallEnsure, Begin
  <2>2. Flags'
    BY <2>1, <1>f DEF Flags, AnswersAgree
  <2> QED
    BY <2>1, <2>2, <1>e, <1>f DEF NoMoreCode
<1>7. CASE FirstRefused
  <2>1. Sound(vm') /\ vm'.hadError /\ vm'.stopped = vm.stopped
    BY <1>7, <1>a, NextFailure, RaiseSound DEF FirstRefused, Unasked
  <2>2. ~vm.hadError /\ ~vm.stopped /\ Instruction /\ late' = late /\ Unasked
    BY <1>7, <1>f DEF FirstRefused
  <2>3. ~vm'.exiting
    BY <1>a, <2>2 DEF Unasked, RuntimeError, Sound, Machine
  <2>4. Flags'
    BY <2>1, <2>2, <2>3 DEF Flags, AnswersAgree, Unasked
  <2> QED
    BY <2>1, <2>2, <2>4, <1>e DEF NoMoreCode
<1> QED
  BY <1>1, <1>2, <1>3, <1>4, <1>5, <1>6, <1>7

\* No C caller forgets a stop, takes a step, or lowers the flag of one; and none
\* but the renderer goes on after one, which it counts.
LEMMA AnswerFlags ==
  ASSUME ~MemoryLimited, Going, Flags,
         \/ PlainAnswered \/ RenderingAnswered \/ NextRefused
         \/ GuardedPasses \/ GuardedFails \/ HandlerAnswered
         \/ EnsuredStopped \/ EnsuredFinished \/ EnsuredFailed
         \/ CleanupAnswered \/ AsideAnswered
  PROVE  /\ Flags' /\ vm'.stopped = vm.stopped /\ Quiet
         /\ NoMoreCode /\ (vm.stopped => late' = late + Due')
<1>a. Sound(vm) /\ result \in Results /\ Counters
  BY DEF Going
<1>b. pc = "answer"
  BY DEF PlainAnswered, RenderingAnswered, NextRefused, GuardedPasses, GuardedFails, HandlerAnswered,
         EnsuredStopped, EnsuredFinished, EnsuredFailed, CleanupAnswered, AsideAnswered, Answering
<1>c. vm.stopped => vm.hadError
  BY <1>b DEF Flags
<1>d. /\ vm.hadError \in BOOLEAN /\ vm.exiting \in BOOLEAN /\ vm.stopped \in BOOLEAN
      /\ late \in Int
  BY <1>a DEF Sound, Machine, Counters
<1>e. Quiet
  BY DEF PlainAnswered, RenderingAnswered, NextRefused, GuardedPasses, GuardedFails, HandlerAnswered,
         EnsuredStopped, EnsuredFinished, EnsuredFailed, CleanupAnswered, AsideAnswered
<1> DEFINE Goal == /\ Flags' /\ vm'.stopped = vm.stopped
                    /\ NoMoreCode /\ (vm.stopped => late' = late + Due')
<1>f. ASSUME NEW v, Sound(v), v.stopped = vm.stopped, vm.stopped => v.hadError, Resume(v),
             vm.stopped => UNCHANGED <<raised, handed, ensures, cleanups, late>>
      PROVE  Goal
  <2>1. Flags' /\ vm' = v
    BY <1>f, <1>a, EndFlags DEF Resume
  <2>2. vm.stopped => pc' = "answer"
    BY <1>f DEF Resume, EndInstruction
  <2> QED
    BY <1>d, <1>f, <2>1, <2>2 DEF NoMoreCode, Due
<1>g. ASSUME NEW c, NEW v, Sound(v), CallNext(c, v), ~v.hadError, ~v.stopped, ~vm.stopped
      PROVE  Goal
  <2>1. vm' = v /\ pc' = "dispatch" /\ v.stopped \in BOOLEAN
    BY <1>g DEF CallNext, Sound, Machine
  <2> QED
    BY <1>g, <2>1, <1>d DEF Flags, AnswersAgree, NoMoreCode
<1>h. ASSUME NEW v, Sound(v), CallRefused(v), ~v.stopped, ~vm.stopped
      PROVE  Goal
  <2>1. Sound(RuntimeError(v, raised + 1)) /\ RuntimeError(v, raised + 1).stopped = v.stopped
    BY <1>h, <1>a, NextFailure, RaiseSound DEF CallRefused
  <2>2. v.stopped \in BOOLEAN
    BY <1>h DEF Sound, Machine
  <2>3. v.stopped = vm.stopped
    BY <1>d, <1>h, <2>2
  <2> QED
    BY <1>f, <1>h, <2>1, <2>3 DEF CallRefused
<1>1. CASE PlainAnswered
  <2>1. CASE Resume(vm) /\ UNCHANGED raised
    BY <1>1, <2>1, <1>a, <1>c, <1>e, <1>f DEF PlainAnswered
  <2>2. CASE ~vm.hadError /\ CallNext(Waiting("plain"), vm)
    BY <2>2, <1>a, <1>c, <1>e, <1>g
  <2>3. CASE ~vm.hadError /\ CallRefused(vm)
    BY <2>3, <1>a, <1>c, <1>e, <1>h
  <2> QED
    BY <1>1, <2>1, <2>2, <2>3 DEF PlainAnswered
<1>7. CASE RenderingAnswered
  <2>0. UNCHANGED <<handed, ensures, cleanups>> /\ Last(calls).kind = "rendering"
    BY <1>7 DEF RenderingAnswered, Answering
  <2>1. CASE Resume(vm) /\ UNCHANGED <<late, raised>>
    BY <2>0, <2>1, <1>a, <1>c, <1>e, <1>f
  <2>2. CASE RenderNext(vm) /\ UNCHANGED raised
    <3>1. /\ vm' = vm /\ pc' = "dispatch"
          /\ calls' = [calls EXCEPT ![Len(calls)] = Waiting("rendering")]
          /\ (vm.stopped => late' = late + 1)
      BY <2>2, <1>c DEF RenderNext, CallNext
    <3>2. Len(calls') = Len(calls) /\ Last(calls').kind = "rendering"
      <4>1. /\ calls \in Seq(Call) /\ Len(calls) \in 1 .. Len(calls)
            /\ Waiting("rendering") \in Call /\ Waiting("rendering").kind = "rendering"
        <5>1. calls \in Seq(Call) /\ Len(calls) \in Nat /\ Len(calls) >= 1
          BY LastCall DEF Going, CallsOK
        <5> QED
          BY <5>1, WaitingType DEF Kinds
      <4>2. /\ Len(calls') = Len(calls)
            /\ calls'[Len(calls)] = Waiting("rendering")
        BY <3>1, <4>1, ExceptSeq
      <4> QED
        BY <4>1, <4>2 DEF Last
    <3>3. Flags'
      BY <1>c, <3>1, <3>2 DEF Flags, AnswersAgree
    <3>4. NoMoreCode
      BY <1>b, <2>0, <2>2, <3>2 DEF NoMoreCode
    <3> QED
      BY <1>e, <3>1, <3>3, <3>4 DEF Due
  <2>3. CASE ~vm.hadError /\ CallRefused(vm)
    BY <2>3, <1>a, <1>c, <1>e, <1>h
  <2> QED
    BY <1>7, <2>1, <2>2, <2>3, NoMemory DEF RenderingAnswered
<1>8. CASE NextRefused
  <2>1. Sound(vm') /\ vm'.hadError /\ vm'.stopped = vm.stopped
    BY <1>8, <1>a, NextFailure, RaiseSound DEF NextRefused, Unasked
  <2>2. ~vm.hadError /\ ~vm.stopped /\ Unasked
    BY <1>8, <1>c DEF NextRefused
  <2>3. ~vm'.exiting
    BY <1>a, <2>2 DEF Unasked, RuntimeError, Sound, Machine
  <2>4. Flags'
    BY <2>1, <2>2, <2>3 DEF Flags, AnswersAgree, Unasked
  <2> QED
    BY <1>e, <2>1, <2>2, <2>4 DEF NoMoreCode
<1>2. CASE GuardedPasses \/ HandlerAnswered \/ EnsuredStopped \/ CleanupAnswered
  BY <1>2, <1>a, <1>c, <1>e, <1>f DEF GuardedPasses, HandlerAnswered, EnsuredStopped, CleanupAnswered
<1>3. CASE GuardedFails
  <2>1. ~vm.stopped /\ ~vm.exiting
    BY <1>3, <1>d DEF GuardedFails, LetsPast
  <2>2. \/ CallNext(Waiting("handler"), Caught(vm)) \/ CallRefused(Caught(vm))
    BY <1>3, NoMemory DEF GuardedFails
  <2>3. Sound(Caught(vm)) /\ ~Caught(vm).hadError /\ ~Caught(vm).stopped
    BY <2>1, <1>a, LowerSound
  <2> QED
    BY <2>1, <2>2, <2>3, <1>e, <1>g, <1>h
<1>4. CASE EnsuredFinished
  <2>1. ~vm.stopped /\ ~vm.hadError
    BY <1>4 DEF EnsuredFinished
  <2>2. CallNext(Waiting("cleanup"), vm) \/ CallRefused(vm)
    BY <1>4 DEF EnsuredFinished
  <2> QED
    BY <2>1, <2>2, <1>a, <1>e, <1>g, <1>h
<1>5. CASE EnsuredFailed
  <2>1. ~vm.stopped /\ vm.hadError
    BY <1>5 DEF EnsuredFailed
  <2>2. Sound(Lifted(vm)) /\ ~Lifted(vm).hadError /\ ~Lifted(vm).stopped
    BY <2>1, <1>a, LowerSound
  <2>3. CASE CallNext(SetAside(vm), Lifted(vm))
    BY <2>1, <2>2, <2>3, <1>e, <1>g
  <2>4. CASE /\ raised < MaxFailures
             /\ EnsureFails(RuntimeError(Lifted(vm), raised + 1), SetAside(vm).saved)
    <3> DEFINE v == RuntimeError(Lifted(vm), raised + 1)
               s == SetAside(vm).saved
    <3>1. Sound(v) /\ ~v.stopped
      BY <2>2, <2>4, <1>a, NextFailure, RaiseSound
    <3>2. s \in Saved /\ FailureOf(s) \in Failures
      BY <2>1, <1>a, AsideSound DEF Holds
    <3>3. Sound(PutBack(v, s)) /\ ~PutBack(v, s).stopped
      BY <3>1, <3>2, PutBackSound
    <3>4. PutBack(v, s).stopped \in BOOLEAN
      BY <3>3 DEF Sound, Machine
    <3>5. PutBack(v, s).stopped = vm.stopped
      BY <2>1, <3>3, <3>4, <1>d
    <3> HIDE DEF v, s
    <3> QED
      BY <2>1, <2>4, <3>3, <3>5, <1>e, <1>f DEF EnsureFails, v, s
  <2> QED
    BY <1>5, <2>3, <2>4 DEF EnsuredFailed
<1>6. CASE AsideAnswered
  <2> DEFINE s == Last(calls).saved
  <2>1. s \in Saved /\ FailureOf(s) \in Failures
    BY <1>6, AnsweringFacts DEF AsideAnswered, Kinds
  <2>2. /\ Sound(PutBack(vm, s)) /\ PutBack(vm, s).hadError
        /\ PutBack(vm, s).stopped = vm.stopped
    BY <2>1, <1>a, PutBackSound
  <2>3. Resume(PutBack(vm, s)) /\ UNCHANGED <<raised, handed, ensures, cleanups, late>>
    BY <1>6 DEF AsideAnswered, EnsureFails
  <2> QED
    BY <2>2, <2>3, <1>e, <1>f
<1> QED
  BY <1>1, <1>2, <1>3, <1>4, <1>5, <1>6, <1>7, <1>8

LEMMA InitSafe == Init => SafeInv
<1>1. ASSUME Init PROVE Flags
  BY <1>1 DEF Init, Flags, AnswersAgree
<1>2. ASSUME Init PROVE Budget
  <2>1. Start0 \in Int /\ stepsLeft = Start0 /\ executed = 0 /\ ~vm.stopped
    BY <1>2, Bounds DEF Init
  <2> QED
    BY <2>1 DEF Budget
<1> QED
  BY <1>1, <1>2, InitTypes DEF SafeInv

\* What every step keeps, and what it may not do once the machine is stopped.
LEMMA NextSafe == ~MemoryLimited /\ SafeInv /\ [Next]_vars => SafeInv' /\ [NoMoreCode]_vars
<1> SUFFICES ASSUME ~MemoryLimited, SafeInv, [Next]_vars
             PROVE  SafeInv' /\ [NoMoreCode]_vars
  OBVIOUS
<1>a. TypeInv /\ Flags /\ Budget
  BY DEF SafeInv
<1>b. TypeInv'
  BY <1>a, NextTypes
<1>1. CASE UNCHANGED vars
  BY <1>1, <1>a, <1>b
     DEF vars, history, SafeInv, Flags, AnswersAgree, Budget, Over, Due, Start0
<1>2. CASE Start
  <2>1. vm' = Fresh /\ pc = "idle" /\ pc' = "dispatch" /\ stepsLeft' = Start0 /\ executed' = 0
    BY <1>2, NoMemory DEF Start
  <2>2. ~Fresh.hadError /\ ~Fresh.stopped
    BY <1>a DEF TypeInv, Sound, Machine, Fresh
  <2>3. Flags'
    BY <2>1, <2>2 DEF Flags, AnswersAgree
  <2>4. Budget'
    <3>1. stepsLeft' + executed' = Start0
      BY <2>1, Bounds
    <3> QED
      BY <2>1, <2>2, <3>1 DEF Budget, Start0
  <2>5. NoMoreCode
    BY <2>1 DEF NoMoreCode
  <2> QED
    BY <2>3, <2>4, <2>5, <1>b DEF SafeInv
<1>3. CASE Going /\ RunEnds
  <2>1. /\ pc = "answer" /\ pc' = "idle" /\ vm' = vm /\ stepsLeft' = stepsLeft
        /\ executed' = executed /\ UNCHANGED <<late, raised, handed, ensures, cleanups>>
    BY <1>3 DEF RunEnds, Quiet, Answering
  <2>2. Due = 0 /\ Due' = 0 /\ Over' = Over /\ Start0' = Start0
    BY <2>1 DEF Due, Over, Start0
  <2>3. Budget'
    BY <2>1, <2>2, <1>a DEF Budget
  <2> QED
    BY <2>1, <2>3, <1>a, <1>b DEF SafeInv, Flags, AnswersAgree, NoMoreCode
<1>4. CASE Going /\ \/ StepLimitReached \/ Work \/ Fail \/ Exit \/ Return
                    \/ CallPlain \/ FirstRefused \/ CallOnError \/ CallEnsure
  <2>1. Flags' /\ Budget' /\ NoMoreCode
    BY <1>4, <1>a, DispatchFlags
  <2> QED
    BY <2>1, <1>b DEF SafeInv
<1>5. CASE Going /\ \/ PlainAnswered \/ RenderingAnswered \/ NextRefused
                    \/ GuardedPasses \/ GuardedFails \/ HandlerAnswered
                    \/ EnsuredStopped \/ EnsuredFinished \/ EnsuredFailed
                    \/ CleanupAnswered \/ AsideAnswered
  <2>1. /\ Flags' /\ vm'.stopped = vm.stopped /\ stepsLeft' = stepsLeft /\ executed' = executed
        /\ NoMoreCode /\ (vm.stopped => late' = late + Due')
    BY <1>5, <1>a, AnswerFlags DEF Quiet
  <2>2. Over' = Over /\ Start0' = Start0 /\ Over \in Int /\ Due \in {0, 1} /\ Due' \in {0, 1}
        /\ late \in Int
    BY <2>1, <1>a, Bounds DEF Over, Start0, Due, TypeInv, TypeOK
  <2>3. Budget'
    BY <2>1, <2>2, <1>a DEF Budget
  <2> QED
    BY <2>1, <2>3, <1>b DEF SafeInv
<1> QED
  BY <1>1, <1>2, <1>3, <1>4, <1>5, <1>a, StepCases

\* Once a step limit has stopped a run, no failure is raised in it and no handler,
\* ensure or cleanup begins, however its onErrors and ensures are nested; and if
\* an instruction executes, it is one of the renderer's objects that answers.
THEOREM StopsAreFinal == ~MemoryLimited => (Spec => StopIsFinal)
<1> SUFFICES ASSUME ~MemoryLimited PROVE Spec => StopIsFinal
  OBVIOUS
<1>1. Init => SafeInv
  BY InitSafe
<1>2. SafeInv /\ [Next]_vars => SafeInv' /\ [NoMoreCode]_vars
  BY NextSafe
<1> QED
  BY <1>1, <1>2, PTL DEF Spec, StopIsFinal

\* A step limit of N lets N instructions of a run execute, and no more than one for
\* each time the renderer sent asString on after a failure; sol_vm_steps_run
\* answers how many did, of those that came before the stop.
THEOREM LimitBinds == ~MemoryLimited /\ StepLimit > 0 => (Spec => []StepsCounted)
<1> SUFFICES ASSUME ~MemoryLimited, StepLimit > 0 PROVE Spec => []StepsCounted
  OBVIOUS
<1>1. Init => SafeInv
  BY InitSafe
<1>2. SafeInv /\ [Next]_vars => SafeInv'
  BY NextSafe
<1>3. SafeInv => StepsCounted
  <2> SUFFICES ASSUME SafeInv PROVE StepsCounted
    OBVIOUS
  <2>1. /\ stepsLeft \in Int /\ stepsLeft >= 0 /\ executed \in Int /\ executed >= 0
        /\ late \in Int /\ late >= 0 /\ late <= MaxLate
    BY UnwindAssumption DEF SafeInv, TypeInv, TypeOK
  <2>2. /\ Start0 = StepLimit /\ StepLimit \in Int /\ Wrap \in Int /\ MaxLate \in Int
        /\ StepLimit + MaxLate <= Wrap - 2
    BY Bounds, UnwindAssumption
  <2>3. CASE vm.stopped
    <3>1. /\ 0 <= executed - StepLimit /\ executed - StepLimit + Due <= late
          /\ stepsLeft = Wrap - 1 - (executed - StepLimit) /\ Due \in {0, 1}
      BY <2>2, <2>3 DEF SafeInv, Budget, Over, Due
    <3>2. StepsRun = StepLimit
      BY <2>1, <2>2, <3>1 DEF StepsRun
    <3> QED
      BY <2>1, <2>2, <2>3, <3>1, <3>2 DEF StepsCounted
  <2>4. CASE ~vm.stopped
    <3>1. stepsLeft + executed = StepLimit
      BY <2>2, <2>4 DEF SafeInv, Budget
    <3>2. StepsRun = executed
      BY <2>1, <2>2, <3>1 DEF StepsRun
    <3> QED
      BY <2>1, <2>2, <2>4, <3>1, <3>2 DEF StepsCounted
  <2> QED
    BY <2>3, <2>4
<1> QED
  BY <1>1, <1>2, <1>3, PTL DEF Spec

\* The result a C caller is given and the flags it may test instead agree, where a
\* C caller goes by either: all but the renderer.
THEOREM AnswersAndFlagsAgree == ~MemoryLimited => (Spec => []AnswersAgree)
<1> SUFFICES ASSUME ~MemoryLimited PROVE Spec => []AnswersAgree
  OBVIOUS
<1>1. Init => SafeInv
  BY InitSafe
<1>2. SafeInv /\ [Next]_vars => SafeInv'
  BY NextSafe
<1>3. SafeInv => AnswersAgree
  BY DEF SafeInv, Flags
<1> QED
  BY <1>1, <1>2, <1>3, PTL DEF Spec

-----------------------------------------------------------------------------
(* Every ensure calls its cleanup, under a memory limit too                *)

\* The ensures that wait for their body, and how many there are.
BodiesAt(s) == {k \in 1 .. Len(s) : s[k].kind = "ensured"}
Bodies(s) == Cardinality(BodiesAt(s))
One(c) == IF c.kind = "ensured" THEN 1 ELSE 0

LEMMA BodiesFinite ==
  ASSUME NEW s \in Seq(Call)
  PROVE  IsFiniteSet(BodiesAt(s)) /\ Bodies(s) \in Nat
<1>1. IsFiniteSet(1 .. Len(s))
  BY FS_Interval
<1>2. IsFiniteSet(BodiesAt(s))
  BY <1>1, FS_Subset DEF BodiesAt
<1> QED BY <1>2, FS_CardinalityType DEF Bodies

LEMMA BodiesBegin ==
  ASSUME NEW s \in Seq(Call), NEW c \in Call
  PROVE  Bodies(Append(s, c)) = Bodies(s) + One(c)
<1> DEFINE t == Append(s, c)
           n == Len(s) + 1
<1>1. /\ Len(s) \in Nat /\ Len(t) = n /\ t[n] = c /\ \A k \in 1 .. Len(s) : t[k] = s[k]
  BY LenProperties, AppendProperties
<1>2. 1 .. n = 1 .. Len(s) \cup {n} /\ n \notin 1 .. Len(s)
  BY <1>1
<1> HIDE DEF t, n
<1>3. BodiesAt(t) = BodiesAt(s) \cup (IF c.kind = "ensured" THEN {n} ELSE {})
  BY <1>1, <1>2 DEF BodiesAt
<1>4. n \notin BodiesAt(s)
  BY <1>2 DEF BodiesAt
<1>5. CASE c.kind = "ensured"
  <2>1. BodiesAt(t) = BodiesAt(s) \cup {n}
    BY <1>3, <1>5
  <2>2. Cardinality(BodiesAt(t)) = Cardinality(BodiesAt(s)) + 1
    BY <1>4, <2>1, BodiesFinite, FS_AddElement
  <2> QED BY <1>5, <2>2 DEF Bodies, One, t
<1>6. CASE c.kind # "ensured"
  <2>1. BodiesAt(t) = BodiesAt(s)
    BY <1>3, <1>6
  <2> QED BY <1>6, <2>1, BodiesFinite DEF Bodies, One, t
<1> QED BY <1>5, <1>6

\* The last caller goes, or calls another block that is no ensure's body.
LEMMA BodiesAnswer ==
  ASSUME NEW s \in Seq(Call), s # <<>>, NEW t \in Seq(Call),
         \/ t = Front(s)
         \/ \E c \in Call : c.kind # "ensured" /\ t = [s EXCEPT ![Len(s)] = c]
  PROVE  Bodies(t) = Bodies(s) - One(Last(s))
<1> DEFINE n == Len(s)
<1>1. n \in Nat /\ n >= 1 /\ Last(s) = s[n]
  BY LastCall
<1>2. BodiesAt(t) = BodiesAt(s) \ {n}
  <2>1. CASE t = Front(s)
    <3>1. Len(t) = n - 1 /\ \A k \in 1 .. n - 1 : t[k] = s[k]
      BY <2>1, LastCall
    <3>2. 1 .. n - 1 = (1 .. n) \ {n}
      BY <1>1
    <3> QED BY <3>1, <3>2 DEF BodiesAt
  <2>2. ASSUME NEW c \in Call, c.kind # "ensured", t = [s EXCEPT ![n] = c]
        PROVE  BodiesAt(t) = BodiesAt(s) \ {n}
    <3>1. n \in 1 .. Len(s)
      BY <1>1
    <3>2. Len(t) = n /\ \A k \in 1 .. n : t[k] = IF k = n THEN c ELSE s[k]
      BY <2>2, <3>1, ExceptSeq
    <3> HIDE DEF n
    <3> QED BY <2>2, <3>2 DEF BodiesAt, n
  <2> QED BY <2>1, <2>2
<1>3. n \in BodiesAt(s) <=> Last(s).kind = "ensured"
  BY <1>1 DEF BodiesAt
<1> HIDE DEF n
<1>4. Cardinality(BodiesAt(t)) = IF n \in BodiesAt(s) THEN Cardinality(BodiesAt(s)) - 1
                                                      ELSE Cardinality(BodiesAt(s))
  BY <1>2, BodiesFinite, FS_RemoveElement
<1>5. Bodies(s) \in Nat
  BY BodiesFinite
<1> QED BY <1>3, <1>4, <1>5 DEF Bodies, One

\* CleanupsRun, in these words.
LEMMA CleanupsRunIs ==
  /\ CleanupsRun <=> (~vm.stopped => ensures = cleanups + Bodies(calls))
  /\ CleanupsRun' <=> (~vm'.stopped => ensures' = cleanups' + Bodies(calls'))
BY DEF CleanupsRun, Bodies, BodiesAt

\* An instruction, which may begin an ensure.
LEMMA DispatchCleanups ==
  ASSUME Going, CleanupsRun,
         \/ StepLimitReached \/ Work \/ Fail \/ Exit \/ Return
         \/ CallPlain \/ FirstRefused \/ CallOnError \/ CallEnsure
  PROVE  CleanupsRun'
<1>1. Sound(vm) /\ vm \in Machine /\ calls \in Seq(Call) /\ ensures \in Nat /\ cleanups \in Nat
  BY DEF Going, CallsOK, Counters, Sound
<1>2. Stopped(vm).stopped
  BY <1>1 DEF Stopped, Machine
<1>3. Bodies(calls) \in Nat
  BY <1>1, BodiesFinite
<1>4. ASSUME UNCHANGED <<calls, ensures, cleanups>>, vm'.stopped = vm.stopped \/ vm'.stopped
      PROVE  CleanupsRun'
  BY <1>4 DEF CleanupsRun
<1>5. CASE StepLimitReached
  BY <1>2, <1>4, <1>5 DEF StepLimitReached, history
<1>6. CASE Work
  BY <1>2, <1>4, <1>6 DEF Work, EndInstruction, Allocated
<1>7. CASE Fail
  <2>1. RuntimeError(vm, raised + 1).stopped = vm.stopped
    BY <1>1 DEF RuntimeError, Machine
  <2> QED BY <1>4, <1>7, <2>1 DEF Fail, EndInstruction
<1>8. CASE Exit
  <2>1. Exited(vm, raised + 1).stopped = vm.stopped
    BY <1>1 DEF Exited, Machine
  <2> QED BY <1>4, <1>8, <2>1 DEF Exit, EndInstruction
<1>9. CASE Return
  BY <1>4, <1>9 DEF Return
<1>10. ASSUME NEW kind \in {"plain", "rendering", "guarded", "ensured"},
              calls' = Append(calls, Waiting(kind)),
              cleanups' = cleanups, ensures' = ensures + One(Waiting(kind)),
              vm' = vm \/ vm'.stopped
       PROVE  CleanupsRun'
  <2>1. Bodies(calls') = Bodies(calls) + One(Waiting(kind)) /\ One(Waiting(kind)) \in Nat
    BY <1>1, <1>10, WaitingType, BodiesBegin DEF Kinds, One
  <2> HIDE DEF One
  <2> QED BY <1>1, <1>3, <1>10, <2>1, CleanupsRunIs
<1>11. /\ One(Waiting("plain")) = 0 /\ One(Waiting("rendering")) = 0
       /\ One(Waiting("guarded")) = 0 /\ One(Waiting("ensured")) = 1
  BY DEF One, Waiting
<1>12. CASE CallPlain
  <2>1. PICK kind \in {"plain", "rendering"}, v \in Allocated(vm) : Begin(Waiting(kind), v)
    BY <1>12 DEF CallPlain
  <2>2. vm' = vm \/ vm'.stopped
    BY <1>2, <2>1 DEF Begin, Allocated
  <2>3. One(Waiting(kind)) = 0 /\ calls' = Append(calls, Waiting(kind))
    BY <1>11, <2>1 DEF Begin
  <2> QED BY <1>1, <1>10, <1>12, <2>2, <2>3 DEF CallPlain
<1>13. CASE CallOnError
  BY <1>1, <1>10, <1>11, <1>13 DEF CallOnError, Begin
<1>14. CASE CallEnsure
  BY <1>10, <1>11, <1>14 DEF CallEnsure, Begin
<1>15. CASE FirstRefused
  <2>1. RuntimeError(vm, raised + 1).stopped = vm.stopped
    BY <1>1 DEF RuntimeError, Machine
  <2>2. Bodies(calls') = Bodies(calls)
    <3>1. Bodies(Append(calls, Waiting("rendering"))) = Bodies(calls) + One(Waiting("rendering"))
      BY <1>1, WaitingType, BodiesBegin DEF Kinds
    <3> QED BY <1>3, <1>11, <1>15, <3>1 DEF FirstRefused
  <2>3. UNCHANGED <<ensures, cleanups>> /\ vm' = RuntimeError(vm, raised + 1)
    BY <1>15 DEF FirstRefused, Unasked
  <2> QED BY <2>1, <2>2, <2>3, CleanupsRunIs
<1> QED BY <1>5, <1>6, <1>7, <1>8, <1>9, <1>12, <1>13, <1>14, <1>15

\* A C caller that is no ensure goes on or returns; an ensure that is calls its
\* cleanup, unless the machine is stopped.
LEMMA AnswerCleanups ==
  ASSUME Going, CleanupsRun,
         \/ PlainAnswered \/ RenderingAnswered \/ NextRefused
         \/ GuardedPasses \/ GuardedFails \/ HandlerAnswered
         \/ EnsuredStopped \/ EnsuredFinished \/ EnsuredFailed
         \/ CleanupAnswered \/ AsideAnswered
  PROVE  CleanupsRun'
<1>1. /\ Sound(vm) /\ vm \in Machine /\ calls \in Seq(Call) /\ calls # <<>>
      /\ ensures \in Nat /\ cleanups \in Nat
  BY DEF Going, CallsOK, Counters, Sound
<1>2. Bodies(calls) \in Nat
  BY <1>1, BodiesFinite
<1>3. Going'
  BY AnswerTypes
<1>4. calls' \in Seq(Call)
  BY <1>3 DEF Going, CallsOK
<1>5. ASSUME NEW v, Resume(v) PROVE Bodies(calls') = Bodies(calls) - One(Last(calls)) /\ vm' = v
  BY <1>1, <1>4, <1>5, BodiesAnswer DEF Resume, EndInstruction
<1>6. ASSUME NEW v, NEW c \in Call, c.kind # "ensured", CallNext(c, v)
      PROVE  Bodies(calls') = Bodies(calls) - One(Last(calls)) /\ vm' = v
  BY <1>1, <1>4, <1>6, BodiesAnswer DEF CallNext
<1>7. ASSUME NEW v, CallRefused(v)
      PROVE  Bodies(calls') = Bodies(calls) - One(Last(calls))
  BY <1>5, <1>7 DEF CallRefused
<1>8. ASSUME Bodies(calls') = Bodies(calls) - One(Last(calls)), ensures' = ensures,
             cleanups' = cleanups + One(Last(calls)), vm.stopped => vm'.stopped
      PROVE  CleanupsRun'
  <2>1. One(Last(calls)) \in Nat
    BY DEF One
  <2> HIDE DEF One
  <2> QED BY <1>1, <1>2, <1>8, <2>1, CleanupsRunIs
<1>9. \A kind \in Kinds \ {"ensured"} : Answering(kind) => One(Last(calls)) = 0
  BY DEF Answering, One
<1>10. Answering("ensured") => One(Last(calls)) = 1
  BY DEF Answering, One
<1>11. CASE PlainAnswered
  <2>1. Waiting("plain") \in Call /\ Waiting("plain").kind # "ensured"
    BY WaitingType DEF Kinds
  <2>2. Bodies(calls') = Bodies(calls) - One(Last(calls)) /\ vm'.stopped = vm.stopped
    <3>1. ASSUME CallRefused(vm) PROVE vm'.stopped = vm.stopped
      BY <1>1, <3>1 DEF CallRefused, Resume, EndInstruction, RuntimeError, Machine
    <3> QED BY <1>5, <1>6, <1>7, <1>11, <2>1, <3>1 DEF PlainAnswered
  <2> QED BY <1>1, <1>8, <1>9, <1>11, <2>2 DEF PlainAnswered, Kinds
<1>20. CASE RenderingAnswered
  <2>1. Waiting("rendering") \in Call /\ Waiting("rendering").kind # "ensured"
    BY WaitingType DEF Kinds
  <2>2. PICK v \in Allocated(vm) : Resume(v) \/ RenderNext(v) \/ (~v.hadError /\ CallRefused(v))
    BY <1>20 DEF RenderingAnswered
  <2>3. Bodies(calls') = Bodies(calls) - One(Last(calls))
    BY <1>5, <1>6, <1>7, <2>1, <2>2 DEF RenderNext
  <2>4. v \in Machine /\ (vm.stopped => v.stopped)
    BY <1>1, <2>2, StopSound DEF Allocated, Stopped, Sound
  <2>5. vm' = v \/ vm' = RuntimeError(v, raised + 1)
    BY <2>2 DEF Resume, RenderNext, CallRefused, CallNext, EndInstruction
  <2>6. vm.stopped => vm'.stopped
    BY <2>4, <2>5 DEF RuntimeError, Machine
  <2> QED BY <1>1, <1>8, <1>9, <1>20, <2>3, <2>6 DEF RenderingAnswered, Kinds
<1>21. CASE NextRefused
  <2>1. RuntimeError(vm, raised + 1).stopped = vm.stopped
    BY <1>1 DEF RuntimeError, Machine
  <2> QED BY <1>21, <2>1 DEF NextRefused, Unasked, CleanupsRun
<1>12. CASE GuardedPasses
  BY <1>1, <1>5, <1>8, <1>9, <1>12 DEF GuardedPasses, Kinds
<1>13. CASE GuardedFails
  <2>1. Waiting("handler") \in Call /\ Waiting("handler").kind # "ensured"
    BY WaitingType DEF Kinds
  <2>2. Bodies(calls') = Bodies(calls) - One(Last(calls))
    BY <1>6, <1>7, <1>13, <2>1 DEF GuardedFails
  <2>3. ~vm.stopped
    BY <1>13 DEF GuardedFails, LetsPast
  <2> QED BY <1>1, <1>8, <1>9, <1>13, <2>2, <2>3 DEF GuardedFails, Kinds
<1>14. CASE HandlerAnswered
  BY <1>1, <1>5, <1>8, <1>9, <1>14 DEF HandlerAnswered, Kinds
<1>15. CASE EnsuredStopped
  <2>1. vm'.stopped
    BY <1>5, <1>15 DEF EnsuredStopped
  <2> QED BY <2>1 DEF CleanupsRun
<1>16. CASE EnsuredFinished
  <2>1. Waiting("cleanup") \in Call /\ Waiting("cleanup").kind # "ensured"
    BY WaitingType DEF Kinds
  <2>2. Bodies(calls') = Bodies(calls) - One(Last(calls))
    BY <1>6, <1>7, <1>16, <2>1 DEF EnsuredFinished
  <2> QED BY <1>8, <1>10, <1>16, <2>2 DEF EnsuredFinished
<1>17. CASE EnsuredFailed
  <2>1. InFlight(vm) \subseteq Failures /\ vm.message # LimitText
    BY <1>17 DEF Going, Sound, EnsuredFailed
  <2>2. SetAside(vm) \in Call /\ SetAside(vm).kind # "ensured"
    BY <1>1, <1>17, AsideSound DEF EnsuredFailed, SetAside
  <2>3. Bodies(calls') = Bodies(calls) - One(Last(calls))
    BY <1>5, <1>6, <1>17, <2>2 DEF EnsuredFailed, EnsureFails
  <2> QED BY <1>8, <1>10, <1>17, <2>3 DEF EnsuredFailed
<1>18. CASE CleanupAnswered
  BY <1>1, <1>5, <1>8, <1>9, <1>18 DEF CleanupAnswered, Kinds
<1>19. CASE AsideAnswered
  <2>1. PutBack(vm, Last(calls).saved).stopped = vm.stopped
    BY <1>1 DEF PutBack, Machine
  <2> QED BY <1>1, <1>5, <1>8, <1>9, <1>19, <2>1 DEF AsideAnswered, EnsureFails, Kinds
<1> QED BY <1>11, <1>12, <1>13, <1>14, <1>15, <1>16, <1>17, <1>18, <1>19, <1>20, <1>21

LEMMA InitCleanups == Init => CleanupsRun
<1> SUFFICES ASSUME Init PROVE CleanupsRun
  OBVIOUS
<1>1. BodiesAt(calls) = {}
  BY DEF Init, BodiesAt
<1>2. Bodies(calls) = 0
  BY <1>1, FS_EmptySet DEF Bodies
<1>3. ensures = 0 /\ cleanups = 0
  BY DEF Init
<1>4. ensures = cleanups + Bodies(calls)
  BY <1>2, <1>3
<1> QED BY <1>4, CleanupsRunIs

LEMMA NextCleanups == TypeInv /\ CleanupsRun /\ [Next]_vars => CleanupsRun'
<1> SUFFICES ASSUME TypeInv, CleanupsRun, [Next]_vars PROVE CleanupsRun'
  OBVIOUS
<1>1. CASE UNCHANGED vars
  BY <1>1 DEF vars, history, CleanupsRun
<1>2. CASE Start
  <2>1. calls' = <<Waiting("run")>>
    BY <1>2 DEF Start
  <2>2. BodiesAt(calls') = {}
    BY <2>1 DEF BodiesAt, Waiting
  <2>3. Bodies(calls') = 0
    BY <2>2, FS_EmptySet DEF Bodies
  <2>4. ensures' = 0 /\ cleanups' = 0
    BY <1>2 DEF Start
  <2>5. ensures' = cleanups' + Bodies(calls')
    BY <2>3, <2>4
  <2> QED BY <2>5, CleanupsRunIs
<1>3. CASE Going /\ RunEnds
  <2>1. \A k \in 1 .. Len(calls) : k = Len(calls) => calls[k].kind = "run"
    BY <1>3, LastCall DEF Going, CallsOK, RunEnds, Answering
  <2>2. Len(calls) = 1
    <3>1. Len(calls) \in Nat /\ Len(calls) >= 1
      BY <1>3, LastCall DEF Going, CallsOK
    <3>2. Len(calls) \in 1 .. Len(calls)
      BY <3>1
    <3> QED BY <1>3, <2>1, <3>2 DEF Going, CallsOK, Stacked
  <2>3. BodiesAt(calls) = {}
    BY <2>1, <2>2 DEF BodiesAt
  <2>4. BodiesAt(calls') = {} /\ vm' = vm /\ UNCHANGED <<ensures, cleanups>>
    BY <1>3 DEF RunEnds, BodiesAt
  <2>5. Bodies(calls') = Bodies(calls)
    BY <2>3, <2>4 DEF Bodies
  <2> QED BY <2>4, <2>5, CleanupsRunIs
<1> QED
  BY <1>1, <1>2, <1>3, StepCases, DispatchCleanups, AnswerCleanups

\* Unless a limit stops the run, whatever fails, exits or is refused in a body, in
\* its handlers or in other cleanups, an ensure calls its cleanup, and once.
THEOREM EveryCleanupRuns == Spec => []CleanupsRun
<1>1. Init => CleanupsRun
  BY InitCleanups
<1>2. TypeInv /\ CleanupsRun /\ [Next]_vars => CleanupsRun'
  BY NextCleanups
<1>3. Init => TypeInv
  BY InitTypes
<1>4. TypeInv /\ [Next]_vars => TypeInv'
  BY NextTypes
<1> QED BY <1>1, <1>2, <1>3, <1>4, PTL DEF Spec
-----------------------------------------------------------------------------
(* What becomes of each failure of a run: it is in one place at any time,  *)
(* and what ensures throw away is never the first thing that went wrong.   *)

\* The ensures of a sequence of callers that have set a failure aside, the
\* failures they hold, and those of them that are errors and not exits.
AsidesAt(s) == {k \in 1 .. Len(s) : s[k].kind = "aside"}
Laid(s) == {FailureOf(s[k].saved) : k \in AsidesAt(s)}
Soft(s) == {FailureOf(s[k].saved) : k \in {j \in AsidesAt(s) : ~s[j].saved.exiting}}

\* An inner ensure holds a later failure than an outer one.
Ascending(s) ==
  \A j, k \in AsidesAt(s) : j < k => FailureOf(s[j].saved) < FailureOf(s[k].saved)

\* Of r failures, i is on its way out, l set aside, h given to handlers and d
\* thrown away: one of those and not two; what is on its way out came last, and
\* what has been thrown away came after one that has not.
Books(i, l, h, d, r) ==
  /\ 1 .. r = i \cup l \cup h \cup d
  /\ i \cap (h \cup d) = {} /\ l \cap (h \cup d) = {} /\ h \cap d = {}
  /\ \A e \in i, f \in l : f < e
  /\ \A e \in d : \E f \in (1 .. r) \ d : f < e

\* Exits are no errors: what handlers were given, and what they might be.
ExitsApart(v, s, h, r, x) ==
  /\ x \subseteq 1 .. r
  /\ h \cap x = {} /\ Soft(s) \cap x = {}
  /\ ~v.exiting => InFlight(v) \cap x = {}

\* What stops took the place of, g, is booked beside what handlers were given.
KeptBy(v, s, h, g, d, r, x) ==
  /\ Books(InFlight(v), Laid(s), h \cup g, d, r) /\ h \cap g = {}
  /\ Ascending(s) /\ ExitsApart(v, s, h, r, x)

Kept == KeptBy(vm, calls, handed, outranked, dropped, raised, exits)

-----------------------------------------------------------------------------
(* The books                                                               *)

\* One more failure is raised when none is on its way out.
LEMMA BooksRaise ==
  ASSUME NEW l, NEW h, NEW d, NEW r \in Nat, Books({}, l, h, d, r)
  PROVE  Books({r + 1}, l, h, d, r + 1)
<1>1. 1 .. r + 1 = (1 .. r) \cup {r + 1} /\ r + 1 \notin 1 .. r
  OBVIOUS
<1>2. 1 .. r = l \cup h \cup d
  BY DEF Books
<1>3. \A f \in l : f < r + 1
  BY <1>2
<1>4. \A e \in d : \E f \in (1 .. r + 1) \ d : f < e
  BY <1>1 DEF Books
<1> QED BY <1>1, <1>2, <1>3, <1>4 DEF Books

\* What is on its way out is given to a handler, or set aside.
LEMMA BooksHand ==
  ASSUME NEW i, NEW l, NEW h, NEW d, NEW r, Books(i, l, h, d, r), i \cap l = {}
  PROVE  Books({}, l, h \cup i, d, r)
BY DEF Books

LEMMA BooksAside ==
  ASSUME NEW f, NEW l, NEW h, NEW d, NEW r, Books({f}, l, h, d, r)
  PROVE  Books({}, l \cup {f}, h, d, r)
BY DEF Books

\* What was set aside is put back, and what is on its way out thrown away.
LEMMA BooksBack ==
  ASSUME NEW i, NEW f, NEW l, NEW h, NEW d, NEW r \in Nat, Books(i, l \cup {f}, h, d, r),
         \A g \in l : g < f
  PROVE  Books({f}, l, h, d \cup i, r)
<1>1. /\ 1 .. r = i \cup l \cup {f} \cup h \cup d /\ f \in 1 .. r /\ i \subseteq 1 .. r
      /\ l \subseteq 1 .. r
  BY DEF Books
<1>2. \A e \in i : f < e /\ e \notin l /\ e # f
  <2>1. \A e \in i : f < e /\ \A g \in l : g < e
    BY DEF Books
  <2> QED BY <1>1, <2>1
<1>3. f \notin d \cup i /\ f \notin h /\ f \notin l
  BY <1>1, <1>2 DEF Books
<1>4. ASSUME NEW e \in d \cup i PROVE \E g \in (1 .. r) \ (d \cup i) : g < e
  <2>1. CASE e \in i
    BY <1>1, <1>2, <1>3, <2>1
  <2>2. CASE e \in d
    <3>1. PICK g \in (1 .. r) \ d : g < e
      BY <2>2 DEF Books
    <3>2. e \in 1 .. r
      BY <2>2 DEF Books
    <3>3. CASE g \in i
      BY <1>1, <1>2, <1>3, <3>1, <3>2, <3>3
    <3>4. CASE g \notin i
      BY <3>1, <3>4
    <3> QED BY <3>3, <3>4
  <2> QED BY <2>1, <2>2
<1>5. (d \cup i) \cap ({f} \cup l \cup h) = {}
  BY <1>2, <1>3 DEF Books
<1> QED BY <1>1, <1>3, <1>4, <1>5 DEF Books

\* What is on its way out is set aside nowhere.
LEMMA BooksApart ==
  ASSUME NEW i, NEW l, NEW h, NEW d, NEW r \in Nat, Books(i, l, h, d, r)
  PROVE  i \cap l = {} /\ i \subseteq 1 .. r /\ l \subseteq 1 .. r
<1>1. i \subseteq 1 .. r /\ l \subseteq 1 .. r
  BY DEF Books
<1>2. \A e \in i : e \notin l
  BY <1>1 DEF Books
<1> QED BY <1>1, <1>2

-----------------------------------------------------------------------------
(* The callers                                                             *)

HoldsSame(s, t) == Laid(t) = Laid(s) /\ Soft(t) = Soft(s) /\ (Ascending(s) => Ascending(t))

LEMMA SameAsides ==
  ASSUME NEW s, NEW t, AsidesAt(t) = AsidesAt(s), \A k \in AsidesAt(s) : t[k] = s[k]
  PROVE  HoldsSame(s, t)
BY DEF HoldsSame, Laid, Soft, Ascending

\* A caller comes that has set nothing aside.
LEMMA BeginAsides ==
  ASSUME NEW s \in Seq(Call), NEW c \in Call, c.kind # "aside"
  PROVE  HoldsSame(s, Append(s, c))
<1> DEFINE t == Append(s, c)
           n == Len(s) + 1
<1>1. /\ Len(s) \in Nat /\ Len(t) = n /\ t[n] = c /\ \A k \in 1 .. Len(s) : t[k] = s[k]
  BY LenProperties, AppendProperties
<1>2. 1 .. n = 1 .. Len(s) \cup {n}
  BY <1>1
<1> HIDE DEF t, n
<1>3. AsidesAt(t) = AsidesAt(s) /\ \A k \in AsidesAt(s) : t[k] = s[k]
  BY <1>1, <1>2 DEF AsidesAt
<1>4. HoldsSame(s, t)
  BY <1>3, SameAsides
<1> QED BY <1>4 DEF t

\* The last caller goes.
LEMMA FrontAsides ==
  ASSUME NEW s \in Seq(Call), s # <<>>
  PROVE  /\ AsidesAt(Front(s)) = AsidesAt(s) \ {Len(s)}
         /\ \A k \in AsidesAt(Front(s)) : Front(s)[k] = s[k]
<1> DEFINE n == Len(s)
           t == Front(s)
<1>1. /\ n \in Nat /\ n >= 1
      /\ Len(t) = n - 1 /\ \A k \in 1 .. n - 1 : t[k] = s[k]
  BY LastCall
<1>2. 1 .. n - 1 = (1 .. n) \ {n}
  BY <1>1
<1> HIDE DEF t
<1> QED BY <1>1, <1>2 DEF AsidesAt, t

LEMMA FrontSame ==
  ASSUME NEW s \in Seq(Call), s # <<>>, Last(s).kind # "aside"
  PROVE  HoldsSame(s, Front(s))
<1>1. Len(s) \notin AsidesAt(s)
  BY LastCall DEF AsidesAt
<1>2. AsidesAt(Front(s)) = AsidesAt(s) /\ \A k \in AsidesAt(s) : Front(s)[k] = s[k]
  BY <1>1, FrontAsides
<1> QED BY <1>2, SameAsides

\* The last caller goes on as another.
LEMMA NextCall ==
  ASSUME NEW s \in Seq(Call), s # <<>>, NEW c \in Call
  PROVE  LET t == [s EXCEPT ![Len(s)] = c]
             n == Len(s) IN
         /\ n \in Nat /\ n >= 1 /\ Len(t) = n /\ t[n] = c
         /\ \A k \in 1 .. n : k # n => t[k] = s[k]
<1>1. Len(s) \in Nat /\ Len(s) >= 1 /\ Len(s) \in 1 .. Len(s)
  BY LastCall
<1> QED BY <1>1, ExceptSeq

LEMMA ReplaceLast ==
  ASSUME NEW n \in Nat, n >= 1, NEW s, NEW t, Len(s) = n, Len(t) = n,
         \A k \in 1 .. n : k # n => t[k] = s[k], s[n].kind # "aside"
  PROVE  /\ n \notin AsidesAt(s)
         /\ t[n].kind # "aside" => AsidesAt(t) = AsidesAt(s)
         /\ t[n].kind = "aside" => AsidesAt(t) = AsidesAt(s) \cup {n}
         /\ \A k \in AsidesAt(s) : t[k] = s[k] /\ k \in Nat /\ k < n
<1>1. \A k \in AsidesAt(s) : k \in 1 .. n /\ k # n
  BY DEF AsidesAt
<1>2. \A k \in AsidesAt(s) : t[k] = s[k] /\ k \in Nat /\ k < n
  BY <1>1
<1>3. \A k \in 1 .. n : k # n => (k \in AsidesAt(t) <=> k \in AsidesAt(s))
  BY DEF AsidesAt
<1>4. AsidesAt(t) \subseteq 1 .. n /\ AsidesAt(s) \subseteq 1 .. n /\ n \in 1 .. n /\ n \notin AsidesAt(s)
  BY DEF AsidesAt
<1>5. n \in AsidesAt(t) <=> t[n].kind = "aside"
  BY <1>4 DEF AsidesAt
<1>6. ASSUME t[n].kind # "aside" PROVE AsidesAt(t) = AsidesAt(s)
  <2>1. n \notin AsidesAt(t)
    BY <1>5, <1>6
  <2> QED BY <1>3, <1>4, <2>1
<1>7. ASSUME t[n].kind = "aside" PROVE AsidesAt(t) = AsidesAt(s) \cup {n}
  BY <1>3, <1>4, <1>5, <1>7
<1> QED BY <1>2, <1>4, <1>6, <1>7

LEMMA NextSame ==
  ASSUME NEW s \in Seq(Call), s # <<>>, Last(s).kind # "aside", NEW c \in Call, c.kind # "aside"
  PROVE  HoldsSame(s, [s EXCEPT ![Len(s)] = c])
<1> DEFINE t == [s EXCEPT ![Len(s)] = c]
           n == Len(s)
<1>1. /\ n \in Nat /\ n >= 1 /\ Len(t) = n /\ t[n] = c
      /\ \A k \in 1 .. n : k # n => t[k] = s[k]
  BY NextCall
<1>2. s[n].kind # "aside"
  BY LastCall
<1> HIDE DEF t
<1>3. AsidesAt(t) = AsidesAt(s) /\ \A k \in AsidesAt(s) : t[k] = s[k]
  BY <1>1, <1>2, ReplaceLast
<1>4. HoldsSame(s, t)
  BY <1>3, SameAsides
<1> QED BY <1>4 DEF t

\* The last caller gives back what it had set aside, the latest of what is held.
LEMMA GivesBack ==
  ASSUME NEW s \in Seq(Call), s # <<>>, Last(s).kind = "aside", Ascending(s)
  PROVE  LET f == FailureOf(Last(s).saved)
             t == Front(s) IN
         /\ Laid(s) = Laid(t) \cup {f} /\ \A g \in Laid(t) : g < f
         /\ Soft(t) \subseteq Soft(s) /\ (~Last(s).saved.exiting => f \in Soft(s))
         /\ Ascending(t)
<1> DEFINE n == Len(s)
           f == FailureOf(Last(s).saved)
           t == Front(s)
<1>1. n \in Nat /\ n >= 1 /\ Last(s) = s[n] /\ n \in AsidesAt(s)
  BY LastCall DEF AsidesAt
<1>2. AsidesAt(t) = AsidesAt(s) \ {n} /\ \A k \in AsidesAt(t) : t[k] = s[k]
  BY FrontAsides
<1>3. \A k \in AsidesAt(t) : k < n
  BY <1>1, <1>2 DEF AsidesAt
<1> HIDE DEF n, t
<1>4. Laid(s) = Laid(t) \cup {f}
  BY <1>1, <1>2 DEF Laid
<1>5. \A g \in Laid(t) : g < f
  BY <1>1, <1>2, <1>3 DEF Laid, Ascending
<1>6. Soft(t) \subseteq Soft(s) /\ (~Last(s).saved.exiting => f \in Soft(s))
  BY <1>1, <1>2 DEF Soft
<1>7. Ascending(t)
  BY <1>2 DEF Ascending
<1> QED BY <1>4, <1>5, <1>6, <1>7 DEF t

\* Another is held, at the end of the callers, and it is the latest.
LEMMA OneMoreHeld ==
  ASSUME NEW n \in Nat, NEW s, NEW t, NEW f, AsidesAt(t) = AsidesAt(s) \cup {n},
         \A k \in AsidesAt(s) : t[k] = s[k] /\ k \in Nat /\ k < n,
         f = FailureOf(t[n].saved), \A g \in Laid(s) : g < f, Ascending(s)
  PROVE  /\ Laid(t) = Laid(s) \cup {f} /\ Ascending(t)
         /\ Soft(t) \subseteq Soft(s) \cup {f}
         /\ t[n].saved.exiting => Soft(t) \subseteq Soft(s)
<1>1. Laid(t) = Laid(s) \cup {f}
  BY DEF Laid
<1>2. Soft(t) \subseteq Soft(s) \cup {f}
  BY DEF Soft
<1>3. t[n].saved.exiting => Soft(t) \subseteq Soft(s)
  BY DEF Soft
<1>4. ASSUME NEW j \in AsidesAt(t), NEW k \in AsidesAt(t), j < k
      PROVE  FailureOf(t[j].saved) < FailureOf(t[k].saved)
  <2>1. j \in AsidesAt(s)
    <3>1. SUFFICES ASSUME j = n PROVE FALSE
      OBVIOUS
    <3>2. k = n \/ k < n
      OBVIOUS
    <3>3. k \in Nat
      OBVIOUS
    <3> QED BY <3>1, <3>2, <3>3, <1>4
  <2>2. t[j] = s[j] /\ FailureOf(s[j].saved) \in Laid(s)
    BY <2>1 DEF Laid
  <2>3. CASE k = n
    BY <2>2, <2>3
  <2>4. CASE k \in AsidesAt(s)
    BY <1>4, <2>1, <2>4 DEF Ascending
  <2> QED BY <2>3, <2>4
<1>5. Ascending(t)
  BY <1>4 DEF Ascending
<1> QED BY <1>1, <1>2, <1>3, <1>5

LEMMA TakesHold ==
  ASSUME NEW s \in Seq(Call), s # <<>>, Last(s).kind # "aside", Ascending(s),
         NEW c \in Call, c.kind = "aside", \A g \in Laid(s) : g < FailureOf(c.saved)
  PROVE  LET f == FailureOf(c.saved)
             t == [s EXCEPT ![Len(s)] = c] IN
         /\ Laid(t) = Laid(s) \cup {f} /\ Ascending(t)
         /\ Soft(t) \subseteq Soft(s) \cup {f} /\ (c.saved.exiting => Soft(t) \subseteq Soft(s))
<1> DEFINE t == [s EXCEPT ![Len(s)] = c]
           n == Len(s)
           f == FailureOf(c.saved)
<1>1. /\ n \in Nat /\ n >= 1 /\ Len(t) = n /\ t[n] = c
      /\ \A k \in 1 .. n : k # n => t[k] = s[k]
  BY NextCall
<1>2. s[n].kind # "aside"
  BY LastCall
<1> HIDE DEF t
<1>3. /\ AsidesAt(t) = AsidesAt(s) \cup {n}
      /\ \A k \in AsidesAt(s) : t[k] = s[k] /\ k \in Nat /\ k < n
  BY <1>1, <1>2, ReplaceLast
<1> HIDE DEF n
<1>4. f = FailureOf(t[n].saved)
  BY <1>1
<1>5. \A g \in Laid(s) : g < f
  OBVIOUS
<1> HIDE DEF f
<1>6. /\ Laid(t) = Laid(s) \cup {f} /\ Ascending(t)
      /\ Soft(t) \subseteq Soft(s) \cup {f}
      /\ t[n].saved.exiting => Soft(t) \subseteq Soft(s)
  BY <1>1, <1>3, <1>4, <1>5, OneMoreHeld
<1> QED BY <1>1, <1>6 DEF t, f

-----------------------------------------------------------------------------
(* What a step does to the books, for any flags v before and w after it    *)

\* Errors that are set aside are set aside, and so were raised.
LEMMA KeptBounds ==
  ASSUME NEW v, NEW s, NEW h, NEW g, NEW d, NEW r \in Nat, NEW x, KeptBy(v, s, h, g, d, r, x)
  PROVE  /\ Soft(s) \subseteq Laid(s) /\ Laid(s) \subseteq 1 .. r
         /\ h \cup g \subseteq 1 .. r /\ InFlight(v) \subseteq 1 .. r
         /\ InFlight(v) \cap (h \cup g) = {}
         /\ InFlight(v) \cap Laid(s) = {} /\ r + 1 \notin 1 .. r
<1>1. Soft(s) \subseteq Laid(s)
  BY DEF Soft, Laid
<1>2. Books(InFlight(v), Laid(s), h \cup g, d, r)
  BY DEF KeptBy
<1>3. h \cup g \subseteq 1 .. r /\ InFlight(v) \cap (h \cup g) = {}
  BY <1>2 DEF Books
<1> QED BY <1>1, <1>2, <1>3, BooksApart

\* Nothing.
LEMMA KeptSame ==
  ASSUME NEW v, NEW w, NEW s, NEW t, NEW h, NEW g, NEW d, NEW r \in Nat, NEW x,
         KeptBy(v, s, h, g, d, r, x), HoldsSame(s, t), InFlight(w) = InFlight(v),
         w.exiting = v.exiting \/ InFlight(w) = {}
  PROVE  KeptBy(w, t, h, g, d, r, x)
BY DEF KeptBy, HoldsSame, ExitsApart

\* Something fails or exits, when nothing was on its way out.
LEMMA KeptError ==
  ASSUME NEW v, NEW w, NEW s, NEW t, NEW h, NEW g, NEW d, NEW r \in Nat, NEW x,
         KeptBy(v, s, h, g, d, r, x), HoldsSame(s, t), InFlight(v) = {}, InFlight(w) = {r + 1}
  PROVE  KeptBy(w, t, h, g, d, r + 1, x)
<1>1. Books({r + 1}, Laid(s), h \cup g, d, r + 1)
  BY BooksRaise DEF KeptBy
<1>2. x \subseteq 1 .. r /\ h \cap x = {} /\ Soft(s) \cap x = {}
  BY DEF KeptBy, ExitsApart
<1>3. r + 1 \notin 1 .. r /\ 1 .. r \subseteq 1 .. r + 1
  OBVIOUS
<1>4. ExitsApart(w, t, h, r + 1, x)
  BY <1>2, <1>3 DEF ExitsApart, HoldsSame
<1>5. Ascending(t) /\ Laid(t) = Laid(s)
  BY DEF KeptBy, HoldsSame
<1> QED BY <1>1, <1>4, <1>5 DEF KeptBy

LEMMA KeptExit ==
  ASSUME NEW v, NEW w, NEW s, NEW t, NEW h, NEW g, NEW d, NEW r \in Nat, NEW x,
         KeptBy(v, s, h, g, d, r, x), HoldsSame(s, t), InFlight(v) = {}, InFlight(w) = {r + 1},
         w.exiting
  PROVE  KeptBy(w, t, h, g, d, r + 1, x \cup {r + 1})
<1>1. Books({r + 1}, Laid(s), h \cup g, d, r + 1)
  BY BooksRaise DEF KeptBy
<1>2. x \subseteq 1 .. r /\ h \cap x = {} /\ Soft(s) \cap x = {}
  BY DEF KeptBy, ExitsApart
<1>3. Soft(s) \subseteq 1 .. r /\ h \subseteq 1 .. r
  BY KeptBounds
<1>4. r + 1 \notin 1 .. r /\ 1 .. r \subseteq 1 .. r + 1 /\ r + 1 \in 1 .. r + 1
  OBVIOUS
<1>5. /\ x \cup {r + 1} \subseteq 1 .. r + 1
      /\ h \cap (x \cup {r + 1}) = {} /\ Soft(s) \cap (x \cup {r + 1}) = {}
  BY <1>2, <1>3, <1>4
<1>6. ExitsApart(w, t, h, r + 1, x \cup {r + 1})
  BY <1>5 DEF ExitsApart, HoldsSame
<1>7. Ascending(t) /\ Laid(t) = Laid(s)
  BY DEF KeptBy, HoldsSame
<1> QED BY <1>1, <1>6, <1>7 DEF KeptBy

\* A handler is given an error.
LEMMA KeptHanded ==
  ASSUME NEW v, NEW w, NEW s, NEW t, NEW h, NEW g, NEW d, NEW r \in Nat, NEW x,
         KeptBy(v, s, h, g, d, r, x), HoldsSame(s, t), ~v.exiting, InFlight(w) = {}
  PROVE  KeptBy(w, t, h \cup InFlight(v), g, d, r, x)
<1>1. InFlight(v) \cap Laid(s) = {}
  BY KeptBounds
<1>2. Books({}, Laid(s), (h \cup InFlight(v)) \cup g, d, r)
  <2>1. Books({}, Laid(s), (h \cup g) \cup InFlight(v), d, r)
    BY <1>1, BooksHand DEF KeptBy
  <2>2. (h \cup g) \cup InFlight(v) = (h \cup InFlight(v)) \cup g
    OBVIOUS
  <2> QED BY <2>1, <2>2
<1>4. (h \cup InFlight(v)) \cap g = {}
  BY KeptBounds DEF KeptBy
<1>3. ExitsApart(w, t, h \cup InFlight(v), r, x)
  BY DEF KeptBy, ExitsApart, HoldsSame
<1> QED BY <1>2, <1>3, <1>4 DEF KeptBy, HoldsSame

\* A stop takes the place of whatever is on its way out.
LEMMA KeptOutranked ==
  ASSUME NEW v, NEW w, NEW s, NEW t, NEW h, NEW g, NEW d, NEW r \in Nat, NEW x,
         KeptBy(v, s, h, g, d, r, x), HoldsSame(s, t), InFlight(w) = {}
  PROVE  KeptBy(w, t, h, g \cup InFlight(v), d, r, x)
<1>1. InFlight(v) \cap Laid(s) = {} /\ InFlight(v) \cap h = {}
  BY KeptBounds
<1>2. Books({}, Laid(s), (h \cup g) \cup InFlight(v), d, r)
  BY <1>1, BooksHand DEF KeptBy
<1>3. (h \cup g) \cup InFlight(v) = h \cup (g \cup InFlight(v))
  OBVIOUS
<1>4. Books({}, Laid(t), h \cup (g \cup InFlight(v)), d, r)
  BY <1>2, <1>3 DEF HoldsSame
<1>5. h \cap (g \cup InFlight(v)) = {}
  BY <1>1 DEF KeptBy
<1>6. ExitsApart(w, t, h, r, x)
  BY DEF KeptBy, ExitsApart, HoldsSame
<1> QED BY <1>4, <1>5, <1>6 DEF KeptBy, HoldsSame

\* An ensure sets a failure aside.
LEMMA KeptAside ==
  ASSUME NEW v, NEW w, NEW s \in Seq(Call), NEW h, NEW g, NEW d, NEW r \in Nat, NEW x,
         KeptBy(v, s, h, g, d, r, x), s # <<>>, Last(s).kind # "aside",
         NEW c \in Call, c.kind = "aside", c.saved.exiting = v.exiting, v.exiting \in BOOLEAN,
         InFlight(v) = {FailureOf(c.saved)}, InFlight(w) = {}
  PROVE  KeptBy(w, [s EXCEPT ![Len(s)] = c], h, g, d, r, x)
<1> DEFINE t == [s EXCEPT ![Len(s)] = c]
           f == FailureOf(c.saved)
<1>1. Books({f}, Laid(s), h \cup g, d, r) /\ Ascending(s)
  BY DEF KeptBy
<1>2. \A e \in Laid(s) : e < f
  BY <1>1 DEF Books
<1>3. /\ Laid(t) = Laid(s) \cup {f} /\ Ascending(t)
      /\ Soft(t) \subseteq Soft(s) \cup {f} /\ (c.saved.exiting => Soft(t) \subseteq Soft(s))
  BY <1>1, <1>2, TakesHold
<1> HIDE DEF t
<1>4. Books({}, Laid(s) \cup {f}, h \cup g, d, r)
  BY <1>1, BooksAside
<1>5. Soft(t) \cap x = {}
  BY <1>3 DEF KeptBy, ExitsApart
<1>6. ExitsApart(w, t, h, r, x)
  BY <1>5 DEF KeptBy, ExitsApart
<1>7. KeptBy(w, t, h, g, d, r, x)
  BY <1>3, <1>4, <1>6 DEF KeptBy
<1> QED BY <1>7 DEF t

\* It puts it back, over what its cleanup made of it.
LEMMA KeptBack ==
  ASSUME NEW v, NEW w, NEW s \in Seq(Call), NEW h, NEW g, NEW d, NEW r \in Nat, NEW x,
         KeptBy(v, s, h, g, d, r, x), s # <<>>, Last(s).kind = "aside",
         w.exiting = Last(s).saved.exiting, InFlight(w) = {FailureOf(Last(s).saved)}
  PROVE  LET f == FailureOf(Last(s).saved) IN
         KeptBy(w, Front(s), h, g, d \cup ((InFlight(v) \cup {f}) \ InFlight(w)), r, x)
<1> DEFINE f == FailureOf(Last(s).saved)
           t == Front(s)
<1>1. Books(InFlight(v), Laid(s), h \cup g, d, r) /\ Ascending(s)
  BY DEF KeptBy
<1>2. /\ Laid(s) = Laid(t) \cup {f} /\ \A e \in Laid(t) : e < f
      /\ Soft(t) \subseteq Soft(s) /\ (~Last(s).saved.exiting => f \in Soft(s))
      /\ Ascending(t)
  BY <1>1, GivesBack
<1> HIDE DEF t, f
<1>3. Books({f}, Laid(t), h \cup g, d \cup InFlight(v), r)
  BY <1>1, <1>2, BooksBack
<1>4. InFlight(v) = (InFlight(v) \cup {f}) \ InFlight(w) /\ InFlight(w) = {f}
  <2>1. InFlight(v) \cap Laid(s) = {}
    BY KeptBounds
  <2>2. InFlight(w) = {f}
    BY DEF f
  <2> QED BY <1>2, <2>1, <2>2
<1>5. ExitsApart(w, t, h, r, x)
  BY <1>2, <1>4 DEF KeptBy, ExitsApart
<1>6. KeptBy(w, t, h, g, d \cup InFlight(v), r, x)
  BY <1>2, <1>3, <1>4, <1>5 DEF KeptBy
<1> QED BY <1>4, <1>6 DEF t, f

\* The cleanup of a failure is refused, and the refusal forgotten.
LEMMA KeptRefused ==
  ASSUME NEW v, NEW w, NEW s, NEW t, NEW h, NEW g, NEW d, NEW r \in Nat, NEW x, NEW f,
         KeptBy(v, s, h, g, d, r, x), HoldsSame(s, t),
         InFlight(v) = {f}, InFlight(w) = {f}, w.exiting = v.exiting
  PROVE  KeptBy(w, t, h, g, d \cup (({r + 1} \cup {f}) \ InFlight(w)), r + 1, x)
<1>1. Books({f}, Laid(s), h \cup g, d, r)
  BY DEF KeptBy
<1>2. \A e \in Laid(s) : e < f
  BY <1>1 DEF Books
<1>3. f \in 1 .. r /\ r + 1 # f /\ 1 .. r \subseteq 1 .. r + 1
  <2>1. InFlight(v) \subseteq 1 .. r
    BY KeptBounds
  <2>2. f \in 1 .. r
    BY <2>1
  <2> QED BY <2>2
<1>4. Books({}, Laid(s) \cup {f}, h \cup g, d, r)
  BY <1>1, BooksAside
<1>5. Books({r + 1}, Laid(s) \cup {f}, h \cup g, d, r + 1)
  BY <1>4, BooksRaise
<1>6. Books({f}, Laid(s), h \cup g, d \cup {r + 1}, r + 1)
  <2>1. r + 1 \in Nat
    OBVIOUS
  <2> QED BY <1>2, <1>5, <2>1, BooksBack
<1>7. {r + 1} = ({r + 1} \cup {f}) \ InFlight(w)
  BY <1>3
<1>8. ExitsApart(w, t, h, r + 1, x)
  BY <1>3 DEF KeptBy, ExitsApart, HoldsSame
<1>9. Ascending(t) /\ Laid(t) = Laid(s)
  BY DEF KeptBy, HoldsSame
<1> QED BY <1>6, <1>7, <1>8, <1>9 DEF KeptBy

-----------------------------------------------------------------------------
(* The flags                                                               *)

LEMMA FlightBasics ==
  ASSUME NEW v, Sound(v)
  PROVE  /\ ~v.hadError => InFlight(v) = {} /\ ~v.exiting
         /\ v.exiting \in BOOLEAN /\ v.hadError \in BOOLEAN /\ v.stopped \in BOOLEAN
BY DEF Sound, Machine, InFlight

\* Failing and exiting, with the flag down.
LEMMA RaiseFlight ==
  ASSUME NEW v, Sound(v), ~v.hadError, NEW e \in Failures
  PROVE  /\ InFlight(RuntimeError(v, e)) = {e}
         /\ InFlight(Exited(v, e)) = {e} /\ Exited(v, e).exiting
<1>1. e # LimitText
  BY DEF Failures, LimitText
<1>2. ~v.exiting /\ v \in Machine
  BY DEF Sound, Machine
<1> QED BY <1>1, <1>2 DEF InFlight, RuntimeError, Exited, Machine

\* A limit met: the machine was stopped already, or is now, and reports nothing else.
LEMMA StopFlight ==
  ASSUME NEW v, Sound(v), NEW w \in {Stopped(v)} \cup Allocated(v)
  PROVE  w = v \/ (w.stopped /\ InFlight(w) = {})
<1>1. v \in Machine
  BY DEF Sound
<1>2. Stopped(v) = v \/ (Stopped(v).stopped /\ InFlight(Stopped(v)) = {})
  BY <1>1 DEF InFlight, Stopped, Machine
<1> QED BY <1>2 DEF Allocated

\* What is lifted out is what is set aside, and is put back.
LEMMA LiftFlight ==
  ASSUME NEW v, Sound(v), v.hadError, ~v.stopped
  PROVE  /\ InFlight(v) = {FailureOf(SetAside(v).saved)}
         /\ SetAside(v).saved.exiting = v.exiting
<1>1. v \in Machine /\ v.message # LimitText
  BY DEF Sound
<1> QED BY <1>1 DEF InFlight, SetAside, FailureOf, Machine

LEMMA BackFlight ==
  ASSUME NEW v, Sound(v), NEW s \in Saved, FailureOf(s) \in Failures
  PROVE  InFlight(PutBack(v, s)) = {FailureOf(s)} /\ PutBack(v, s).exiting = s.exiting
<1>1. v \in Machine
  BY DEF Sound
<1>2. s.message # LimitText /\ s.exiting \in BOOLEAN
  BY DEF Saved, Failures, NoText, LimitText
<1> QED BY <1>1, <1>2 DEF InFlight, PutBack, FailureOf, Machine

-----------------------------------------------------------------------------
(* The steps                                                               *)

\* A limit met, or not, in a step that disturbs nothing that is held.
LEMMA StopKept ==
  ASSUME Going, Kept, NEW v \in {Stopped(vm)} \cup Allocated(vm), Outranks(v),
         NEW t, HoldsSame(calls, t)
  PROVE  KeptBy(v, t, handed, outranked', dropped, raised, exits)
<1>1. Sound(vm) /\ raised \in Nat
  BY DEF Going, Counters
<1>2. CASE v = vm
  <2>1. outranked' = outranked
    BY <1>2 DEF Outranks
  <2> QED BY <1>1, <1>2, <2>1, KeptSame DEF Kept
<1>3. CASE InFlight(v) = {}
  <2>1. outranked' = outranked \cup InFlight(vm)
    BY <1>3 DEF Outranks
  <2> QED BY <1>1, <1>3, <2>1, KeptOutranked DEF Kept
<1> QED BY <1>1, <1>2, <1>3, StopFlight

LEMMA DispatchKept ==
  ASSUME Going, Kept,
         \/ StepLimitReached \/ Work \/ Fail \/ Exit \/ Return
         \/ CallPlain \/ FirstRefused \/ CallOnError \/ CallEnsure
  PROVE  Kept'
<1>1. /\ Sound(vm) /\ calls \in Seq(Call) /\ calls # <<>> /\ raised \in Nat
      /\ handed \subseteq Failures
  BY DEF Going, CallsOK, Counters
<1>2. /\ KeptBy(vm, calls, handed, outranked, dropped, raised, exits)
      /\ Ready => InFlight(vm) = {}
  BY <1>1, FlightBasics DEF Kept, Ready
<1>3. HoldsSame(calls, calls)
  BY SameAsides
<1>4. \A kind \in Kinds \ {"aside"} : HoldsSame(calls, Append(calls, Waiting(kind)))
  BY <1>1, WaitingType, BeginAsides
<1>5. CASE StepLimitReached
  <2>1. KeptBy(Stopped(vm), calls, handed, outranked', dropped, raised, exits)
    BY <1>3, <1>5, StopKept DEF StepLimitReached
  <2> QED BY <1>5, <2>1 DEF StepLimitReached, Kept
<1>6. CASE Work
  <2>1. PICK v \in Allocated(vm) : EndInstruction(v) /\ Outranks(v)
    BY <1>6 DEF Work
  <2>2. KeptBy(v, calls, handed, outranked', dropped, raised, exits)
    BY <1>3, <2>1, StopKept
  <2> QED BY <1>6, <2>1, <2>2 DEF Work, EndInstruction, Kept
<1>7. CASE Fail
  <2> DEFINE v == RuntimeError(vm, raised + 1)
  <2>1. raised + 1 \in Failures /\ ~vm.hadError
    BY <1>7, NextFailure DEF Fail, Ready, Going
  <2>2. Sound(v) /\ InFlight(v) = {raised + 1}
    BY <1>1, <2>1, RaiseSound, RaiseFlight
  <2> HIDE DEF v
  <2>3. KeptBy(v, calls, handed, outranked, dropped, raised + 1, exits)
    BY <1>1, <1>2, <1>3, <1>7, <2>2, KeptError DEF Fail
  <2>4. vm' = v
    BY <1>7 DEF Fail, EndInstruction, v
  <2> QED BY <1>7, <2>3, <2>4 DEF Fail, Kept
<1>8. CASE Exit
  <2> DEFINE v == Exited(vm, raised + 1)
  <2>1. raised + 1 \in Failures /\ ~vm.hadError
    BY <1>8, NextFailure DEF Exit, Ready, Going
  <2>2. Sound(v) /\ InFlight(v) = {raised + 1} /\ v.exiting
    BY <1>1, <2>1, RaiseSound, RaiseFlight
  <2> HIDE DEF v
  <2>3. KeptBy(v, calls, handed, outranked, dropped, raised + 1, exits \cup {raised + 1})
    BY <1>1, <1>2, <1>3, <1>8, <2>2, KeptExit DEF Exit
  <2>4. vm' = v
    BY <1>8 DEF Exit, EndInstruction, v
  <2> QED BY <1>8, <2>3, <2>4 DEF Exit, Kept
<1>9. CASE Return
  BY <1>2, <1>9 DEF Return, Kept
<1>13. CASE FirstRefused
  <2> DEFINE v == RuntimeError(vm, raised + 1)
             t == Append(calls, Waiting("rendering"))
  <2>1. raised + 1 \in Failures /\ ~vm.hadError
    BY <1>13, NextFailure DEF FirstRefused, Unasked, Ready, Going
  <2>2. InFlight(v) = {raised + 1} /\ InFlight(vm) = {}
    BY <1>1, <2>1, RaiseFlight, FlightBasics
  <2>3. HoldsSame(calls, t)
    BY <1>4 DEF Kinds
  <2>4. vm' = v /\ calls' = t /\ raised' = raised + 1 /\ UNCHANGED <<handed, outranked, dropped, exits>>
    BY <1>13 DEF FirstRefused, Unasked
  <2> HIDE DEF v, t
  <2>5. KeptBy(v, t, handed, outranked, dropped, raised + 1, exits)
    BY <1>1, <1>2, <2>2, <2>3, KeptError
  <2> QED BY <2>4, <2>5 DEF Kept
<1>10. CASE CallPlain
  <2>1. PICK kind \in {"plain", "rendering"}, v \in Allocated(vm) : Begin(Waiting(kind), v)
    BY <1>10 DEF CallPlain
  <2>2. InFlight(vm) = {} /\ UNCHANGED <<handed, outranked, dropped, raised, exits>>
    BY <1>2, <1>10 DEF CallPlain
  <2>3. InFlight(v) = {}
    BY <1>1, <2>2, StopFlight
  <2>4. KeptBy(v, Append(calls, Waiting(kind)), handed, outranked, dropped, raised, exits)
    BY <1>1, <1>2, <1>4, <2>2, <2>3, KeptSame DEF Kinds
  <2> QED BY <2>1, <2>2, <2>4 DEF Begin, Kept
<1>11. CASE CallOnError
  <2>1. KeptBy(vm, Append(calls, Waiting("guarded")), handed, outranked, dropped, raised, exits)
    BY <1>1, <1>2, <1>4, KeptSame DEF Kinds
  <2> QED BY <1>11, <2>1 DEF CallOnError, Begin, Kept
<1>12. CASE CallEnsure
  <2>1. KeptBy(vm, Append(calls, Waiting("ensured")), handed, outranked, dropped, raised, exits)
    BY <1>1, <1>2, <1>4, KeptSame DEF Kinds
  <2> QED BY <1>12, <2>1 DEF CallEnsure, Begin, Kept
<1> QED BY <1>5, <1>6, <1>7, <1>8, <1>9, <1>10, <1>11, <1>12, <1>13

\* The C caller returns to the instruction that sent it, or is refused, or calls
\* another block, when nothing it held is disturbed.
LEMMA ResumeKept ==
  ASSUME Going, Kept, Last(calls).kind # "aside", Resume(vm),
         UNCHANGED <<raised, exits, handed, outranked, dropped>>
  PROVE  Kept'
<1>1. calls \in Seq(Call) /\ calls # <<>> /\ raised \in Nat
  BY DEF Going, CallsOK, Counters
<1>2. HoldsSame(calls, Front(calls))
  BY <1>1, FrontSame
<1>3. KeptBy(vm, Front(calls), handed, outranked, dropped, raised, exits)
  BY <1>1, <1>2, KeptSame DEF Kept
<1> QED BY <1>3 DEF Resume, EndInstruction, Kept

LEMMA RefusedKept ==
  ASSUME Going, Last(calls).kind # "aside", NEW v, Sound(v), ~v.hadError, NEW h,
         KeptBy(v, calls, h, outranked, dropped, raised, exits), CallRefused(v), handed' = h,
         UNCHANGED <<exits, outranked, dropped>>
  PROVE  Kept'
<1> DEFINE w == RuntimeError(v, raised + 1)
<1>1. calls \in Seq(Call) /\ calls # <<>> /\ raised \in Nat /\ raised + 1 \in Failures
  BY NextFailure DEF Going, CallsOK, Counters, CallRefused
<1>2. HoldsSame(calls, Front(calls))
  BY <1>1, FrontSame
<1>3. InFlight(w) = {raised + 1} /\ InFlight(v) = {}
  BY <1>1, RaiseFlight, FlightBasics
<1>4. vm' = w
  BY DEF Resume, EndInstruction, CallRefused
<1> HIDE DEF w
<1>5. KeptBy(w, Front(calls), h, outranked, dropped, raised + 1, exits)
  BY <1>1, <1>2, <1>3, KeptError
<1> QED BY <1>4, <1>5 DEF Resume, CallRefused, Kept

LEMMA CallNextKept ==
  ASSUME Going, Last(calls).kind # "aside", NEW v, NEW h,
         KeptBy(v, calls, h, outranked, dropped, raised, exits), handed' = h,
         NEW kind \in Kinds \ {"aside"}, CallNext(Waiting(kind), v),
         UNCHANGED <<raised, exits, outranked, dropped>>
  PROVE  Kept'
<1>1. calls \in Seq(Call) /\ calls # <<>> /\ raised \in Nat
  BY DEF Going, CallsOK, Counters
<1>2. HoldsSame(calls, [calls EXCEPT ![Len(calls)] = Waiting(kind)])
  BY <1>1, WaitingType, NextSame
<1>3. KeptBy(v, [calls EXCEPT ![Len(calls)] = Waiting(kind)], h, outranked, dropped, raised, exits)
  BY <1>1, <1>2, KeptSame
<1> QED BY <1>3 DEF CallNext, Kept

\* The renderer is done, goes on, or fails over the text, whatever is pending.
LEMMA RenderingKept ==
  ASSUME Going, Kept, RenderingAnswered
  PROVE  Kept'
<1>1. /\ Sound(vm) /\ calls \in Seq(Call) /\ calls # <<>> /\ raised \in Nat
      /\ Last(calls).kind # "aside" /\ UNCHANGED <<exits, handed, dropped>>
  BY DEF Going, CallsOK, Counters, RenderingAnswered, Answering
<1>2. PICK v \in Allocated(vm) :
        /\ Outranks(v)
        /\ \/ Resume(v) /\ UNCHANGED <<late, raised>>
           \/ RenderNext(v) /\ UNCHANGED raised
           \/ ~v.hadError /\ CallRefused(v) /\ UNCHANGED late
  BY DEF RenderingAnswered
<1>3. CASE Resume(v) /\ UNCHANGED raised
  <2>1. HoldsSame(calls, Front(calls))
    BY <1>1, FrontSame
  <2>2. KeptBy(v, Front(calls), handed, outranked', dropped, raised, exits)
    BY <1>2, <2>1, StopKept
  <2> QED BY <1>1, <1>3, <2>2 DEF Resume, EndInstruction, Kept
<1>4. CASE RenderNext(v) /\ UNCHANGED raised
  <2> DEFINE t == [calls EXCEPT ![Len(calls)] = Waiting("rendering")]
  <2>1. HoldsSame(calls, t)
    BY <1>1, WaitingType, NextSame DEF Kinds
  <2>2. KeptBy(v, t, handed, outranked', dropped, raised, exits)
    BY <1>2, <2>1, StopKept
  <2> QED BY <1>1, <1>4, <2>2 DEF RenderNext, CallNext, Kept
<1>5. CASE ~v.hadError /\ CallRefused(v)
  <2>1. v = vm
    <3>1. Stopped(vm) = vm \/ Stopped(vm).hadError
      BY <1>1 DEF Stopped, Sound, Machine
    <3> QED BY <1>2, <1>5, <3>1 DEF Allocated
  <2>2. outranked' = outranked
    BY <1>2, <2>1 DEF Outranks
  <2> QED BY <1>1, <1>5, <2>1, <2>2, RefusedKept DEF Kept
<1> QED BY <1>2, <1>3, <1>4, <1>5

\* Nothing is lost when the next object cannot be asked.
LEMMA NextRefusedKept ==
  ASSUME Going, Kept, NextRefused
  PROVE  Kept'
<1> DEFINE w == RuntimeError(vm, raised + 1)
<1>1. Sound(vm) /\ raised \in Nat /\ raised + 1 \in Failures /\ ~vm.hadError
  BY NextFailure DEF Going, Counters, NextRefused, Unasked
<1>2. InFlight(w) = {raised + 1} /\ InFlight(vm) = {}
  BY <1>1, RaiseFlight, FlightBasics
<1>3. HoldsSame(calls, calls)
  BY SameAsides
<1>4. vm' = w /\ raised' = raised + 1 /\ UNCHANGED <<calls, handed, outranked, dropped, exits>>
  BY DEF NextRefused, Unasked
<1> HIDE DEF w
<1>5. KeptBy(w, calls, handed, outranked, dropped, raised + 1, exits)
  BY <1>1, <1>2, <1>3, KeptError DEF Kept
<1> QED BY <1>4, <1>5 DEF Kept

\* An error is given to the handler of an onError, or nobody.
LEMMA GuardedKept ==
  ASSUME Going, Kept, GuardedFails
  PROVE  Kept'
<1>1. /\ Sound(vm) /\ calls \in Seq(Call) /\ calls # <<>> /\ raised \in Nat
      /\ Last(calls).kind = "guarded"
  BY DEF Going, CallsOK, Counters, GuardedFails, Answering
<1>2. ~vm.exiting /\ handed' = handed \cup InFlight(vm)
      /\ UNCHANGED <<exits, outranked, dropped>>
  BY DEF GuardedFails, LetsPast
<1>3. PICK v \in Allocated(vm) :
        \/ CallNext(Waiting("handler"), Caught(v)) /\ UNCHANGED raised
        \/ CallRefused(Caught(v))
  BY DEF GuardedFails
<1> DEFINE w == Caught(v)
           h == handed \cup InFlight(vm)
<1>4. Sound(v) /\ ~v.exiting
  <2>1. v = vm \/ v = Stopped(vm)
    BY DEF Allocated
  <2>2. ~Stopped(vm).exiting
    BY <1>1, <1>2 DEF Stopped, Sound, Machine
  <2> QED BY <1>1, <1>2, <2>1, <2>2, StopSound
<1>5. Sound(w) /\ ~w.hadError /\ InFlight(w) = {}
  BY <1>4, LowerSound, FlightBasics
<1>6. HoldsSame(calls, calls)
  BY SameAsides
<1> HIDE DEF w
<1>7. KeptBy(w, calls, h, outranked, dropped, raised, exits)
  BY <1>1, <1>2, <1>5, <1>6, KeptHanded DEF Kept
<1>8. handed' = h
  BY <1>2
<1> HIDE DEF h
<1>9. CASE CallNext(Waiting("handler"), w) /\ UNCHANGED raised
  BY <1>1, <1>2, <1>5, <1>7, <1>8, <1>9, CallNextKept DEF Kinds
<1>10. CASE CallRefused(w)
  BY <1>1, <1>2, <1>5, <1>7, <1>8, <1>10, RefusedKept
<1> QED BY <1>3, <1>9, <1>10 DEF w

\* The cleanup of a body that finished.
LEMMA FinishedKept ==
  ASSUME Going, Kept, EnsuredFinished
  PROVE  Kept'
<1>1. /\ Sound(vm) /\ ~vm.hadError /\ Last(calls).kind = "ensured"
      /\ UNCHANGED <<exits, handed, outranked, dropped>>
  BY DEF Going, EnsuredFinished, Answering
<1>2. KeptBy(vm, calls, handed, outranked, dropped, raised, exits)
  BY DEF Kept
<1>3. CASE CallNext(Waiting("cleanup"), vm) /\ UNCHANGED raised
  BY <1>1, <1>2, <1>3, CallNextKept DEF Kinds
<1>4. CASE CallRefused(vm)
  BY <1>1, <1>2, <1>4, RefusedKept
<1> QED BY <1>3, <1>4 DEF EnsuredFinished

\* The cleanup of one that failed.
LEMMA FailedKept ==
  ASSUME Going, Kept, EnsuredFailed
  PROVE  Kept'
<1> DEFINE c == SetAside(vm)
           f == FailureOf(c.saved)
<1>1. /\ Sound(vm) /\ calls \in Seq(Call) /\ calls # <<>> /\ raised \in Nat
      /\ Last(calls).kind = "ensured" /\ vm.hadError /\ ~vm.stopped
      /\ UNCHANGED <<exits, handed, outranked>>
  BY DEF Going, CallsOK, Counters, EnsuredFailed, Answering
<1>2. /\ c \in Call /\ c.kind = "aside" /\ c.saved \in Saved /\ f \in Failures
  BY <1>1, AsideSound DEF Holds
<1>3. InFlight(vm) = {f} /\ c.saved.exiting = vm.exiting /\ vm.exiting \in BOOLEAN
  BY <1>1, LiftFlight, FlightBasics
<1>4. Sound(Lifted(vm)) /\ ~Lifted(vm).hadError /\ InFlight(Lifted(vm)) = {}
  BY <1>1, LowerSound, FlightBasics
<1>5. KeptBy(vm, calls, handed, outranked, dropped, raised, exits)
  BY DEF Kept
<1>6. CASE CallNext(c, Lifted(vm)) /\ UNCHANGED <<raised, dropped>>
  <2> HIDE DEF c
  <2>1. KeptBy(Lifted(vm), [calls EXCEPT ![Len(calls)] = c], handed, outranked, dropped,
               raised, exits)
    BY <1>1, <1>2, <1>3, <1>4, <1>5, KeptAside
  <2> QED BY <1>1, <1>4, <1>6, <2>1 DEF CallNext, Kept
<1>7. CASE /\ raised < MaxFailures /\ raised' = raised + 1
           /\ EnsureFails(RuntimeError(Lifted(vm), raised + 1), c.saved)
  <2> DEFINE u == RuntimeError(Lifted(vm), raised + 1)
             w == PutBack(u, c.saved)
  <2>1. raised + 1 \in Failures
    BY <1>7, NextFailure DEF Going
  <2>2. Sound(u) /\ InFlight(u) = {raised + 1}
    BY <1>4, <2>1, RaiseSound, RaiseFlight
  <2> HIDE DEF u
  <2>3. Sound(w) /\ InFlight(w) = {f} /\ w.exiting = vm.exiting
    BY <1>2, <1>3, <2>2, BackFlight, PutBackSound
  <2>4. HoldsSame(calls, Front(calls))
    BY <1>1, FrontSame
  <2>5. /\ Resume(w)
        /\ dropped' = dropped \cup ((InFlight(u) \cup {f}) \ InFlight(w))
    BY <1>7 DEF EnsureFails, u
  <2> HIDE DEF w, c, f
  <2>6. KeptBy(w, Front(calls), handed, outranked,
               dropped \cup (({raised + 1} \cup {f}) \ InFlight(w)), raised + 1, exits)
    BY <1>1, <1>3, <1>5, <2>3, <2>4, KeptRefused
  <2>7. vm' = w
    BY <2>5 DEF Resume, EndInstruction
  <2> QED BY <1>1, <1>7, <2>2, <2>5, <2>6, <2>7 DEF Resume, Kept
<1> QED BY <1>6, <1>7 DEF EnsuredFailed

LEMMA AsideKept ==
  ASSUME Going, Kept, AsideAnswered
  PROVE  Kept'
<1> DEFINE saved == Last(calls).saved
           w == PutBack(vm, saved)
<1>1. /\ Sound(vm) /\ calls \in Seq(Call) /\ calls # <<>> /\ raised \in Nat
      /\ Last(calls).kind = "aside" /\ UNCHANGED <<raised, exits, handed, outranked>>
  BY DEF Going, CallsOK, Counters, AsideAnswered, Answering
<1>2. saved \in Saved /\ FailureOf(saved) \in Failures
  BY AnsweringFacts DEF AsideAnswered, Kinds
<1>3. Sound(w) /\ InFlight(w) = {FailureOf(saved)} /\ w.exiting = saved.exiting
  BY <1>1, <1>2, BackFlight, PutBackSound
<1>4. /\ Resume(w)
      /\ dropped' = dropped \cup ((InFlight(vm) \cup {FailureOf(saved)}) \ InFlight(w))
  BY DEF AsideAnswered, EnsureFails
<1> HIDE DEF w
<1>5. KeptBy(w, Front(calls), handed, outranked,
             dropped \cup ((InFlight(vm) \cup {FailureOf(saved)}) \ InFlight(w)), raised, exits)
  BY <1>1, <1>3, KeptBack DEF Kept
<1>6. vm' = w
  BY <1>4 DEF Resume, EndInstruction
<1> HIDE DEF saved
<1> QED BY <1>1, <1>4, <1>5, <1>6 DEF Resume, Kept

LEMMA AnswerKept ==
  ASSUME Going, Kept,
         \/ PlainAnswered \/ RenderingAnswered \/ NextRefused
         \/ GuardedPasses \/ GuardedFails \/ HandlerAnswered
         \/ EnsuredStopped \/ EnsuredFinished \/ EnsuredFailed
         \/ CleanupAnswered \/ AsideAnswered
  PROVE  Kept'
<1>1. CASE GuardedFails
  BY <1>1, GuardedKept
<1>2. CASE EnsuredFinished
  BY <1>2, FinishedKept
<1>3. CASE EnsuredFailed
  BY <1>3, FailedKept
<1>4. CASE AsideAnswered
  BY <1>4, AsideKept
<1>5. CASE GuardedPasses \/ HandlerAnswered \/ EnsuredStopped \/ CleanupAnswered
  <2>1. /\ Last(calls).kind # "aside" /\ Resume(vm)
        /\ UNCHANGED <<raised, exits, handed, outranked, dropped>>
    BY <1>5 DEF GuardedPasses, HandlerAnswered, EnsuredStopped, CleanupAnswered, Answering
  <2> QED BY <2>1, ResumeKept
<1>6. CASE PlainAnswered
  <2>1. Last(calls).kind # "aside" /\ UNCHANGED <<exits, handed, outranked, dropped>>
    BY <1>6 DEF PlainAnswered, Answering
  <2>2. CASE Resume(vm) /\ UNCHANGED raised
    BY <2>1, <2>2, ResumeKept
  <2>3. CASE CallNext(Waiting("plain"), vm) /\ UNCHANGED raised
    BY <2>1, <2>3, CallNextKept DEF Kinds, Kept
  <2>4. CASE ~vm.hadError /\ CallRefused(vm)
    BY <2>1, <2>4, RefusedKept DEF Kept, Going
  <2> QED BY <1>6, <2>2, <2>3, <2>4 DEF PlainAnswered
<1>7. CASE RenderingAnswered
  BY <1>7, RenderingKept
<1>8. CASE NextRefused
  BY <1>8, NextRefusedKept
<1> QED BY <1>1, <1>2, <1>3, <1>4, <1>5, <1>6, <1>7, <1>8

\* A run begins and ends with nothing set aside.
LEMMA NothingHeld ==
  ASSUME NEW s, AsidesAt(s) = {}
  PROVE  Laid(s) = {} /\ Soft(s) = {} /\ Ascending(s)
BY DEF Laid, Soft, Ascending

LEMMA KeptEmpty ==
  ASSUME NEW v, NEW s, AsidesAt(s) = {}, InFlight(v) = {}
  PROVE  KeptBy(v, s, {}, {}, {}, 0, {})
<1>1. Laid(s) = {} /\ Soft(s) = {} /\ Ascending(s)
  BY NothingHeld
<1>2. 1 .. 0 = {}
  OBVIOUS
<1>3. Books({}, {}, {} \cup {}, {}, 0)
  BY <1>2 DEF Books
<1> QED BY <1>1, <1>2, <1>3 DEF KeptBy, ExitsApart

LEMMA InitKept == Init => Kept
<1> SUFFICES ASSUME Init PROVE Kept
  OBVIOUS
<1>1. AsidesAt(calls) = {} /\ InFlight(vm) = {}
  BY DEF Init, AsidesAt, InFlight
<1> QED BY <1>1, KeptEmpty DEF Init, Kept

LEMMA StartKept ==
  ASSUME TypeInv, Start
  PROVE  Kept'
<1>1. calls' = <<Waiting("run")>> /\ Waiting("run").kind = "run"
  BY DEF Start, Waiting
<1>2. AsidesAt(calls') = {}
  BY <1>1 DEF AsidesAt
<1>3. Sound(Fresh) /\ InFlight(Fresh) = {}
  <2>1. Sound(vm) /\ vm \in Machine
    BY DEF TypeInv, Sound
  <2>2. ~Fresh.hadError
    BY <2>1 DEF Fresh, Machine
  <2>3. Sound(Fresh)
    BY <2>1, FreshSound
  <2> QED BY <2>2, <2>3, FlightBasics
<1>4. InFlight(vm') = {}
  <2>1. vm' \in Allocated(Fresh)
    BY DEF Start
  <2> QED BY <1>3, <2>1, StopFlight
<1>5. raised' = 0 /\ exits' = {} /\ handed' = {} /\ dropped' = {} /\ outranked' = {}
  BY DEF Start
<1>6. KeptBy(vm', calls', handed', outranked', dropped', raised', exits')
  BY <1>2, <1>4, <1>5, KeptEmpty
<1> QED BY <1>6 DEF Kept

LEMMA EndKept ==
  ASSUME Going, Kept, RunEnds
  PROVE  Kept'
<1>1. calls \in Seq(Call) /\ calls # <<>> /\ raised \in Nat /\ Last(calls).kind = "run"
  BY DEF Going, CallsOK, Counters, RunEnds, Answering
<1>2. Len(calls) = 1 /\ calls[1].kind = "run"
  <2>1. Last(calls) = calls[Len(calls)] /\ Len(calls) \in 1 .. Len(calls)
    BY <1>1, LastCall
  <2> QED BY <1>1, <2>1 DEF Going, CallsOK, Stacked
<1>3. AsidesAt(calls) = {}
  BY <1>2 DEF AsidesAt
<1>4. calls' = <<>> /\ UNCHANGED <<vm, raised, exits, handed, outranked, dropped>>
  BY DEF RunEnds
<1>5. AsidesAt(calls') = AsidesAt(calls)
  BY <1>3, <1>4 DEF AsidesAt
<1>6. HoldsSame(calls, calls')
  BY <1>3, <1>5, SameAsides
<1>7. KeptBy(vm', calls', handed', outranked', dropped', raised', exits')
  BY <1>1, <1>4, <1>6, KeptSame DEF Kept
<1> QED BY <1>7 DEF Kept

LEMMA NextKept == TypeInv /\ Kept /\ [Next]_vars => Kept'
<1> SUFFICES ASSUME TypeInv, Kept, [Next]_vars PROVE Kept'
  OBVIOUS
<1>1. CASE UNCHANGED vars
  BY <1>1 DEF vars, history, Kept
<1>2. CASE Next
  BY <1>2, StepCases, StartKept, EndKept, DispatchKept, AnswerKept
<1> QED BY <1>1, <1>2

\* Only a stop takes the place of a failure, and a stopped machine stays so.
Superseded == outranked # {} => vm.stopped

LEMMA StopStays ==
  ASSUME Going, Proceed
  PROVE  vm.stopped => vm'.stopped
<1> SUFFICES ASSUME vm.stopped PROVE vm'.stopped
  OBVIOUS
<1>1. Sound(vm) /\ vm \in Machine
  BY DEF Going, Sound
<1>2. Stopped(vm) = vm /\ Allocated(vm) = {vm}
  BY DEF Stopped, Allocated
<1>3. /\ RuntimeError(vm, raised + 1).stopped /\ Exited(vm, raised + 1).stopped
      /\ \A saved : PutBack(vm, saved).stopped
  BY <1>1 DEF RuntimeError, Exited, PutBack, Machine
<1>4. CASE StepLimitReached \/ Work \/ Fail \/ Exit \/ Return
  BY <1>2, <1>3, <1>4 DEF StepLimitReached, Work, Fail, Exit, Return, EndInstruction
<1>5. CASE CallPlain \/ CallOnError \/ CallEnsure
  BY <1>2, <1>5 DEF CallPlain, CallOnError, CallEnsure, Begin
<1>6. CASE \/ PlainAnswered \/ GuardedPasses \/ HandlerAnswered \/ EnsuredStopped
           \/ CleanupAnswered
  BY <1>3, <1>6 DEF PlainAnswered, GuardedPasses, HandlerAnswered, EnsuredStopped,
                    CleanupAnswered, Resume, CallNext, CallRefused, EndInstruction
<1>7. CASE RenderingAnswered
  BY <1>2, <1>3, <1>7 DEF RenderingAnswered, RenderNext, Resume, CallNext, CallRefused,
                          EndInstruction
<1>10. CASE FirstRefused \/ NextRefused
  BY <1>3, <1>10 DEF FirstRefused, NextRefused, Unasked
<1>8. CASE AsideAnswered
  BY <1>3, <1>8 DEF AsideAnswered, EnsureFails, Resume, EndInstruction
<1>9. CASE RunEnds
  BY <1>9 DEF RunEnds
<1> QED BY <1>4, <1>5, <1>6, <1>7, <1>8, <1>9, <1>10
        DEF Proceed, GuardedFails, LetsPast, EnsuredFinished, EnsuredFailed

LEMMA StopSupersedes ==
  ASSUME Going, Superseded, Proceed
  PROVE  Superseded'
<1>1. vm.stopped => vm'.stopped
  BY StopStays
<1>2. ASSUME NEW v \in {Stopped(vm)} \cup Allocated(vm), Outranks(v), v.stopped => vm'.stopped
      PROVE  Superseded'
  <2>1. CASE v = vm
    BY <1>1, <1>2, <2>1 DEF Outranks, Superseded
  <2>2. CASE v.stopped
    BY <1>2, <2>2 DEF Superseded
  <2> QED BY <1>2, <2>1, <2>2, StopFlight DEF Going
<1>3. CASE UNCHANGED outranked
  BY <1>1, <1>3 DEF Superseded
<1>4. CASE StepLimitReached
  BY <1>2, <1>4 DEF StepLimitReached
<1>5. CASE Work
  BY <1>2, <1>5 DEF Work, EndInstruction
<1>6. CASE RenderingAnswered
  <2>1. PICK v \in Allocated(vm) :
          Outranks(v) /\ (Resume(v) \/ RenderNext(v) \/ CallRefused(v))
    BY <1>6 DEF RenderingAnswered
  <2>2. v \in Machine
    BY <2>1, StopSound DEF Going, Sound
  <2>3. v.stopped => vm'.stopped
    BY <2>1, <2>2 DEF Resume, RenderNext, CallNext, CallRefused, EndInstruction, RuntimeError, Machine
  <2> QED BY <1>2, <2>1, <2>3
<1> QED BY <1>3, <1>4, <1>5, <1>6
        DEF Proceed, Fail, Exit, Return, CallPlain, FirstRefused, CallOnError, CallEnsure,
            RunEnds, PlainAnswered, NextRefused, GuardedPasses, GuardedFails, HandlerAnswered, EnsuredStopped,
            EnsuredFinished, EnsuredFailed, CleanupAnswered, AsideAnswered

LEMMA NextSupersedes == TypeInv /\ Superseded /\ [Next]_vars => Superseded'
<1> SUFFICES ASSUME TypeInv, Superseded, [Next]_vars PROVE Superseded'
  OBVIOUS
<1>1. CASE UNCHANGED vars
  BY <1>1 DEF vars, history, Superseded
<1>2. CASE Start
  BY <1>2 DEF Start, Superseded
<1>3. CASE Going /\ Proceed
  BY <1>3, StopSupersedes
<1> QED BY <1>1, <1>2, <1>3, StepCases DEF Next, Proceed

LEMMA AlwaysKept == Init /\ [][Next]_vars => [](TypeInv /\ Kept /\ Superseded)
<1>1. Init => TypeInv /\ Kept /\ Superseded
  BY InitTypes, InitKept DEF Init, Superseded
<1>2. TypeInv /\ Kept /\ Superseded /\ [Next]_vars => (TypeInv /\ Kept /\ Superseded)'
  BY NextTypes, NextKept, NextSupersedes
<1> QED BY <1>1, <1>2, PTL

-----------------------------------------------------------------------------
(* What is said of the books                                               *)

\* Inner ensures hold later failures, so no two hold the same.
LEMMA HeldApart ==
  ASSUME NEW s, NEW r \in Nat, Ascending(s), Laid(s) \subseteq 1 .. r
  PROVE  /\ IsFiniteSet(AsidesAt(s)) /\ Cardinality(AsidesAt(s)) = Cardinality(Laid(s))
<1> DEFINE F == [k \in AsidesAt(s) |-> FailureOf(s[k].saved)]
<1>1. \A k \in AsidesAt(s) : k \in Int /\ F[k] = FailureOf(s[k].saved) /\ F[k] \in Laid(s)
  BY DEF AsidesAt, Laid
<1>2. \A j, k \in AsidesAt(s) : j < k => F[j] < F[k]
  BY <1>1 DEF Ascending
<1>3. \A k \in AsidesAt(s) : F[k] \in Int
  BY <1>1
<1>4. F \in [AsidesAt(s) -> Laid(s)]
  BY <1>1
<1>5. \A g \in Laid(s) : \E k \in AsidesAt(s) : F[k] = g
  BY DEF Laid
<1> HIDE DEF F
<1>6. \A j, k \in AsidesAt(s) : j # k => F[j] # F[k]
  BY <1>1, <1>2, <1>3
<1>7. F \in Injection(AsidesAt(s), Laid(s)) /\ F \in Surjection(AsidesAt(s), Laid(s))
  BY <1>4, <1>5, <1>6 DEF Injection, Surjection, IsInjective
<1>8. IsFiniteSet(Laid(s))
  <2>1. 1 \in Int /\ r \in Int
    OBVIOUS
  <2>2. IsFiniteSet(1 .. r)
    BY <2>1, FS_Interval
  <2> QED BY <2>2, FS_Subset
<1> QED BY <1>7, <1>8, FS_Injection

LEMMA CountTwo ==
  ASSUME NEW a, NEW b, IsFiniteSet(a), IsFiniteSet(b), a \cap b = {}
  PROVE  Cardinality(a \cup b) = Cardinality(a) + Cardinality(b)
<1>1. Cardinality(a) \in Nat /\ Cardinality(b) \in Nat /\ Cardinality({}) = 0
  BY FS_CardinalityType, FS_EmptySet
<1>2. Cardinality(a \cup b) = Cardinality(a) + Cardinality(b) - Cardinality(a \cap b)
  BY FS_Union
<1>3. Cardinality(a \cap b) = 0
  BY <1>1, Zenon
<1> QED BY <1>1, <1>2, <1>3

\* Sets that are apart, four of them, and together the failures raised.
LEMMA CountApart ==
  ASSUME NEW a, NEW b, NEW c, NEW d, NEW r \in Nat, 1 .. r = a \cup b \cup c \cup d,
         a \cap b = {}, (a \cup b) \cap (c \cup d) = {}, c \cap d = {}
  PROVE  r = Cardinality(a) + Cardinality(b) + Cardinality(c) + Cardinality(d)
<1>1. IsFiniteSet(1 .. r) /\ Cardinality(1 .. r) = r
  BY FS_Interval
<1>2. IsFiniteSet(a) /\ IsFiniteSet(b) /\ IsFiniteSet(c) /\ IsFiniteSet(d)
  BY <1>1, FS_Subset
<1>3. /\ Cardinality(a) \in Nat /\ Cardinality(b) \in Nat
      /\ Cardinality(c) \in Nat /\ Cardinality(d) \in Nat
  BY <1>2, FS_CardinalityType
<1>4. Cardinality({}) = 0
  BY FS_EmptySet
<1>5. IsFiniteSet(a \cup b) /\ Cardinality(a \cup b) = Cardinality(a) + Cardinality(b)
  BY <1>2, <1>3, <1>4, FS_Union
<1>6. IsFiniteSet(c \cup d) /\ Cardinality(c \cup d) = Cardinality(c) + Cardinality(d)
  BY <1>2, <1>3, <1>4, FS_Union
<1> DEFINE p == a \cup b
           q == c \cup d
<1>7. 1 .. r = p \cup q /\ p \cap q = {}
  OBVIOUS
<1>8. IsFiniteSet(p) /\ IsFiniteSet(q)
  BY <1>5, <1>6
<1> HIDE DEF p, q
<1>9. Cardinality(p) \in Nat /\ Cardinality(q) \in Nat
  BY <1>8, FS_CardinalityType
<1>10. Cardinality(p \cup q) = Cardinality(p) + Cardinality(q)
  <2>1. Cardinality(p \cup q) = Cardinality(p) + Cardinality(q) - Cardinality(p \cap q)
    BY <1>8, FS_Union
  <2>2. Cardinality(p \cap q) = 0
    BY <1>4, <1>7, Zenon
  <2> QED BY <1>9, <2>1, <2>2
<1>11. Cardinality(p \cup q) = r
  BY <1>1, <1>7, Zenon
<1>12. r = Cardinality(p) + Cardinality(q)
  BY <1>10, <1>11
<1>13. /\ Cardinality(p) = Cardinality(a) + Cardinality(b)
       /\ Cardinality(q) = Cardinality(c) + Cardinality(d)
  BY <1>5, <1>6 DEF p, q
<1> QED BY <1>3, <1>12, <1>13

\* It takes no fairness.
LEMMA StayAccounted == Init /\ [][Next]_vars => []FailuresAccounted
<1>1. TypeInv /\ Kept /\ Superseded => FailuresAccounted
  <2> SUFFICES ASSUME TypeInv, Kept, Superseded PROVE FailuresAccounted
    OBVIOUS
  <2> DEFINE i == InFlight(vm)
             l == Laid(calls)
             c == handed \cup outranked
  <2>1. raised \in Nat /\ KeptBy(vm, calls, handed, outranked, dropped, raised, exits)
    BY DEF TypeInv, TypeOK, Kept
  <2>2. /\ Books(i, l, c, dropped, raised) /\ Ascending(calls)
        /\ handed \cap exits = {} /\ handed \cap outranked = {}
    BY <2>1 DEF KeptBy, ExitsApart
  <2>3. i \cap l = {} /\ l \subseteq 1 .. raised
    BY <2>1, KeptBounds
  <2> HIDE DEF c
  <2>4. /\ 1 .. raised = i \cup l \cup c \cup dropped
        /\ (i \cup l) \cap (c \cup dropped) = {} /\ c \cap dropped = {}
    BY <2>2 DEF Books
  <2>5. Asides = AsidesAt(calls) /\ l = {FailureOf(calls[k].saved) : k \in Asides}
    BY DEF Asides, AsidesAt, Laid
  <2>6. Cardinality(Asides) = Cardinality(l)
    BY <2>1, <2>2, <2>3, <2>5, HeldApart
  <2> HIDE DEF i, l
  <2>7. raised = Cardinality(i) + Cardinality(l) + Cardinality(c) + Cardinality(dropped)
    BY <2>1, <2>3, <2>4, CountApart
  <2>8. Cardinality(c) = Cardinality(handed) + Cardinality(outranked)
    <3>1. IsFiniteSet(1 .. raised)
      BY <2>1, FS_Interval
    <3>2. handed \subseteq 1 .. raised /\ outranked \subseteq 1 .. raised
      BY <2>4 DEF c
    <3>3. IsFiniteSet(handed) /\ IsFiniteSet(outranked)
      BY <3>1, <3>2, FS_Subset
    <3> QED BY <2>2, <3>3, CountTwo DEF c
  <2>9. /\ Cardinality(i) \in Nat /\ Cardinality(l) \in Nat /\ Cardinality(dropped) \in Nat
        /\ Cardinality(handed) \in Nat /\ Cardinality(outranked) \in Nat
    <3>1. IsFiniteSet(1 .. raised)
      BY <2>1, FS_Interval
    <3>2. /\ i \subseteq 1 .. raised /\ l \subseteq 1 .. raised /\ dropped \subseteq 1 .. raised
          /\ handed \subseteq 1 .. raised /\ outranked \subseteq 1 .. raised
      BY <2>4 DEF c
    <3> QED BY <3>1, <3>2, FS_Subset, FS_CardinalityType
  <2>10. raised = Cardinality(i) + Cardinality(Asides) + Cardinality(handed)
                  + Cardinality(dropped) + Cardinality(outranked)
    BY <2>6, <2>7, <2>8, <2>9
  <2>11. 1 .. raised = i \cup {FailureOf(calls[k].saved) : k \in Asides}
                       \cup handed \cup dropped \cup outranked
    BY <2>4, <2>5 DEF c
  <2> QED BY <2>2, <2>10, <2>11 DEF FailuresAccounted, Superseded, i
<1> QED BY <1>1, AlwaysKept, PTL

\* Whatever fails and exits in bodies, handlers and cleanups, however they are
\* nested, whatever is refused or stopped and whatever the renderer goes on over:
\* each failure is in one place, none is swallowed or told of twice, only a stop
\* takes the place of one, and no handler is given an exit.
THEOREM FailuresHaveOnePlace == Spec => []FailuresAccounted
  BY StayAccounted, PTL DEF Spec

\* However many cleanups fail over one another, what ensure throws away came
\* after something that it has not thrown away.
THEOREM FirstFailureSurvives == Spec => []FirstFailureWins
<1>1. TypeInv /\ Kept /\ Superseded => FirstFailureWins
  BY DEF Kept, KeptBy, Books, FirstFailureWins
<1> QED BY <1>1, AlwaysKept, PTL DEF Spec
===============================================================================
