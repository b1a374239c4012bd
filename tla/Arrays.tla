-------------------------------- MODULE Arrays --------------------------------
(***************************************************************************)
(* An array and the primitives that call a block for its elements: do,     *)
(* collect, select, inject and sorted; and the counted loop of a range.    *)
(*                                                                         *)
(* The block may change the array, or fail.  What else it runs on it, such *)
(* as another of these, has nothing in common with this one but the array. *)
(* A step is what happens from one answer of a block to the next call of   *)
(* one; a sort takes several.  given, answers and started are history.     *)
(***************************************************************************)
EXTENDS Integers, Sequences, FiniteSets, SequencesExt

CONSTANTS
  Elem,       \* elements: the integers there are
  Rank,       \* what sorting compares of an element
  Starts,     \* arrays to start with
  Stale,      \* what the store holds past the count
  MaxLength,  \* bound: elements of an array that grows
  MaxChanges  \* bound: changes made to the array

VARIABLES
  items,   \* what the array holds
  running, \* the primitive in progress, which has called its block
  ended,   \* the one that answered in this step, and the array as it was then
  changes  \* how often the array has changed

vars == <<items, running, ended, changes>>

\* Elements are integers, and what lies past the count is none of them.
ArraysAssumption ==
  /\ Elem \subseteq Int /\ Stale \notin Elem
  /\ Rank \in [Elem -> Int]
  /\ Starts \subseteq Seq(Elem)

Walks == {"do", "collect", "select", "inject"}

Walking(op) ==
  [op |-> op, started |-> items, given |-> <<>>, answers |-> <<>>,
   limit |-> Len(items), i |-> 0, result |-> <<>>]

Idle == [op |-> "none"]
NoneEnded == [call |-> Idle, items |-> <<>>]

Init ==
  /\ items \in Starts
  /\ running = Idle
  /\ ended = NoneEnded
  /\ changes = 0

-----------------------------------------------------------------------------
(* Walks.                                                                  *)

ElementAt(i) == IF i < Len(items) THEN items[i + 1] ELSE Stale

\* Mutant of Going: nothing is asked of an array that became shorter.
GoingBlind(c) == c.i < c.limit

\* Mutant of Going: the count is read at every pass.
GoingOn(c) == c.i < Len(items)

\* The count is read once, and the array asked at every pass whether it is still as long.
Going(c) == c.i < c.limit /\ c.i < Len(items)

\* select keeps an element before its block has said whether to.
Given(c) ==
  [c EXCEPT !.given = Append(@, ElementAt(c.i)),
            !.result = IF c.op = "select" THEN Append(@, ElementAt(c.i)) ELSE @]

\* Mutant of Answered: select keeps the element it finds when the block has answered.
AnsweredLater(c, v) ==
  [c EXCEPT !.i = @ + 1,
            !.answers = Append(@, v),
            !.result = CASE c.op = "collect" -> Append(@, v)
                         [] c.op = "select" -> IF v THEN Append(Front(@), ElementAt(c.i)) ELSE Front(@)
                         [] c.op = "inject" -> <<v>>
                         [] OTHER -> @]

Answered(c, v) ==
  [c EXCEPT !.i = @ + 1,
            !.answers = Append(@, v),
            !.result = CASE c.op = "collect" -> Append(@, v)
                         [] c.op = "select" -> IF v THEN @ ELSE Front(@)
                         [] c.op = "inject" -> <<v>>
                         [] OTHER -> @]

-----------------------------------------------------------------------------
(* sorted: a copy, whose elements are known by their places in the array   *)
(* that was to be sorted, and the calls of merge_sort in progress, the     *)
(* innermost last, each with what it does next.                            *)

Merging(lo, hi) ==
  LET mid == lo + (hi - lo) \div 2 IN
  [lo |-> lo, mid |-> mid, hi |-> hi, i |-> lo, j |-> mid, next |-> "left"]

\* honest: the comparison orders the elements by rank; else it answers as it likes.
Sorting(honest) ==
  [op |-> "sorted", started |-> items, honest |-> honest,
   calls |-> <<Merging(0, Len(items))>>, scratch |-> <<>>, result |-> [p \in 1 .. Len(items) |-> p]]

RankAt(c, p) == Rank[c.started[p]]

\* Whether the next of the right half sorts strictly before the next of the left.
Before(c) == LET m == Last(c.calls) IN RankAt(c, c.result[m.j + 1]) < RankAt(c, c.result[m.i + 1])

\* The innermost call is m now.
Instead(c, m) == Append(Front(c.calls), m)

TakenRight(c) ==
  LET m == Last(c.calls) IN
  [c EXCEPT !.scratch = Append(@, c.result[m.j + 1]), !.calls = Instead(c, [m EXCEPT !.j = @ + 1])]

TakenLeft(c) ==
  LET m == Last(c.calls) IN
  [c EXCEPT !.scratch = Append(@, c.result[m.i + 1]), !.calls = Instead(c, [m EXCEPT !.i = @ + 1])]

\* Mutant of Taken: of two that sort alike the right one is taken.
TakenUnstably(c, right) ==
  LET m == Last(c.calls) IN
  IF right \/ (m.j < m.hi /\ RankAt(c, c.result[m.j + 1]) = RankAt(c, c.result[m.i + 1])) THEN TakenRight(c)
  ELSE TakenLeft(c)

\* Which half is copied from to scratch.
Taken(c, right) == IF right THEN TakenRight(c) ELSE TakenLeft(c)

\* A half is sorted first: merge_sort calls itself.
Halved(c, next, lo, hi) ==
  [c EXCEPT !.calls = Append(Instead(c, [Last(c.calls) EXCEPT !.next = next]), Merging(lo, hi))]

Returned(c) == [c EXCEPT !.calls = Front(@)]

\* What was merged is copied back.
Merged(c) ==
  LET m == Last(c.calls) IN
  [c EXCEPT !.calls = Front(@), !.scratch = <<>>,
            !.result = [x \in DOMAIN @ |-> IF m.lo < x /\ x <= m.hi THEN c.scratch[x - m.lo] ELSE @[x]]]

\* Whether it has a question for its block.
Asks(c) ==
  LET m == Last(c.calls) IN
  c.calls # <<>> /\ m.next = "merge" /\ m.i < m.mid /\ m.j < m.hi

-----------------------------------------------------------------------------
(* [from, to, step]:loop, where the array is the range.                    *)

Looping ==
  [op |-> "loop", started |-> items, given |-> <<>>, at |-> items[1], to |-> items[2],
   step |-> IF Len(items) = 3 THEN items[3] ELSE 1, over |-> FALSE]

InRange(c) == ~c.over /\ IF c.step > 0 THEN c.at <= c.to ELSE c.at >= c.to

\* Mutant of Stepped: the sum wraps.
SteppedRound(c) ==
  LET low == CHOOSE w \in Elem : \A x \in Elem : w <= x
      sum == c.at + c.step IN
  [c EXCEPT !.at = low + ((sum - low) % Cardinality(Elem))]

\* The loop is over when the next integer would not be one.
Stepped(c) == IF c.at + c.step \in Elem THEN [c EXCEPT !.at = @ + c.step] ELSE [c EXCEPT !.over = TRUE]

-----------------------------------------------------------------------------
(* Calls and answers.                                                      *)

\* Whether a walk or a loop has its block to call again; and the call.
Calling(c) == IF c.op = "loop" THEN InRange(c) ELSE Going(c)

Called(c) == IF c.op = "loop" THEN [c EXCEPT !.given = Append(@, c.at)] ELSE Given(c)

Stays(c) == running' = c /\ ended' = NoneEnded /\ UNCHANGED <<items, changes>>

Ends(c) == running' = Idle /\ ended' = [call |-> c, items |-> items] /\ UNCHANGED <<items, changes>>

\* What a walk or a loop does from one call of its block to the next, or to its end.
Goes(c) == IF Calling(c) THEN Stays(Called(c)) ELSE Ends(c)

StartWalk(op) == running = Idle /\ Goes(Walking(op))

StartSort(honest) == running = Idle /\ Stays(Sorting(honest))

StartLoop ==
  /\ running = Idle
  /\ Len(items) \in {2, 3} /\ Looping.step # 0
  /\ Goes(Looping)

WalkOn(ops, v) == running.op \in ops /\ Goes(Answered(running, v))

SortOn(before) ==
  /\ running.op = "sorted" /\ Asks(running)
  /\ running.honest => before = Before(running)
  /\ Stays(Taken(running, before))

LoopOn == running.op = "loop" /\ Goes(Stepped(running))

\* What a sort does between two questions, step by step and with nothing between:
\* it sorts the halves, copies what one half has left, and copies back.
Innermost(next) ==
  running.op = "sorted" /\ running.calls # <<>> /\ Last(running.calls).next = next

Short == Last(running.calls).hi - Last(running.calls).lo < 2

SortShort == Innermost("left") /\ Short /\ Stays(Returned(running))

SortLeft ==
  /\ Innermost("left") /\ ~Short
  /\ Stays(Halved(running, "right", Last(running.calls).lo, Last(running.calls).mid))

SortRight ==
  /\ Innermost("right")
  /\ Stays(Halved(running, "merge", Last(running.calls).mid, Last(running.calls).hi))

MergeRest ==
  LET m == Last(running.calls) IN
  /\ Innermost("merge")
  /\ (m.i < m.mid) # (m.j < m.hi)
  /\ Stays(Taken(running, m.j < m.hi))

MergeEnds ==
  LET m == Last(running.calls) IN
  /\ Innermost("merge")
  /\ ~(m.i < m.mid) /\ ~(m.j < m.hi)
  /\ Stays(Merged(running))

SortEnds == running.op = "sorted" /\ running.calls = <<>> /\ Ends(running)

\* Nothing else happens while a sort has no question.
Waits == running.op = "sorted" => Asks(running)

\* A block fails, or answers select or sorted what is not a boolean.
Fail ==
  /\ running # Idle /\ Waits
  /\ running' = Idle
  /\ ended' = NoneEnded
  /\ UNCHANGED <<items, changes>>

-----------------------------------------------------------------------------
(* What the block of a call does to the array, as does the program before. *)

Change(now) ==
  /\ Waits
  /\ changes < MaxChanges
  /\ items' = now
  /\ changes' = changes + 1
  /\ ended' = NoneEnded
  /\ UNCHANGED running

Add(e) == Len(items) < MaxLength /\ Change(Append(items, e))

RemoveLast == items # <<>> /\ Change(Front(items))

AtPut(i, e) == Change([items EXCEPT ![i] = e])

Next ==
  \/ \E op \in Walks : StartWalk(op)
  \/ \E honest \in BOOLEAN : StartSort(honest)
  \/ StartLoop
  \/ WalkOn({"do"}, TRUE)
  \/ \E e \in Elem : WalkOn({"collect", "inject"}, e)
  \/ \E keep \in BOOLEAN : WalkOn({"select"}, keep)
  \/ \E before \in BOOLEAN : SortOn(before)
  \/ SortShort \/ SortLeft \/ SortRight \/ MergeRest \/ MergeEnds \/ SortEnds
  \/ LoopOn
  \/ Fail
  \/ \E e \in Elem : Add(e)
  \/ RemoveLast
  \/ \E i \in DOMAIN items, e \in Elem : AtPut(i, e)

Spec == Init /\ [][Next]_vars

-----------------------------------------------------------------------------
(* Properties.                                                             *)

\* The integers a loop has given its block: from the first of its range, a step
\* further each time, up to its limit.
LoopGives(c) ==
  /\ \A k \in DOMAIN c.given : IF c.step > 0 THEN c.given[k] <= c.to ELSE c.given[k] >= c.to
  /\ c.given # <<>> => c.given[1] = c.started[1]
  /\ \A k \in 2 .. Len(c.given) : c.given[k] = c.given[k - 1] + c.step

\* A walk in progress has given its block only what the array held, each place
\* once and in order, and none that it did not have when the walk began, though
\* its blocks grow and shrink the array (builtins.c:1733).  A loop in progress is
\* within its range, whatever has become of the array that gave it.
WalksKeepInside ==
  LET c == running IN
  /\ c.op \in Walks =>
       Stale \notin Range(c.given) /\ Len(c.given) = c.i + 1 /\ Len(c.given) <= Len(c.started)
  /\ c.op = "loop" => LoopGives(c)

\* How many of the first k elements select keeps.
Kept(c, k) == Cardinality({i \in 1 .. k : c.answers[i]})

AnswerOf(c) ==
  /\ c.op = "collect" => c.result = c.answers
  /\ c.op = "select" =>
       /\ Len(c.result) = Kept(c, Len(c.answers))
       /\ \A k \in DOMAIN c.answers : c.answers[k] => c.result[Kept(c, k)] = c.given[k]
  /\ c.op = "inject" /\ c.answers # <<>> => c.result = <<Last(c.answers)>>

\* The next integer would be past the limit, or none.
LoopedThrough(c) ==
  LET next == IF c.given = <<>> THEN c.started[1] ELSE Last(c.given) + c.step IN
  next \notin Elem \/ IF c.step > 0 THEN next > c.to ELSE next < c.to

\* Every place of what was to be sorted, once.
Permuted(c) ==
  /\ Len(c.result) = Len(c.started) /\ Range(c.result) = DOMAIN c.started
  /\ \A x, y \in DOMAIN c.result : c.result[x] = c.result[y] => x = y

\* In order, and as it was where elements sort alike.
Precedes(c, p, q) == RankAt(c, p) < RankAt(c, q) \/ (RankAt(c, p) = RankAt(c, q) /\ p < q)

Stably(c) == \A x, y \in DOMAIN c.result : x < y => Precedes(c, c.result[x], c.result[y])

\* What these answer, whatever their blocks do meanwhile (builtins.c:1746-1974).
\* A walk went over all the array had, or to where it had ended before: collect
\* answers what the block did, and select the elements as they were given it.
\* sorted answers the elements there were when it was sent, whatever the
\* comparison says; and in their order, which is stable, if that is one.
\* A loop gives every step of its range, and ends where the next is no integer.
\* Until then a walk and a loop keep inside.
AnswersHold ==
  LET c == ended.call IN
  /\ WalksKeepInside
  /\ c.op \in Walks =>
       /\ Len(c.given) = Len(c.answers)
       /\ Len(c.given) = Len(c.started) \/ Len(ended.items) <= Len(c.given)
       /\ AnswerOf(c)
  /\ c.op = "sorted" => Permuted(c) /\ (c.honest => Stably(c))
  /\ c.op = "loop" => LoopGives(c) /\ LoopedThrough(c)

===============================================================================
