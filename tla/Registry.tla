------------------------------- MODULE Registry -------------------------------
(***************************************************************************)
(* What an extension is promised about the values it asks the machine to   *)
(* keep between calls: a token stands for the value it was answered for    *)
(* until it is released, a token is answered once and never again, and one *)
(* that was released, or never answered, stands for nothing.               *)
(***************************************************************************)
CONSTANTS
  Token,   \* every token an extension could present
  None,    \* SOL_RETAINED_NONE
  Value    \* what an extension may retain

VARIABLES
  held,    \* the value of each token answered and not yet released
  spent,   \* the tokens that were answered and stand for nothing any more
  reply,   \* the last call and what it answered
  open     \* the machine has not been freed

vars == <<held, spent, reply, open>>

NoReply == [call |-> "none", token |-> None, found |-> FALSE, value |-> {}]

\* The answer to a call that found a value, and to one that did not: then
\* the caller's variable is left as it was.
Found(call, t, v) == [call |-> call, token |-> t, found |-> TRUE, value |-> {v}]
Missing(call, t) == [call |-> call, token |-> t, found |-> FALSE, value |-> {}]

Init == held = [t \in {} |-> {}] /\ spent = {} /\ reply = NoReply /\ open = TRUE

Retain(v) ==
  /\ open
  /\ \E t \in Token \ (DOMAIN held \cup spent \cup {None}) :
       /\ reply' = Found("retain", t, v)
       /\ held' = [u \in DOMAIN held \cup {t} |-> IF u = t THEN v ELSE held[u]]
  /\ UNCHANGED <<spent, open>>

Retained(t) ==
  /\ open
  /\ reply' = IF t \in DOMAIN held THEN Found("retained", t, held[t])
                                   ELSE Missing("retained", t)
  /\ UNCHANGED <<held, spent, open>>

Release(t) ==
  /\ open
  /\ IF t \in DOMAIN held
     THEN /\ reply' = Found("release", t, held[t])
          /\ held' = [u \in DOMAIN held \ {t} |-> held[u]]
          /\ spent' = spent \cup {t}
     ELSE /\ reply' = Missing("release", t)
          /\ UNCHANGED <<held, spent>>
  /\ UNCHANGED open

\* Everything still retained is released when the machine goes down.
Free ==
  /\ open
  /\ open' = FALSE
  /\ held' = [t \in {} |-> {}]
  /\ spent' = spent \cup DOMAIN held
  /\ UNCHANGED reply

Next ==
  \/ \E v \in Value : Retain(v)
  \/ \E t \in Token : Retained(t) \/ Release(t)
  \/ Free

Spec == Init /\ [][Next]_vars
===============================================================================
