SPECIFICATION Spec
CONSTANTS
  Value = {block}
  Nil = Nil
  Wrap = 4
  MaxRetains = 5
INVARIANTS
  NeverAnswersNone
CHECK_DEADLOCK FALSE
