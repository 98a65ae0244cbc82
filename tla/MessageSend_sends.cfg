SPECIFICATION Spec
CONSTANTS
  c1 = c1
  c2 = c2
  Cmds = {c1, c2}
  MaxExpiries = 1
  MaxLost = 2
CHECK_DEADLOCK FALSE
INVARIANT NoNeedlessDuplicate
INVARIANT AnswerIsTrue
INVARIANT AuthHeals
SYMMETRY Symmetry
