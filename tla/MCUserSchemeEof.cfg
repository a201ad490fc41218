SPECIFICATION Spec
CONSTANTS
  Callers = {c1, c2}
  H = h
  MaxCalls = 1
  Answers = {"ok"}
  MaxDeaths = 0
INVARIANTS EofIsLast
CHECK_DEADLOCK FALSE
