SPECIFICATION FairSpec
CONSTANTS
  Callers = {c1, c2}
  H = h
  MaxCalls = 2
  Answers = {"ok", "EIO", "fd"}
  MaxDeaths = 1
INVARIANTS TypeOK AnswerIsOwed FmapIsMapped
PROPERTIES CallReturns HandlerGetsEof
CHECK_DEADLOCK FALSE
