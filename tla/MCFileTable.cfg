SPECIFICATION Spec
CONSTANTS
  Threads = {t1, t2}
  Tables = {a, b}
  CONTEXT_MAX_FILES = 3
  MaxNumbers = 4
  MaxCalls = 3
  Kinds = {"proc"}
  FlagSets = {{}, {"R"}}
INVARIANTS TypeOK HandleOutlivesUse
PROPERTIES  ClosedIsSilent
SYMMETRY Symmetry
CHECK_DEADLOCK FALSE
