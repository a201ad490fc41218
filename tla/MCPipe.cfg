CONSTANTS
  Readers = {r1, r2}
  Writers = {w1}
  MAX_QUEUE_SIZE = 2
  Pollers = {"R", "W"}
  Fcntls = {"R"}
  MaxBytes = 2
  MaxSignals = 1
SPECIFICATION Spec
SYMMETRY Symmetry
INVARIANTS TypeOK  SleepersAreStarved PipeReclaimed 
CHECK_DEADLOCK FALSE
