SPECIFICATION Spec
CONSTANTS
  NCpus = 2
  NContexts = 4
  Signals = {"USR", "STOP", "CONT"}
  Affinities = {0}
  Tracing = TRUE
  MaxEvents = 2
INVARIANTS TypeOK OneCpu SavedPointIsTheProgram NotifiedIsNotBlocked
PROPERTY StoppedUntilContinued
