SPECIFICATION FairSpec
CONSTANTS
  NCpus = 1
  NContexts = 3
  Signals = {"USR", "KILL"}
  Affinities = {0}
  Tracing = FALSE
  MaxEvents = 1
PROPERTIES RunnableRuns KillEnds
