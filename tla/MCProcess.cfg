SPECIFICATION Spec
CONSTANTS
  MaxSpawns = 2
  MaxWaits = 2
  MaxStops = 1
  MaxFaults = 1
  Strangers = TRUE
  Leaders = {2}
INVARIANTS TypeOK ReportedOnce  UnannouncedOnlyByRace
 
CHECK_DEADLOCK FALSE
