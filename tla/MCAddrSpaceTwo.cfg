SPECIFICATION Spec
CONSTANTS
  Spaces = {s1, s2}
  Home = s1
  Threads = {t1}
  UserEnd = 3
  MmapMins = {1}
  Bases = {}
  BootPages = 0
  Oom = TRUE
  Writes = {FALSE}
  Kfmaps = TRUE
INVARIANT OwnAssertionsHold
CHECK_DEADLOCK FALSE
