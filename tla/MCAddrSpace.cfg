SPECIFICATION Spec
CONSTANTS
  Spaces = {s1}
  Home = s1
  Threads = {t1}
  UserEnd = 3
  MmapMins = {0, 1}
  Bases = {10}
  BootPages = 0
  Oom = FALSE
  Writes = {TRUE, FALSE}
  Kfmaps = FALSE
INVARIANTS TypeOK HolesAreTheRest TableHasGrants 
PROPERTY BorrowedStaysReadOnly
CHECK_DEADLOCK FALSE
