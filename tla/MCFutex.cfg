CONSTANTS
  Threads = {t1, t2, t3}
  Addrs = {a, b}
  Values = {v0, v1}
  MaxEntries = 3
  MaxTimeouts = 1
  MaxSignals = 1
  MaxRequeues = 1
SPECIFICATION Spec
SYMMETRY Symmetry
INVARIANTS TypeOK NoLostWakeup SleeperIsListed
PROPERTIES WakeIsExact
CHECK_DEADLOCK FALSE
