CONSTANTS
  Receivers = {r1, r2}
  Senders = {s1, s2}
  MaxSends = 3
  MaxBuf = 2
  MaxSignals = 2
SPECIFICATION Spec
INVARIANTS TypeOK FifoExactlyOnce NoLostWakeup
PROPERTY SleeperWakes
CHECK_DEADLOCK FALSE
