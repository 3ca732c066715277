SPECIFICATION Spec
CONSTANTS
  Threads = {t1, t2}
  NULL = NULL
  Preemptible = TRUE
  InitCount = 0
  MaxSignals = 2
PROPERTY SignalWakes
CHECK_DEADLOCK FALSE
