SPECIFICATION HSpec
CONSTANTS
  Threads = {t1, t2, t3}
  NULL = NULL
  TIMER_FREQ = 1
  TickModulus = 2
INVARIANTS TypeOK RunQueueIntact ReadyThreadsQueued
PROPERTIES RefinesFifo NoStarvation DeadAndWaitingStayOffCpu
