SPECIFICATION Spec
CONSTANTS
  Threads = {t1, t2}
  NULL = NULL
  Idle = Idle
  Boot = Boot
  StackWords = 48
  TableSize = 2
  Handlers = {0}
  Numbers <- SomeNumbers
SYMMETRY Symmetry
INVARIANTS UserStateKept HandlerStateKept FaultsExplained
CHECK_DEADLOCK FALSE
