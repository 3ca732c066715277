SPECIFICATION Spec
CONSTANTS
  Threads = {t1, t2, t3}
  NULL = NULL
  Preemptible = FALSE
  InitCount = 1
  MaxSignals = 3
INVARIANTS TokensConserved ListsDisjoint HandlerNeverSpins
PROPERTIES SignalWakes RefinesCounting
