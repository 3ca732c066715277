SPECIFICATION Spec
CONSTANTS
  Threads = {t1, t2, t3}
  NULL = NULL
  Procs = {p1, p2}
  N = 2
  FrameCount = 14
  WindowSize = 6
  Nil = Nil
  Garbage = Garbage
  ProcessSlots = 1
  ThreadSlots = 1
  HeapStart = 1
  PAGE_SIZE = 3
  Modulus = 64
  Incrs <- Requests
  Touched = {1}
  MaxTls = 1
  SharedHeap = FALSE
SYMMETRY Alike
INVARIANTS AddressSpacesDisjoint HeapBacked TranslationCurrent WindowReleased
CHECK_DEADLOCK FALSE
