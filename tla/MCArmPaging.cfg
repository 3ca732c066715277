SPECIFICATION ASpec
CONSTANTS
  Threads = {t, u}
  NoFrame = NoFrame
  Stale = Stale
  WordBits = 4
  BITMAP_SIZE = 4
  Reserved = 1
  Requests <- Runs
  Preemptible = FALSE
  Slots = 2
  Entries = 2
  HeapStart = 1
  MaxOther = 1
SYMMETRY Symmetry
INVARIANTS ArmTranslationCurrent FramesDisjoint FramesConserved
PROPERTY RunsAligned
CHECK_DEADLOCK FALSE
