SPECIFICATION MCSpec
CONSTANTS
  Threads = {t1, t2}
  Installer = t1
  Len = 3
  Jumps = 1
  Counted = TRUE
  Count = 3
  Overlap = FALSE
  MaxDepth = 3
  MaxPatches = 4
CHECK_DEADLOCK FALSE
INVARIANTS Coherent NeverWildSerial
PROPERTIES HookRemovedSerial
