SPECIFICATION Spec
CONSTANTS
  t1 = t1
  t2 = t2
  A = A
  B = B
  L = L
  Threads = {t1, t2}
  Nobody = Nobody
  Classes = {A, B}
  NoClass = NoClass
  Super <- MCSuper
  Libs = {L}
  Loaders = {ld1, ld2}
  NoLoader = NoLoader
  Entries = {e1, e2}
  NoEntry = NoEntry
  Program <- MCProgram
  Body <- MCBody
  MaxDepth = 5
CHECK_DEADLOCK FALSE
INVARIANTS UseInitialized SomebodyWorks LoadedReady
PROPERTIES WaitersWake
