SPECIFICATION MCSpec
CONSTANTS
  Threads = {t1, t2}
  Installers = {t1, t2}
  Solo = t1
  Methods = {m1, m2}
  NoMethod = NoMethod
  MaxDepth = 4
  Rss <- MCRss
  ArgSize <- MCArgSize
  Ns <- MCNs
  Raced = {m1}
  RaceDepth = 3
INVARIANTS NativeFuncNeverNull
CHECK_DEADLOCK FALSE
