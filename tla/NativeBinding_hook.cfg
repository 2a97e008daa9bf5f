SPECIFICATION FairSpec
CONSTANTS
  Threads = {t1, t2}
  Natives = {a, i}
  Internal = {i}
  Exported = {a}
  Given = {g}
  Symbol = s
  Target = m
  NoMethod = NoMethod
  Handler = h
  NoHandler = NoHandler
  Hooker = t1
CHECK_DEADLOCK FALSE
INVARIANTS NeverWild HookTakesEffect PROPERTIES ResolutionEnds
