SPECIFICATION Spec
CONSTANTS
  Users = {t1, t2}
  Runner = t1
  Lookups <- MCLookups
  Calc <- MCCalc
  NullAllowed = TRUE
  Empty = Empty
  MaxVersion = 4
CHECK_DEADLOCK FALSE
INVARIANTS LookupCorrect UpdatesExclude
PROPERTIES LookupReturns
