SPECIFICATION Spec
CONSTANTS
  a = a
  b = b
  x = x
  y = y
  Threads = {t1}
  Objects = {a, b}
  Zygote = {a}
  Null = Null
  Fields = {f1}
  Zombie = f1
  Kinds <- MCKinds
  WordCount = 2
  Word <- MCWord
  Cards = {x, y}
  CardOf <- MCCardOf
INVARIANTS GrayOnDirtyCards KeptForAReason
PROPERTIES Implements CollectionEnds
