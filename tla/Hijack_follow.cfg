SPECIFICATION FairSpec
CONSTANTS
  Zygote = z
  Children = {c1, c2, app}
  App = app
  NoProcess = NoProcess
  Follow = TRUE
  Rounds = 1
  Signalled = {c1}
  MaxSignals = 2
  AppLast = TRUE
CHECK_DEADLOCK FALSE
INVARIANTS SyscallCompleted RightProcess PROPERTIES LibraryInjected
