SPECIFICATION MCFairSpec
CONSTANTS
  daemon = daemon
  main = main
  worker = worker
  signal = signal
  baby = baby
  Nobody = Nobody
  Threads = {daemon, main, baby}
  Does <- DoesThreads
PROPERTIES StopCompletes GcEnds ChildRuns
CHECK_DEADLOCK FALSE
