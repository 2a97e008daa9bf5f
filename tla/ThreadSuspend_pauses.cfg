SPECIFICATION PausesSpec
CONSTANTS
  daemon = daemon
  main = main
  worker = worker
  signal = signal
  baby = baby
  Nobody = Nobody
  Threads = {daemon, main, worker, signal, baby}
  Does <- DoesPauses
INVARIANTS SnapshotStill WorldStopped CountsBalanced
